\* The jobs of the second of two days; gaps, a late arrival, a row archived twice.
CONSTANTS
  u1 = u1  u2 = u2  a = a  b = b
  Users = {u1, u2}
  SessionIds = {a, b}
  Events <- GapFeed
  BatchSize = 2
  Timeout = 2
  NumDays = 2
  Dates = {2}
  Retried <- FirstOfGapFeed
  MaxCopies = 1
  Missing = Missing
SPECIFICATION Spec
CHECK_DEADLOCK FALSE
INVARIANTS TypeOK RowsPartitioned NoGapWithin SessionsApart NothingHidden 
