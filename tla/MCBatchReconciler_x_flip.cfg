\* FINDING: a purchase that came late is no conversion flip.
CONSTANTS
  u1 = u1  u2 = u2  a = a  b = b
  Users = {u1, u2}
  SessionIds = {a, b}
  Events <- LatePurchaseFeed
  BatchSize = 2
  Timeout = 2
  NumDays = 1
  Dates = {1}
  Retried = {}
  MaxCopies = 0
  Missing = Missing
SPECIFICATION Spec
CHECK_DEADLOCK FALSE
INVARIANTS FlipsReported
