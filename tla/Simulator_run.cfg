\* Two batches of two, or one and a rest; events are held for one tick or two, and the
\* background thread puts data points all the while.
CONSTANTS
  NumEvents = 4
  BatchLimit = 2
  Delays = {1, 2}
  Duration = 2
  MaxClock = 2
  MaxPoints = 2
SPECIFICATION Spec
CHECK_DEADLOCK FALSE
INVARIANTS TypeOK EachInOnePlace OnTimeInOrder ReleasedWhenDue OnlyEarlyOnesDropped CountersAgree TotalsAdvance
