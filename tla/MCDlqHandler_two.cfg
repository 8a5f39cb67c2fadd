\* Two operators side by side; records refused, replies lost, runs that die.
CONSTANTS
  m1 = m1  m2 = m2  r1 = r1  r2 = r2  r3 = r3
  Operators = {"o1", "o2"}
  Messages = {m1, m2}
  Records = {r1, r2, r3}
  NamedBy <- Named
  EventsOf <- Found
  MaxMessages = 2
  ListLimit = 3
  MaxLost = 1
  MaxExpiries = 2
SPECIFICATION Spec
CHECK_DEADLOCK FALSE
INVARIANTS TypeOK LostOnlyIfRefused ReplayedOncePerReceipt AccountedOnReturn
