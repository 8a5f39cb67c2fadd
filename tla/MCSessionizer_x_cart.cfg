\* FINDING: cart_total is the last batch's sum.
CONSTANTS
  u1 = u1  u2 = u2  a = a  b = b  s1 = s1  s2 = s2
  Shards = {s1}
  Sessions = {a, b}
  Users = {u1}
  Events <- PauseFeed
  ShardOf <- OneShard
  Timeout = 3
  TtlTicks = 2
  IsoTimes = TRUE
  BatchSize = 3
  MaxRetries = 2
  MaxNow = 1
  StaleReads = FALSE
  S3Fails = FALSE
  DdbFails = FALSE
  Crashes = FALSE
SPECIFICATION Spec
CHECK_DEADLOCK FALSE
INVARIANTS CartIsRunningSum
