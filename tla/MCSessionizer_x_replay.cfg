\* FINDING: a killed invocation's records are counted twice.
CONSTANTS
  u1 = u1  u2 = u2  a = a  b = b  s1 = s1  s2 = s2
  Shards = {s1}
  Sessions = {a, b}
  Users = {u1}
  Events <- PauseFeed
  ShardOf <- OneShard
  Timeout = 3
  TtlTicks = 2
  IsoTimes = TRUE
  BatchSize = 3
  MaxRetries = 2
  MaxNow = 1
  StaleReads = FALSE
  S3Fails = FALSE
  DdbFails = FALSE
  Crashes = TRUE
SPECIFICATION Spec
CHECK_DEADLOCK FALSE
INVARIANTS CountedOnce
