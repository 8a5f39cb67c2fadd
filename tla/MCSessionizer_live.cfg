\* One shard, fair: invocations fail or are killed at will.
CONSTANTS
  u1 = u1  u2 = u2  a = a  b = b  s1 = s1  s2 = s2
  Shards = {s1}
  Sessions = {a, b}
  Users = {u1}
  Events <- PoisonFeed
  ShardOf <- OneShard
  Timeout = 3
  TtlTicks = 2
  IsoTimes = TRUE
  BatchSize = 3
  MaxRetries = 1
  MaxNow = 0
  StaleReads = TRUE
  S3Fails = TRUE
  DdbFails = FALSE
  Crashes = TRUE
SPECIFICATION FairSpec
CHECK_DEADLOCK FALSE
PROPERTIES EventuallySettled EventuallyReflected
