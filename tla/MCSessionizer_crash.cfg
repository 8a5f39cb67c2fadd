\* One shard and a clock; invocations are killed at any point, items expire,
\* reads may miss the last write.
CONSTANTS
  u1 = u1  u2 = u2  a = a  b = b  s1 = s1  s2 = s2
  Shards = {s1}
  Sessions = {a, b}
  Users = {u1}
  Events <- LateFeed
  ShardOf <- OneShard
  Timeout = 3
  TtlTicks = 1
  IsoTimes = TRUE
  BatchSize = 3
  MaxRetries = 1
  MaxNow = 1
  StaleReads = TRUE
  S3Fails = TRUE
  DdbFails = FALSE
  Crashes = TRUE
SPECIFICATION Spec
CHECK_DEADLOCK FALSE
INVARIANTS Archived LivesFromFirstEvent
PROPERTIES ImplementsSpeedLayer
