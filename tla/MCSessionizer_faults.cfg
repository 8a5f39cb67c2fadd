\* Two shards, each with a session of its own; S3 and DynamoDB fail at will, items expire.
CONSTANTS
  u1 = u1  u2 = u2  a = a  b = b  s1 = s1  s2 = s2
  Shards = {s1, s2}
  Sessions = {a, b}
  Users = {u1, u2}
  Events <- TwoUserFeed
  ShardOf <- OwnShard
  Timeout = 3
  TtlTicks = 1
  IsoTimes = TRUE
  BatchSize = 3
  MaxRetries = 1
  MaxNow = 1
  StaleReads = TRUE
  S3Fails = TRUE
  DdbFails = TRUE
  Crashes = FALSE
SPECIFICATION Spec
CHECK_DEADLOCK FALSE
INVARIANTS TypeOK CountedOnce InEventOrder Accounted ServedInOrder
PROPERTIES ImplementsSpeedLayer
