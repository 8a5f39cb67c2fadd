\* Records are refused one by one, calls are throttled, replies are lost.
CONSTANTS
  u1 = u1  u2 = u2
  NumEvents = 5
  UserOf <- MCUserOf
  Oversized = {4}
  MaxBatch = 3
  MaxRetries = 2
  PartialFailures = TRUE
  MaxLostReplies = 1
SPECIFICATION FairSpec
CHECK_DEADLOCK FALSE
INVARIANTS TypeOK CountsAreRight SentAreInStream ResentOnlyIfReplyLost ChunksInOrder
PROPERTIES Terminates ImplementsPublication
