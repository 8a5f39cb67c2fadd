SPECIFICATION Spec
CONSTANTS
  Runs = {r1}
  Kinds = {"full"}
  Provided <- AsSubmitted
  MaxDeploys = 1
  Faults = FALSE
  None = None
INVARIANT FailsOnlyByFault
CHECK_DEADLOCK FALSE
