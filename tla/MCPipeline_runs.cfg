SPECIFICATION FairSpec
CONSTANTS
  Runs = {r1, r2}
  Kinds = {"nightly", "full", "snapshot", "spark_run", "spark_run_late", "dashboard"}
  Provided <- AsNeeded
  MaxDeploys = 2
  Faults = TRUE
  None = None
INVARIANTS TypeOK StagesInOrder AloneCoherent AuditsAreFresh
PROPERTY RunsEnd
CHECK_DEADLOCK FALSE
