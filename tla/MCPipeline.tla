----------------------------- MODULE MCPipeline -----------------------------
(* What submit_spark_job.sh passes, and what the jobs and the dashboard's   *)
(* queries would need besides.                                              *)
EXTENDS Pipeline

AsSubmitted == {"raw-path", "output-path"}
AsNeeded ==
  AsSubmitted \cup {"spark_utils", "batch-path", "realtime-path", "corrected-bucket"}
              \cup AuditColumns
============================================================================
