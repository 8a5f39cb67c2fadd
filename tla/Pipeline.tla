------------------------------ MODULE Pipeline ------------------------------
(***************************************************************************)
(* The scripts and workflows around the batch layer, for one date:         *)
(* run_full_pipeline.sh, nightly_spark.yml and the single make targets,    *)
(* each a list of steps of which the first that fails ends the run         *)
(* (set -e).  Runs are started at any time, side by side, by people and by *)
(* the schedule.  A Spark job that was submitted goes on without its run,  *)
(* and a teardown takes everything away under all of them.                 *)
(*                                                                         *)
(* Data is modelled by where it comes from: a snapshot by the scans in it, *)
(* the files in the jobs' output by the jobs that wrote them, an audit by  *)
(* what it reads.  What is in them: BatchReconciler.                       *)
(***************************************************************************)
EXTENDS Naturals, Sequences, FiniteSets

CONSTANTS
  Runs,        \* the runs of scripts and workflows
  Kinds,       \* what is run
  Provided,    \* what jobs and queries are given of what they need besides --date
  MaxDeploys,  \* bound on the deployments of the infrastructure
  Faults,      \* may calls and jobs fail, runs be interrupted, teardowns happen?
  None         \* stands for data that is not there

Jobs == {"stitch", "audit"}

ASSUME PipelineAssumption ==
  /\ Kinds \subseteq {"nightly", "full", "snapshot", "spark_run", "spark_run_late", "dashboard"}
  /\ MaxDeploys \in Nat \ {0}
  /\ Faults \in BOOLEAN
  /\ None \notin Runs \cup {"executing", "SUCCEEDED"}

(* What the two jobs import, require on the command line and write to: no  *)
(* bucket has the name that submit_spark_job.sh derives from the raw one's.*)
Needs ==
  [stitch |-> {"spark_utils", "raw-path", "output-path", "corrected-bucket"},
   audit |-> {"spark_utils", "batch-path", "realtime-path", "output-path", "corrected-bucket"}]

(* What the dashboard's third query reads of restatement_audit.            *)
AuditColumns == {"revenue_discrepancy", "event_count_discrepancy"}

(* The steps of the scripts: what each calls, and on what.                 *)
Script ==
  [nightly |->
     <<<<"check", "outputs">>, <<"export", "truncate">>, <<"export", "scan">>,
       <<"export", "upload">>, <<"export", "remove">>, <<"submit", "stitch">>,
       <<"poll", "stitch">>, <<"submit", "audit">>, <<"poll", "audit">>,
       <<"check", "listing">>>>,
   full |->
     <<<<"check", "deployed">>, <<"simulate", "events">>, <<"export", "truncate">>,
       <<"export", "scan">>, <<"export", "upload">>, <<"export", "remove">>,
       <<"submit", "stitch">>, <<"poll", "stitch">>, <<"submit", "audit">>,
       <<"poll", "audit">>, <<"query", "speed">>, <<"query", "batch">>,
       <<"query", "audit">>>>,
   snapshot |->
     <<<<"export", "truncate">>, <<"export", "scan">>, <<"export", "upload">>,
       <<"export", "remove">>>>,
   spark_run |-> <<<<"submit", "stitch">>, <<"poll", "stitch">>>>,
   spark_run_late |-> <<<<"submit", "audit">>, <<"poll", "audit">>>>,
   dashboard |-> <<<<"query", "speed">>, <<"query", "batch">>, <<"query", "audit">>>>]

(* The workflow has a machine of its own, people share one.                *)
Hosts == {"runner", "laptop"}

Has(k, verb) == \E i \in DOMAIN Script[k] : Script[k][i][1] = verb

VARIABLES
  kind,        \* per run: the script, target or workflow it is a run of
  outcome,     \* per run: waiting, running, green, or red: it failed or was stopped
  todo,        \* per run: the steps left, the present one first
  knows,       \* per run: the id of the EMR application it was given, or 0
  query,       \* per run: the Athena query under way
  deployment,  \* the id of the deployed EMR application, 0 if torn down
  deployed,    \* how many deployments there have been
  tmp,         \* per host: the scans in its /tmp/dynamodb_snapshot file
  snapshot,    \* the exported snapshot: whose upload, of which scans
  output,      \* the files <<run, job>> in the one output path of both jobs
  job,         \* per run: the states of its jobs
  input,       \* per run: the files and the snapshot its audit job has listed
  exports,     \* history: the runs that uploaded a snapshot, in order
  commits,     \* history: the runs whose stitcher committed, in order
  alone        \* history, per run: a full run with nothing else going on

runVars == <<kind, outcome, todo, knows, query, alone>>
infraVars == <<deployment, deployed>>
dataVars == <<tmp, snapshot, output, exports, commits>>
jobVars == <<job, input>>
vars == <<runVars, infraVars, dataVars, jobVars>>

Active == {"submitted", "running", "overwriting"}
Ended == {"SUCCESS", "FAILED", "CANCELLED"}

Host(r) == IF kind[r] = "nightly" THEN "runner" ELSE "laptop"
Running(r) == outcome[r] = "running"
At(r, verb) == Running(r) /\ Head(todo[r])[1] = verb
Object(r) == Head(todo[r])[2]
JobRuns(r, j) == job[r][j] \in Active

Init ==
  /\ outcome = [r \in Runs |-> "waiting"]
  /\ kind = [r \in Runs |-> None]
  /\ todo = [r \in Runs |-> <<>>]
  /\ knows = [r \in Runs |-> 0]
  /\ query = [r \in Runs |-> None]
  /\ deployment = 1 /\ deployed = 1
  /\ tmp = [h \in Hosts |-> None]
  /\ snapshot = None /\ output = {}
  /\ job = [r \in Runs |-> [j \in Jobs |-> "none"]]
  /\ input = [r \in Runs |-> None]
  /\ exports = <<>> /\ commits = <<>>
  /\ alone = [r \in Runs |-> FALSE]

----------------------------------------------------------------------------
(* The runs                                                                *)

(* Mutant of Advance: a run that has done everything is not over.          *)
AdvanceOnly(r) ==
  /\ todo' = [todo EXCEPT ![r] = Tail(@)]
  /\ UNCHANGED outcome

(* The step is done; after the last the run has succeeded.                 *)
Advance(r) ==
  /\ todo' = [todo EXCEPT ![r] = Tail(@)]
  /\ outcome' = [outcome EXCEPT ![r] = IF Len(todo[r]) = 1 THEN "green" ELSE @]

(* A script finds the application id in its environment, which somebody    *)
(* filled in after one deployment or another.                              *)
Start(r, k) ==
  /\ outcome[r] = "waiting"
  /\ outcome' = [outcome EXCEPT ![r] = "running"]
  /\ kind' = [kind EXCEPT ![r] = k]
  /\ todo' = [todo EXCEPT ![r] = Script[k]]
  /\ IF Has(k, "submit") /\ k # "nightly"
     THEN \E id \in 1 .. deployed : knows' = [knows EXCEPT ![r] = id]
     ELSE UNCHANGED knows
  /\ alone' = [q \in Runs |->
                 IF q = r THEN k = "full" /\ \A p \in Runs : ~Running(p) /\ \A j \in Jobs : ~JobRuns(p, j)
                 ELSE alone[q] /\ ~Running(q)]
  /\ UNCHANGED <<query, infraVars, dataVars, jobVars>>

(* Mutant of JobFailed: FAILED leaves the loop as SUCCESS does.            *)
JobCancelled(r) == At(r, "poll") /\ job[r][Object(r)] = "CANCELLED"

JobFailed(r) == At(r, "poll") /\ job[r][Object(r)] \in {"FAILED", "CANCELLED"}

(* The present step has no way to succeed: the infrastructure is gone, the *)
(* outputs were empty (their own step does not mind: a substitution within *)
(* an echo), the id is that of another application, the file was removed,  *)
(* the job has failed, a query names columns its table does not have,      *)
(* there is no output.                                                     *)
Cannot(r) ==
  \/ /\ \E verb \in {"check", "simulate", "query"} : At(r, verb) /\ Object(r) # "outputs"
     /\ deployment = 0
  \/ At(r, "export") /\ kind[r] = "nightly" /\ knows[r] = 0
  \/ At(r, "export") /\ Object(r) \in {"scan", "upload"} /\ deployment = 0
  \/ At(r, "export") /\ Object(r) = "upload" /\ tmp[Host(r)] = None
  \/ (At(r, "submit") \/ At(r, "poll")) /\ knows[r] # deployment
  \/ JobFailed(r)
  \/ At(r, "query") /\ Object(r) = "audit" /\ ~(AuditColumns \subseteq Provided)
  \/ At(r, "check") /\ Object(r) = "listing" /\ output = {}

(* The run ends; its files and its jobs stay.                              *)
Stop(r) ==
  /\ outcome' = [outcome EXCEPT ![r] = "red"]
  /\ todo' = [todo EXCEPT ![r] = <<>>]
  /\ query' = [query EXCEPT ![r] = None]
  /\ knows' = [knows EXCEPT ![r] = 0]
  /\ UNCHANGED <<kind, alone, infraVars, dataVars, jobVars>>

StepFails(r) == Running(r) /\ Cannot(r) /\ Stop(r)

(* A call fails, Ctrl+C, a workflow that is cancelled.                     *)
Interrupt(r) == Running(r) /\ Faults /\ Stop(r)

(* terraform output; the stream, function and table are there; the listing *)
(* of the sessions has a line.                                             *)
Check(r) ==
  /\ At(r, "check") /\ ~Cannot(r)
  /\ knows' = IF Object(r) = "outputs" THEN [knows EXCEPT ![r] = deployment] ELSE knows
  /\ Advance(r)
  /\ UNCHANGED <<kind, query, alone, infraVars, dataVars, jobVars>>

Simulate(r) ==
  /\ At(r, "simulate") /\ ~Cannot(r)
  /\ Advance(r)
  /\ UNCHANGED <<kind, knows, query, alone, infraVars, dataVars, jobVars>>

(* Mutant of Truncate: the file is appended to as it is.                   *)
TruncateNot(r) ==
  /\ At(r, "export") /\ Object(r) = "truncate"
  /\ tmp' = [tmp EXCEPT ![Host(r)] = IF @ = None THEN <<>> ELSE @]
  /\ Advance(r)
  /\ UNCHANGED <<snapshot, output, exports, commits>>
  /\ UNCHANGED <<kind, knows, query, alone, infraVars, jobVars>>

Truncate(r) ==
  /\ At(r, "export") /\ Object(r) = "truncate"
  /\ tmp' = [tmp EXCEPT ![Host(r)] = <<>>]
  /\ Advance(r)
  /\ UNCHANGED <<snapshot, output, exports, commits>>
  /\ UNCHANGED <<kind, knows, query, alone, infraVars, jobVars>>

(* The pages of the scan are appended, to a new file if another run has    *)
(* removed this one meanwhile.                                             *)
Scan(r) ==
  /\ At(r, "export") /\ Object(r) = "scan" /\ ~Cannot(r)
  /\ tmp' = [tmp EXCEPT ![Host(r)] = IF @ = None THEN <<r>> ELSE Append(@, r)]
  /\ Advance(r)
  /\ UNCHANGED <<snapshot, output, exports, commits>>
  /\ UNCHANGED <<kind, knows, query, alone, infraVars, jobVars>>

Upload(r) ==
  /\ At(r, "export") /\ Object(r) = "upload" /\ ~Cannot(r)
  /\ snapshot' = [by |-> r, scans |-> tmp[Host(r)]]
  /\ exports' = Append(exports, r)
  /\ Advance(r)
  /\ UNCHANGED <<tmp, output, commits>>
  /\ UNCHANGED <<kind, knows, query, alone, infraVars, jobVars>>

Remove(r) ==
  /\ At(r, "export") /\ Object(r) = "remove"
  /\ tmp' = [tmp EXCEPT ![Host(r)] = None]
  /\ Advance(r)
  /\ UNCHANGED <<snapshot, output, exports, commits>>
  /\ UNCHANGED <<kind, knows, query, alone, infraVars, jobVars>>

StartJobRun(r) ==
  /\ At(r, "submit") /\ ~Cannot(r)
  /\ job' = [job EXCEPT ![r][Object(r)] = "submitted"]
  /\ Advance(r)
  /\ UNCHANGED <<input, kind, knows, query, alone, infraVars, dataVars>>

(* Mutant of Poll: only FAILED and CANCELLED keep the script from going on.*)
PollOnce(r) ==
  /\ At(r, "poll") /\ ~Cannot(r)
  /\ Advance(r)
  /\ UNCHANGED <<kind, knows, query, alone, infraVars, dataVars, jobVars>>

(* SUCCESS leaves the loop; FAILED, CANCELLED and CANCELLING are failures; *)
(* with any other state the script sleeps and asks again, without limit.   *)
Poll(r) ==
  /\ At(r, "poll") /\ ~Cannot(r)
  /\ job[r][Object(r)] \notin Active
  /\ Advance(r)
  /\ UNCHANGED <<kind, knows, query, alone, infraVars, dataVars, jobVars>>

Query(r) ==
  /\ At(r, "query") /\ ~Cannot(r) /\ query[r] = None
  /\ query' = [query EXCEPT ![r] = "executing"]
  /\ UNCHANGED <<kind, outcome, todo, knows, alone, infraVars, dataVars, jobVars>>

(* Athena answers.  The tables of the corrected sessions and of the audit  *)
(* are over another bucket than the jobs write to: they show none of it.   *)
Answer(r) ==
  /\ At(r, "query") /\ ~Cannot(r) /\ query[r] = "executing"
  /\ query' = [query EXCEPT ![r] = "SUCCEEDED"]
  /\ UNCHANGED <<kind, outcome, todo, knows, alone, infraVars, dataVars, jobVars>>

Fetch(r) ==
  /\ At(r, "query") /\ ~Cannot(r) /\ query[r] = "SUCCEEDED"
  /\ query' = [query EXCEPT ![r] = None]
  /\ Advance(r)
  /\ UNCHANGED <<kind, knows, alone, infraVars, dataVars, jobVars>>

(* Mutant of TimesOut: the loop has no limit.                              *)
NeverTimesOut(r) == FALSE /\ Stop(r)

(* TimeoutError; the query is not cancelled.                               *)
TimesOut(r) == At(r, "query") /\ query[r] = "executing" /\ Stop(r)

----------------------------------------------------------------------------
(* The jobs                                                                *)

(* A job gets past its imports and its arguments only if it was given them.*)
Begin(r, j) ==
  /\ job[r][j] = "submitted"
  /\ Needs[j] \subseteq Provided
  /\ j = "audit" => output # {} /\ snapshot # None
  /\ job' = [job EXCEPT ![r][j] = "running"]
  /\ input' = IF j = "audit" THEN [input EXCEPT ![r] = [batch |-> output, speed |-> snapshot]]
              ELSE input
  /\ UNCHANGED <<runVars, infraVars, dataVars>>

(* mode("overwrite") removes what is there, then writes: to the one path   *)
(* that submit_spark_job.sh:28, 56 passes, whichever job it is.            *)
Overwrite(r, j) ==
  /\ job[r][j] = "running"
  /\ job' = [job EXCEPT ![r][j] = "overwriting"]
  /\ output' = {}
  /\ UNCHANGED <<tmp, snapshot, exports, commits, input, runVars, infraVars>>

(* The rows are computed as they are written: the audit still needs the    *)
(* files of its listing, and its overwrite has just removed them.          *)
Computable(r, j) == j = "audit" => input[r].batch \subseteq output

(* The new files join those another job has committed since.               *)
Commit(r, j) ==
  /\ job[r][j] = "overwriting" /\ Computable(r, j)
  /\ output' = output \cup {<<r, j>>}
  /\ commits' = IF j = "stitch" THEN Append(commits, r) ELSE commits
  /\ job' = [job EXCEPT ![r][j] = "SUCCESS"]
  /\ UNCHANGED <<tmp, snapshot, exports, input, runVars, infraVars>>

JobCannot(r, j) ==
  \/ job[r][j] = "submitted" /\ ~(Needs[j] \subseteq Provided)
  \/ job[r][j] = "submitted" /\ j = "audit" /\ (output = {} \/ snapshot = None)
  \/ job[r][j] = "overwriting" /\ ~Computable(r, j)

JobFails(r, j) ==
  /\ JobRuns(r, j)
  /\ Faults \/ JobCannot(r, j)
  /\ job' = [job EXCEPT ![r][j] = "FAILED"]
  /\ input' = [input EXCEPT ![r] = None]
  /\ UNCHANGED <<runVars, infraVars, dataVars>>

----------------------------------------------------------------------------
(* The infrastructure                                                      *)

(* teardown_dev.sh, nightly_teardown.yml: the buckets with their objects,  *)
(* the table and the application go; the jobs are cancelled.               *)
Teardown ==
  /\ Faults
  /\ deployment # 0
  /\ deployment' = 0
  /\ snapshot' = None /\ output' = {}
  /\ job' = [r \in Runs |-> [j \in Jobs |-> IF JobRuns(r, j) THEN "CANCELLED" ELSE job[r][j]]]
  /\ input' = [r \in Runs |-> None]
  /\ alone' = [r \in Runs |-> alone[r] /\ ~Running(r)]
  /\ UNCHANGED <<deployed, tmp, exports, commits, kind, outcome, todo, knows, query>>

(* terraform apply: another application id, the other names as before.     *)
Deploy ==
  /\ deployment = 0
  /\ deployed < MaxDeploys
  /\ deployment' = deployed + 1 /\ deployed' = deployed + 1
  /\ UNCHANGED <<runVars, dataVars, jobVars>>

RunStep(r) ==
  \/ StepFails(r) \/ Check(r) \/ Simulate(r)
  \/ Truncate(r) \/ Scan(r) \/ Upload(r) \/ Remove(r)
  \/ StartJobRun(r) \/ Poll(r)
  \/ Query(r) \/ Fetch(r) \/ TimesOut(r)

JobStep(r, j) == Begin(r, j) \/ Overwrite(r, j) \/ Commit(r, j) \/ JobFails(r, j)

Next ==
  \/ \E r \in Runs, k \in Kinds : Start(r, k)
  \/ \E r \in Runs : RunStep(r) \/ Interrupt(r) \/ Answer(r)
  \/ \E r \in Runs, j \in Jobs : JobStep(r, j)
  \/ Teardown \/ Deploy

Spec == Init /\ [][Next]_vars

(* A script takes its steps and EMR Serverless runs or fails its jobs.     *)
(* Nothing is assumed of Athena, of people or of the schedule.             *)
Fairness ==
  /\ \A r \in Runs : WF_vars(RunStep(r))
  /\ \A r \in Runs, j \in Jobs : WF_vars(JobStep(r, j))

FairSpec == Spec /\ Fairness

----------------------------------------------------------------------------
(* Properties                                                              *)

Snapshot == [by : Runs, scans : Seq(Runs)]
Files == Runs \X Jobs

(* Every variable has its type, and a run is over when its steps are.      *)
TypeOK ==
  /\ outcome \in [Runs -> {"waiting", "running", "green", "red"}]
  /\ kind \in [Runs -> Kinds \cup {None}]
  /\ \A r \in Runs : todo[r] # <<>> <=> Running(r)
  /\ knows \in [Runs -> 0 .. MaxDeploys]
  /\ query \in [Runs -> {None, "executing", "SUCCEEDED"}]
  /\ deployment \in {0, deployed} /\ deployed \in 1 .. MaxDeploys
  /\ \A h \in Hosts : tmp[h] = None \/ tmp[h] \in Seq(Runs)
  /\ snapshot = None \/ snapshot \in Snapshot
  /\ output \subseteq Files
  /\ job \in [Runs -> [Jobs -> {"none"} \cup Active \cup Ended]]
  /\ \A r \in Runs : input[r] = None \/ input[r] \in [batch : SUBSET Files, speed : Snapshot]
  /\ alone \in [Runs -> BOOLEAN]

(* The kinds of runs that export, stitch and audit.                        *)
RunsAll(r) == kind[r] \in {"nightly", "full"}

(* A run reports success only if every job it submitted did, and its audit *)
(* is not submitted before its stitcher has succeeded, whatever other runs *)
(* and teardowns do meanwhile.                                             *)
StagesInOrder ==
  \A r \in Runs :
    /\ outcome[r] = "green" =>
         \A j \in Jobs : job[r][j] \in {"none", "SUCCESS"}
    /\ RunsAll(r) /\ job[r]["audit"] # "none" => job[r]["stitch"] = "SUCCESS"

(* A run that has the date to itself audits its own data: its audit job    *)
(* reads the scan the run made and no other, even after exports that were  *)
(* interrupted, and the sessions its own job wrote and no others.          *)
AloneCoherent ==
  \A r \in Runs : Running(r) /\ alone[r] /\ input[r] # None =>
    input[r] = [batch |-> {<<r, "stitch">>}, speed |-> [by |-> r, scans |-> <<r>>]]

NotBefore(log, r, q) ==
  \E i, k \in DOMAIN log : i <= k /\ log[i] = r /\ log[k] = q

(* Other runs may replace a run's snapshot and sessions, or remove them,   *)
(* before its audit job reads them, but only with newer ones: an audit     *)
(* finds a snapshot, and files of a stitcher (of several that overwrote    *)
(* the same path, maybe), that are not older than its own run's.           *)
AuditsAreFresh ==
  \A r \in Runs : RunsAll(r) /\ input[r] # None =>
    /\ NotBefore(exports, r, input[r].speed.by)
    /\ \E f \in input[r].batch : NotBefore(commits, r, f[1])

(* Every run ends: the poll loop of submit_spark_job.sh has no limit of    *)
(* its own, the queries of the dashboard have one.                         *)
RunsEnd == \A r \in Runs : Running(r) ~> ~Running(r)

(* run_full_pipeline.sh: it runs all stages and produces the dashboard; so *)
(* without any fault, and alone, it does not fail.  It does: its jobs are  *)
(* not given what they need, and if they were, the audit would remove what *)
(* it reads.                                                               *)
FailsOnlyByFault ==
  \A r \in Runs : alone[r] => outcome[r] # "red"

(* A snapshot is one scan of the table, wherever the exports run.          *)
SnapshotOfOneScan == snapshot # None => Len(snapshot.scans) = 1
============================================================================
