--------------------------- MODULE PipelineProofs ---------------------------
(***************************************************************************)
(* The stages of a run follow each other, its audit reads data that is not *)
(* older than its own and, if the run is alone, just its own, and then     *)
(* removes it, so that no run with an audit succeeds: whatever other runs, *)
(* jobs without a run and teardowns do, for any number of runs and         *)
(* deployments.                                                            *)
(***************************************************************************)
EXTENDS Pipeline, TLAPS

Verbs == {"check", "simulate", "export", "submit", "poll", "query"}
Objects == {"outputs", "listing", "deployed", "events", "truncate", "scan", "upload",
            "remove", "stitch", "audit", "speed", "batch"}
Step == Verbs \X Objects

----------------------------------------------------------------------------
(* The scripts                                                             *)

(* Each job is submitted once at most, and waited for at once.             *)
WaitsForJobs(S) ==
  /\ S \in Seq(Step) /\ S # << >>
  /\ \A m \in 1 .. Len(S) : S[m][1] \in {"submit", "poll"} => S[m][2] \in Jobs
  /\ \A m, n \in 1 .. Len(S), j \in Jobs :
       S[m] = <<"submit", j>> /\ S[n] = <<"submit", j>> => m = n
  /\ \A m \in 1 .. Len(S), j \in Jobs :
       S[m] = <<"poll", j>> => m > 1 /\ S[m - 1] = <<"submit", j>>
  /\ \A m \in 1 .. Len(S), j \in Jobs :
       S[m] = <<"submit", j>> => m < Len(S) /\ S[m + 1] = <<"poll", j>>
  /\ \A m, n \in 1 .. Len(S) :
       S[m] = <<"submit", "audit">> /\ S[n] = <<"submit", "stitch">> => n + 1 < m

(* Snapshot, sessions, audit.                                              *)
Staged(S) ==
  \A m \in 1 .. Len(S) : S[m] = <<"submit", "audit">> =>
    /\ \E n \in 1 .. (m - 1) : S[n] = <<"poll", "stitch">>
    /\ \E n \in 1 .. (m - 1) : S[n] = <<"export", "upload">>

LEMMA ScriptsWait == \A k \in Kinds : WaitsForJobs(Script[k])
<1>1. WaitsForJobs(Script["nightly"])
  BY DEF Script, WaitsForJobs, Jobs, Step, Verbs, Objects
<1>2. WaitsForJobs(Script["full"])
  BY DEF Script, WaitsForJobs, Jobs, Step, Verbs, Objects
<1>3. WaitsForJobs(Script["snapshot"])
  BY DEF Script, WaitsForJobs, Jobs, Step, Verbs, Objects
<1>4. WaitsForJobs(Script["spark_run"])
  BY DEF Script, WaitsForJobs, Jobs, Step, Verbs, Objects
<1>5. WaitsForJobs(Script["spark_run_late"])
  BY DEF Script, WaitsForJobs, Jobs, Step, Verbs, Objects
<1>6. WaitsForJobs(Script["dashboard"])
  BY DEF Script, WaitsForJobs, Jobs, Step, Verbs, Objects
<1> QED
  BY <1>1, <1>2, <1>3, <1>4, <1>5, <1>6, PipelineAssumption

LEMMA RunsStaged == Staged(Script["nightly"]) /\ Staged(Script["full"])
  BY DEF Script, Staged

----------------------------------------------------------------------------
(* Where a run is                                                          *)

Under(r) == outcome[r] \in {"running", "green"}
Steps(r) == Script[kind[r]]
Done(r) == Len(Steps(r)) - Len(todo[r])
Past(r, step) == \E m \in 1 .. Done(r) : Steps(r)[m] = step

PlaceInv(r) ==
  /\ todo[r] # << >> <=> Running(r)
  /\ todo[r] \in Seq(Step)
  /\ Under(r) =>
       /\ kind[r] \in Kinds
       /\ Done(r) \in 0 .. Len(Steps(r))
       /\ \A m \in 1 .. Len(todo[r]) : todo[r][m] = Steps(r)[Done(r) + m]

RunTypes ==
  /\ outcome \in [Runs -> {"waiting", "running", "green", "red"}]
  /\ kind \in [Runs -> Kinds \cup {None}]
  /\ todo = [r \in Runs |-> todo[r]]
  /\ \A r \in Runs : PlaceInv(r)

(* The present step is the one behind those that are done.                 *)
LEMMA PresentStep ==
  ASSUME RunTypes, NEW r \in Runs, Running(r)
  PROVE  /\ kind[r] \in Kinds /\ WaitsForJobs(Steps(r))
         /\ Done(r) \in Nat /\ Done(r) + 1 \in 1 .. Len(Steps(r))
         /\ Head(todo[r]) = Steps(r)[Done(r) + 1]
         /\ Head(todo[r]) \in Step
<1>1. PlaceInv(r) /\ Under(r)
  BY DEF RunTypes, Under, Running
<1>2. kind[r] \in Kinds /\ WaitsForJobs(Steps(r))
  BY <1>1, ScriptsWait DEF PlaceInv, Steps
<1>3. todo[r] \in Seq(Step) /\ todo[r] # << >> /\ Steps(r) \in Seq(Step)
  BY <1>1, <1>2 DEF PlaceInv, WaitsForJobs
<1>4. Len(todo[r]) \in Nat /\ Len(todo[r]) > 0 /\ Len(Steps(r)) \in Nat
      /\ Head(todo[r]) = todo[r][1] /\ Head(todo[r]) \in Step
  BY <1>3
<1>5. Done(r) \in 0 .. Len(Steps(r)) /\ todo[r][1] = Steps(r)[Done(r) + 1]
  BY <1>1, <1>4 DEF PlaceInv
<1>6. Done(r) = Len(Steps(r)) - Len(todo[r])
  BY DEF Done
<1>7. Done(r) \in Nat /\ Done(r) + 1 \in 1 .. Len(Steps(r))
  BY <1>4, <1>5, <1>6
<1> QED
  BY <1>2, <1>4, <1>5, <1>7

LEMMA TailOf ==
  ASSUME NEW S, NEW s \in Seq(S), s # << >>
  PROVE  /\ Len(s) \in Nat /\ Len(s) > 0
         /\ Tail(s) \in Seq(S) /\ Len(Tail(s)) = Len(s) - 1
         /\ \A m \in 1 .. (Len(s) - 1) : Tail(s)[m] = s[m + 1]
         /\ Tail(s) # << >> <=> Len(s) # 1
<1>1. /\ Len(s) \in Nat /\ Len(s) > 0
      /\ Tail(s) \in Seq(S) /\ Len(Tail(s)) = Len(s) - 1
      /\ \A m \in 1 .. (Len(s) - 1) : Tail(s)[m] = s[m + 1]
  OBVIOUS
<1>2. \A t \in Seq(S) : t = << >> <=> Len(t) = 0
  OBVIOUS
<1> QED
  BY <1>1, <1>2

(* A step that is done is one more behind the run.                         *)
LEMMA AdvancePlace ==
  ASSUME RunTypes, NEW r \in Runs, Running(r), Advance(r), kind' = kind
  PROVE  /\ RunTypes'
         /\ Under(r)'
         /\ \A step : Past(r, step)' <=> Past(r, step) \/ step = Head(todo[r])
         /\ \A q \in Runs : q # r => outcome'[q] = outcome[q] /\ todo'[q] = todo[q]
<1>1. PlaceInv(r) /\ Under(r)
  BY DEF RunTypes, Under, Running
<1>2. /\ todo' = [q \in Runs |-> IF q = r THEN Tail(todo[r]) ELSE todo[q]]
      /\ outcome' = [q \in Runs |-> IF q = r THEN IF Len(todo[r]) = 1 THEN "green" ELSE "running"
                                    ELSE outcome[q]]
  BY DEF Advance, RunTypes, Running
<1>3. todo[r] \in Seq(Step) /\ todo[r] # << >>
  BY <1>1 DEF PlaceInv
<1>4. /\ Len(todo[r]) \in Nat /\ Len(todo[r]) > 0
      /\ Tail(todo[r]) \in Seq(Step) /\ Len(Tail(todo[r])) = Len(todo[r]) - 1
      /\ \A m \in 1 .. Len(Tail(todo[r])) : Tail(todo[r])[m] = todo[r][m + 1]
      /\ Tail(todo[r]) # << >> <=> Len(todo[r]) # 1
  BY <1>3, TailOf
<1>5. Steps(r)' = Steps(r) /\ Len(Steps(r)) \in Nat
  BY PresentStep DEF Steps, WaitsForJobs
<1>6. /\ Done(r) \in Nat /\ Done(r) + 1 \in 1 .. Len(Steps(r))
      /\ Head(todo[r]) = Steps(r)[Done(r) + 1]
  BY PresentStep
<1>7. Done(r)' = Done(r) + 1
  <2>1. Len(todo'[r]) = Len(todo[r]) - 1 /\ Steps(r)' = Steps(r)
    BY <1>2, <1>4, <1>5
  <2>2. Done(r)' = Len(Steps(r)) - (Len(todo[r]) - 1)
    BY <2>1 DEF Done
  <2>3. Done(r) = Len(Steps(r)) - Len(todo[r])
    BY DEF Done
  <2> QED
    BY <1>4, <1>5, <2>2, <2>3
<1>8. \A step : Past(r, step)' <=> Past(r, step) \/ step = Head(todo[r])
  <2>1. \A m : m \in 1 .. (Done(r) + 1) <=> m \in 1 .. Done(r) \/ m = Done(r) + 1
    BY <1>6
  <2> QED
    BY <1>5, <1>6, <1>7, <2>1 DEF Past
<1>9. PlaceInv(r)'
  <2>1. Running(r)' <=> Len(todo[r]) # 1
    BY <1>2 DEF Running
  <2>2. ASSUME NEW m \in 1 .. Len(Tail(todo[r]))
        PROVE  Tail(todo[r])[m] = Steps(r)[Done(r) + 1 + m]
    <3>1. m + 1 \in 1 .. Len(todo[r]) /\ Done(r) + 1 + m = Done(r) + (m + 1)
      <4>1. m \in Nat /\ m >= 1 /\ m <= Len(todo[r]) - 1
        BY <1>4
      <4> QED
        BY <1>4, <1>6, <4>1
    <3> QED
      BY <1>1, <1>4, <3>1 DEF PlaceInv
  <2>3. Done(r)' \in 0 .. Len(Steps(r)')
    BY <1>5, <1>6, <1>7
  <2> QED
    BY <1>1, <1>2, <1>4, <1>5, <1>7, <2>1, <2>2, <2>3 DEF PlaceInv
<1>10. ASSUME NEW q \in Runs, q # r
       PROVE  PlaceInv(q)' /\ outcome'[q] = outcome[q] /\ todo'[q] = todo[q]
  BY <1>2, <1>10 DEF RunTypes, PlaceInv, Running, Under, Done, Steps
<1>11. /\ outcome' \in [Runs -> {"waiting", "running", "green", "red"}]
       /\ todo' = [q \in Runs |-> todo'[q]]
  BY <1>2 DEF RunTypes
<1>12. Under(r)'
  BY <1>2 DEF Under
<1> QED
  BY <1>8, <1>9, <1>10, <1>11, <1>12 DEF RunTypes

LEMMA StopPlace ==
  ASSUME RunTypes, NEW r \in Runs, Running(r), Stop(r)
  PROVE  /\ RunTypes'
         /\ outcome'[r] = "red"
         /\ \A q \in Runs : q # r => outcome'[q] = outcome[q] /\ todo'[q] = todo[q]
<1>1. /\ todo' = [q \in Runs |-> IF q = r THEN << >> ELSE todo[q]]
      /\ outcome' = [q \in Runs |-> IF q = r THEN "red" ELSE outcome[q]]
      /\ kind' = kind
  BY DEF Stop, RunTypes
<1>2. \A q \in Runs : PlaceInv(q)'
  BY <1>1 DEF RunTypes, PlaceInv, Running, Under, Done, Steps
<1> QED
  BY <1>1, <1>2 DEF RunTypes

LEMMA StartPlace ==
  ASSUME RunTypes, NEW r \in Runs, NEW k \in Kinds, Start(r, k)
  PROVE  /\ RunTypes'
         /\ outcome'[r] = "running" /\ Done(r)' = 0
         /\ \A q \in Runs : q # r =>
              outcome'[q] = outcome[q] /\ todo'[q] = todo[q] /\ kind'[q] = kind[q]
<1>1. /\ todo' = [q \in Runs |-> IF q = r THEN Script[k] ELSE todo[q]]
      /\ outcome' = [q \in Runs |-> IF q = r THEN "running" ELSE outcome[q]]
      /\ kind' = [q \in Runs |-> IF q = r THEN k ELSE kind[q]]
  BY DEF Start, RunTypes
<1>2. Script[k] \in Seq(Step) /\ Script[k] # << >> /\ Len(Script[k]) \in Nat
  BY ScriptsWait DEF WaitsForJobs
<1>3. Steps(r)' = Script[k] /\ Done(r)' = 0
  BY <1>1, <1>2 DEF Steps, Done
<1>4. PlaceInv(r)'
  BY <1>1, <1>2, <1>3 DEF PlaceInv, Running, Under
<1>5. \A q \in Runs : q # r => PlaceInv(q)'
  BY <1>1 DEF RunTypes, PlaceInv, Running, Under, Done, Steps
<1> QED
  BY <1>1, <1>3, <1>4, <1>5 DEF RunTypes

----------------------------------------------------------------------------
(* What a run's jobs and its snapshot are by then                          *)

JobState == {"none"} \cup Active \cup Ended
IsIn(log, r) == \E i \in DOMAIN log : log[i] = r

FlowTypes ==
  /\ job \in [Runs -> [Jobs -> JobState]]
  /\ exports \in Seq(Runs) /\ commits \in Seq(Runs)

(* A job that a run has waited for has succeeded, one it has not submitted *)
(* is none, and the stitcher of a run comes before its audit: it is behind *)
(* it, or the run has none.  That stays so when the run has been stopped.  *)
FlowInv(r) ==
  /\ outcome[r] = "waiting" => \A j \in Jobs : job[r][j] = "none"
  /\ Under(r) =>
       /\ \A j \in Jobs :
            /\ Past(r, <<"submit", j>>) <=> job[r][j] # "none"
            /\ Past(r, <<"poll", j>>) => job[r][j] = "SUCCESS"
       /\ Past(r, <<"export", "upload">>) => IsIn(exports, r)
  /\ job[r]["audit"] # "none" =>
       /\ job[r]["stitch"] \in {"none", "SUCCESS"}
       /\ RunsAll(r) => job[r]["stitch"] = "SUCCESS" /\ IsIn(exports, r)
  /\ job[r]["stitch"] = "SUCCESS" => IsIn(commits, r)

Grown(log, new) == \A r \in Runs : IsIn(log, r) => IsIn(new, r)

LEMMA AppendGrows ==
  ASSUME NEW log \in Seq(Runs), NEW r \in Runs
  PROVE  /\ Append(log, r) \in Seq(Runs)
         /\ Len(Append(log, r)) = Len(log) + 1 /\ Append(log, r)[Len(log) + 1] = r
         /\ Append(log, r)[Len(Append(log, r))] = r
         /\ \A i \in DOMAIN log : i \in DOMAIN Append(log, r) /\ Append(log, r)[i] = log[i]
         /\ Grown(log, Append(log, r)) /\ IsIn(Append(log, r), r)
<1>1. /\ Append(log, r) \in Seq(Runs) /\ Len(log) \in Nat
      /\ DOMAIN log = 1 .. Len(log)
      /\ DOMAIN Append(log, r) = 1 .. (Len(log) + 1)
      /\ Len(Append(log, r)) = Len(log) + 1
  OBVIOUS
<1>2. /\ Append(log, r)[Len(log) + 1] = r
      /\ \A i \in 1 .. Len(log) : Append(log, r)[i] = log[i]
  OBVIOUS
<1> QED
  BY <1>1, <1>2 DEF Grown, IsIn

(* A run nothing has happened to.                                          *)
LEMMA FlowKept ==
  ASSUME NEW r \in Runs, FlowInv(r),
         outcome'[r] = outcome[r], todo'[r] = todo[r], kind'[r] = kind[r],
         job'[r] = job[r],
         Grown(exports, exports'), Grown(commits, commits')
  PROVE  FlowInv(r)'
<1>1. /\ Steps(r)' = Steps(r) /\ Done(r)' = Done(r)
      /\ Under(r)' <=> Under(r)
      /\ RunsAll(r)' <=> RunsAll(r)
  BY DEF Steps, Done, Under, RunsAll
<1>2. \A step : Past(r, step)' <=> Past(r, step)
  BY <1>1 DEF Past
<1>3. /\ IsIn(exports, r) => IsIn(exports', r)
      /\ IsIn(commits, r) => IsIn(commits', r)
  BY DEF Grown
<1> QED
  BY <1>1, <1>2, <1>3 DEF FlowInv, IsIn

(* A step other than a submission or the wait for a job.                   *)
LEMMA AdvanceFlow ==
  ASSUME RunTypes, NEW r \in Runs, FlowInv(r), Running(r), Advance(r), kind' = kind,
         Head(todo[r])[1] \notin {"submit", "poll"},
         Head(todo[r]) = <<"export", "upload">> => IsIn(exports', r),
         job'[r] = job[r],
         Grown(exports, exports'), Grown(commits, commits')
  PROVE  FlowInv(r)'
<1>1. /\ Under(r)' /\ Under(r) /\ outcome'[r] # "waiting"
      /\ \A step : Past(r, step)' <=> Past(r, step) \/ step = Head(todo[r])
  BY AdvancePlace DEF Under, Running
<1>2. \A j \in Jobs : Head(todo[r]) # <<"submit", j>> /\ Head(todo[r]) # <<"poll", j>>
  OBVIOUS
<1>3. RunsAll(r)' <=> RunsAll(r)
  BY DEF RunsAll
<1>4. /\ IsIn(exports, r) => IsIn(exports', r)
      /\ IsIn(commits, r) => IsIn(commits', r)
  BY DEF Grown
<1> QED
  BY <1>1, <1>2, <1>3, <1>4 DEF FlowInv, IsIn

(* A job is submitted once.                                                *)
LEMMA FirstSubmission ==
  ASSUME RunTypes, NEW r \in Runs, FlowInv(r), StartJobRun(r)
  PROVE  /\ Object(r) \in Jobs /\ Head(todo[r]) = <<"submit", Object(r)>>
         /\ job[r][Object(r)] = "none"
<1> DEFINE j == Object(r)
           i == Done(r) + 1
<1>1. Running(r) /\ Under(r) /\ Head(todo[r])[1] = "submit"
  BY DEF StartJobRun, At, Running, Under
<1>2. /\ WaitsForJobs(Steps(r)) /\ Done(r) \in Nat /\ i \in 1 .. Len(Steps(r))
      /\ Head(todo[r]) = Steps(r)[i] /\ Head(todo[r]) \in Step
  BY <1>1, PresentStep
<1>3. j \in Jobs /\ Steps(r)[i] = <<"submit", j>>
  <2>1. j \in Jobs
    BY <1>1, <1>2 DEF WaitsForJobs, Object
  <2> QED
    BY <1>1, <1>2, <2>1 DEF Object, Step
<1> HIDE DEF j
<1>4. Done(r) < i /\ \A m \in 1 .. Done(r) : m \in 1 .. Len(Steps(r)) /\ m < i
  <2>1. Len(Steps(r)) \in Nat
    BY <1>2 DEF WaitsForJobs
  <2> QED
    BY <1>2, <2>1
<1> HIDE DEF i
<1>5. ~Past(r, <<"submit", j>>)
  <2> SUFFICES ASSUME NEW m \in 1 .. Done(r), Steps(r)[m] = <<"submit", j>> PROVE FALSE
    BY DEF Past
  <2>1. m = i
    BY <1>2, <1>3, <1>4 DEF WaitsForJobs
  <2> QED
    BY <1>2, <1>4, <2>1
<1>6. job[r][j] = "none"
  BY <1>1, <1>3, <1>5 DEF FlowInv
<1> QED
  BY <1>2, <1>3, <1>6 DEF j

(* A submission: what the run's script puts before it has been done.       *)
LEMMA SubmitFlow ==
  ASSUME RunTypes, FlowTypes, NEW r \in Runs, FlowInv(r), StartJobRun(r)
  PROVE  FlowInv(r)'
<1> DEFINE j == Object(r)
           i == Done(r) + 1
<1>1. /\ Running(r) /\ Under(r) /\ Advance(r) /\ kind' = kind
      /\ exports' = exports /\ commits' = commits
      /\ job' = [job EXCEPT ![r][j] = "submitted"]
  BY DEF StartJobRun, At, Running, Under, dataVars
<1>2. /\ WaitsForJobs(Steps(r)) /\ Done(r) \in Nat /\ i \in 1 .. Len(Steps(r))
      /\ Head(todo[r]) = Steps(r)[i]
  BY <1>1, PresentStep
<1>3. j \in Jobs /\ Steps(r)[i] = <<"submit", j>>
  BY <1>2, FirstSubmission
<1>4. job[r][j] = "none"
  BY FirstSubmission
<1> HIDE DEF j
<1>5. Done(r) < i /\ \A m \in 1 .. Done(r) : m \in 1 .. Len(Steps(r)) /\ m < i
  <2>1. Len(Steps(r)) \in Nat
    BY <1>2 DEF WaitsForJobs
  <2> QED
    BY <1>2, <2>1
<1> HIDE DEF i
<1>6. j = "stitch" => job[r]["audit"] = "none"
  <2> SUFFICES ASSUME j = "stitch", job[r]["audit"] # "none" PROVE FALSE
    OBVIOUS
  <2>1. PICK m \in 1 .. Done(r) : Steps(r)[m] = <<"submit", "audit">>
    BY <1>1 DEF FlowInv, Past, Jobs
  <2>2. i + 1 < m
    BY <1>2, <1>3, <1>5, <2>1 DEF WaitsForJobs
  <2> QED
    BY <1>2, <1>5, <2>2
<1>7. j = "audit" => job[r]["stitch"] \in {"none", "SUCCESS"}
  <2> SUFFICES ASSUME j = "audit", job[r]["stitch"] # "none" PROVE job[r]["stitch"] = "SUCCESS"
    OBVIOUS
  <2>1. PICK m \in 1 .. Done(r) : Steps(r)[m] = <<"submit", "stitch">>
    BY <1>1 DEF FlowInv, Past, Jobs
  <2>2. m + 1 < i /\ Steps(r)[m + 1] = <<"poll", "stitch">>
    BY <1>2, <1>3, <1>5, <2>1 DEF WaitsForJobs, Jobs
  <2>3. m + 1 \in 1 .. Done(r)
    BY <1>2, <2>2 DEF i
  <2>4. Past(r, <<"poll", "stitch">>)
    BY <2>2, <2>3 DEF Past
  <2> QED
    BY <1>1, <2>4 DEF FlowInv, Jobs
<1>8. j = "audit" /\ RunsAll(r) => job[r]["stitch"] = "SUCCESS" /\ IsIn(exports, r)
  <2> SUFFICES ASSUME j = "audit", RunsAll(r)
               PROVE  job[r]["stitch"] = "SUCCESS" /\ IsIn(exports, r)
    OBVIOUS
  <2>1. Staged(Steps(r))
    BY RunsStaged DEF RunsAll, Steps
  <2>2. /\ \E n \in 1 .. (i - 1) : Steps(r)[n] = <<"poll", "stitch">>
        /\ \E n \in 1 .. (i - 1) : Steps(r)[n] = <<"export", "upload">>
    BY <1>2, <1>3, <2>1 DEF Staged
  <2>3. Past(r, <<"poll", "stitch">>) /\ Past(r, <<"export", "upload">>)
    BY <1>2, <2>2 DEF Past, i
  <2> QED
    BY <1>1, <2>3 DEF FlowInv, Jobs
<1>9. /\ Under(r)' /\ outcome'[r] # "waiting"
       /\ \A step : Past(r, step)' <=> Past(r, step) \/ step = <<"submit", j>>
  <2>1. Head(todo[r]) = <<"submit", j>>
    BY <1>2, <1>3
  <2>2. Under(r)' /\ \A step : Past(r, step)' <=> Past(r, step) \/ step = Head(todo[r])
    BY <1>1, AdvancePlace
  <2> QED
    BY <2>1, <2>2 DEF Under
<1>10. \A g \in Jobs : job'[r][g] = IF g = j THEN "submitted" ELSE job[r][g]
  BY <1>1, <1>3 DEF FlowTypes
<1>11. RunsAll(r)' <=> RunsAll(r)
  BY <1>1 DEF RunsAll
<1>12. ~Past(r, <<"poll", j>>)
  BY <1>1, <1>3, <1>4 DEF FlowInv
<1> QED
  BY <1>1, <1>3, <1>4, <1>6, <1>7, <1>8, <1>9, <1>10, <1>11, <1>12
     DEF FlowInv, Jobs, IsIn

(* The end of the wait for a job.                                          *)
LEMMA PollFlow ==
  ASSUME RunTypes, FlowTypes, NEW r \in Runs, FlowInv(r), Poll(r)
  PROVE  FlowInv(r)'
<1> DEFINE j == Object(r)
           i == Done(r) + 1
<1>1. /\ Running(r) /\ Under(r) /\ Advance(r) /\ kind' = kind
      /\ exports' = exports /\ commits' = commits /\ job' = job
      /\ Head(todo[r])[1] = "poll" /\ At(r, "poll")
      /\ job[r][j] \notin Active /\ ~JobFailed(r)
  BY DEF Poll, At, Running, Under, dataVars, jobVars, Cannot
<1>2. /\ WaitsForJobs(Steps(r)) /\ Done(r) \in Nat /\ i \in 1 .. Len(Steps(r))
      /\ Head(todo[r]) = Steps(r)[i] /\ Head(todo[r]) \in Step
      /\ kind[r] \in Kinds
  BY <1>1, PresentStep
<1>3. j \in Jobs /\ Steps(r)[i] = <<"poll", j>>
  <2>1. j \in Jobs
    BY <1>1, <1>2 DEF WaitsForJobs, Object
  <2> QED
    BY <1>1, <1>2, <2>1 DEF Object, Step
<1>4. job[r][j] \in {"none", "SUCCESS"}
  <2>1. job[r][j] \in JobState
    BY <1>3 DEF FlowTypes
  <2> QED
    BY <1>1, <2>1 DEF JobState, JobFailed, Ended
<1>5. Past(r, <<"submit", j>>)
  <2>1. i > 1 /\ Steps(r)[i - 1] = <<"submit", j>>
    BY <1>2, <1>3 DEF WaitsForJobs
  <2>2. i - 1 \in 1 .. Done(r)
    BY <1>2, <2>1
  <2> QED
    BY <2>1, <2>2 DEF Past
<1>6. job[r][j] = "SUCCESS"
  BY <1>1, <1>3, <1>4, <1>5 DEF FlowInv
<1> HIDE DEF i, j
<1>7. /\ Under(r)' /\ outcome'[r] # "waiting"
      /\ \A step : Past(r, step)' <=> Past(r, step) \/ step = <<"poll", j>>
  <2>1. Head(todo[r]) = <<"poll", j>>
    BY <1>2, <1>3
  <2>2. Under(r)' /\ \A step : Past(r, step)' <=> Past(r, step) \/ step = Head(todo[r])
    BY <1>1, AdvancePlace
  <2> QED
    BY <2>1, <2>2 DEF Under
<1>8. RunsAll(r)' <=> RunsAll(r)
  BY <1>1 DEF RunsAll
<1> QED
  BY <1>1, <1>3, <1>6, <1>7, <1>8 DEF FlowInv, Jobs, IsIn

(* A step of a job: a job ends once, and a stitcher that has not ended is  *)
(* that of a run without an audit yet.                                     *)
LEMMA JobFlow ==
  ASSUME FlowTypes, NEW r \in Runs, NEW j \in Jobs, FlowInv(r), JobRuns(r, j),
         NEW st \in JobState, st # "none", job' = [job EXCEPT ![r][j] = st],
         j = "stitch" /\ st = "SUCCESS" => IsIn(commits', r),
         UNCHANGED runVars, exports' = exports, Grown(commits, commits')
  PROVE  FlowInv(r)'
<1>1. /\ Steps(r)' = Steps(r) /\ Done(r)' = Done(r)
      /\ Under(r)' <=> Under(r)
      /\ RunsAll(r)' <=> RunsAll(r)
      /\ outcome' = outcome
  BY DEF Steps, Done, Under, RunsAll, runVars
<1>2. \A step : Past(r, step)' <=> Past(r, step)
  BY <1>1 DEF Past
<1>3. /\ IsIn(exports', r) <=> IsIn(exports, r)
      /\ IsIn(commits, r) => IsIn(commits', r)
  BY DEF Grown
<1>4. \A g \in Jobs : job'[r][g] = IF g = j THEN st ELSE job[r][g]
  BY DEF FlowTypes
<1>5. job[r][j] \notin {"none", "SUCCESS"}
  BY DEF JobRuns, Active
<1>6. j = "stitch" => job[r]["audit"] = "none"
  BY <1>5 DEF FlowInv
<1> QED
  BY <1>1, <1>2, <1>3, <1>4, <1>5, <1>6 DEF FlowInv, Jobs, IsIn

LEMMA TeardownFlow ==
  ASSUME FlowTypes, NEW r \in Runs, FlowInv(r), Teardown
  PROVE  FlowInv(r)'
<1>1. /\ Steps(r)' = Steps(r) /\ Done(r)' = Done(r)
      /\ Under(r)' <=> Under(r)
      /\ RunsAll(r)' <=> RunsAll(r)
      /\ outcome' = outcome /\ exports' = exports /\ commits' = commits
  BY DEF Steps, Done, Under, RunsAll, Teardown
<1>2. \A step : Past(r, step)' <=> Past(r, step)
  BY <1>1 DEF Past
<1>3. \A j \in Jobs : job'[r][j] = IF job[r][j] \in Active THEN "CANCELLED" ELSE job[r][j]
  BY DEF Teardown, JobRuns
<1> QED
  BY <1>1, <1>2, <1>3 DEF FlowInv, Jobs, IsIn, Active

LEMMA StartFlow ==
  ASSUME RunTypes, FlowTypes, NEW r \in Runs, NEW k \in Kinds, FlowInv(r), Start(r, k)
  PROVE  FlowInv(r)'
<1>1. \A j \in Jobs : job'[r][j] = "none"
  BY DEF Start, FlowInv, jobVars
<1>2. outcome'[r] = "running" /\ \A step : ~Past(r, step)'
  BY StartPlace DEF Past
<1> QED
  BY <1>1, <1>2 DEF FlowInv, Jobs, IsIn

LEMMA StopFlow ==
  ASSUME RunTypes, FlowTypes, NEW r \in Runs, FlowInv(r), Running(r), Stop(r)
  PROVE  FlowInv(r)'
<1>1. outcome'[r] = "red"
  BY StopPlace
<1>2. job' = job /\ exports' = exports /\ commits' = commits /\ kind' = kind
  BY DEF Stop, jobVars, dataVars
<1> QED
  BY <1>1, <1>2 DEF FlowInv, Under, RunsAll, IsIn

FlowInvs == RunTypes /\ FlowTypes /\ \A r \in Runs : FlowInv(r)

(* What a step of a run other than a submission or a wait does.            *)
LEMMA PlainStep ==
  ASSUME FlowInvs, NEW r \in Runs,
         Check(r) \/ Simulate(r) \/ Truncate(r) \/ Scan(r) \/ Upload(r) \/ Remove(r) \/ Fetch(r)
  PROVE  /\ Running(r) /\ Advance(r) /\ kind' = kind /\ job' = job /\ commits' = commits
         /\ Head(todo[r])[1] \notin {"submit", "poll"}
         /\ Head(todo[r]) = <<"export", "upload">> => IsIn(exports', r)
         /\ exports' \in Seq(Runs) /\ Grown(exports, exports')
<1>1. FlowInv(r) /\ exports \in Seq(Runs)
  BY DEF FlowInvs, FlowTypes
<1>2. Grown(exports, exports)
  BY DEF Grown
<1>3. CASE Check(r) \/ Simulate(r)
  BY <1>1, <1>2, <1>3 DEF Check, Simulate, At, Running, FlowInv, dataVars, jobVars
<1>4. CASE Truncate(r) \/ Scan(r) \/ Remove(r)
  BY <1>1, <1>2, <1>4 DEF Truncate, Scan, Remove, At, Object, Running, FlowInv, jobVars
<1>5. CASE Upload(r)
  <2>1. exports' = Append(exports, r)
    BY <1>5 DEF Upload
  <2>2. exports' \in Seq(Runs) /\ Grown(exports, exports') /\ IsIn(exports', r)
    BY <1>1, <2>1, AppendGrows
  <2> QED
    BY <1>1, <1>5, <2>2 DEF Upload, At, Running, FlowInv, jobVars
<1>6. CASE Fetch(r)
  BY <1>1, <1>2, <1>6 DEF Fetch, At, Running, dataVars, jobVars
<1> QED
  BY <1>3, <1>4, <1>5, <1>6

LEMMA FlowInit == Init => FlowInvs
<1> SUFFICES ASSUME Init PROVE FlowInvs
  OBVIOUS
<1>1. RunTypes
  BY DEF Init, RunTypes, PlaceInv, Running, Under
<1>2. FlowTypes
  BY DEF Init, FlowTypes, JobState
<1>3. \A r \in Runs : FlowInv(r)
  BY DEF Init, FlowInv, Under, Jobs
<1> QED
  BY <1>1, <1>2, <1>3 DEF FlowInvs

(* A step that changes the present step of a run changes it by Advance,    *)
(* Stop or Start; the jobs and the logs change as the lemmas above say.    *)
LEMMA FlowStep == FlowInvs /\ [Next]_vars => FlowInvs'
<1> SUFFICES ASSUME FlowInvs, [Next]_vars PROVE FlowInvs'
  OBVIOUS
<1>1. RunTypes /\ FlowTypes /\ \A r \in Runs : FlowInv(r)
  BY DEF FlowInvs
<1>2. Grown(exports, exports) /\ Grown(commits, commits)
  BY DEF Grown
<1>3. ASSUME NEW r \in Runs, NEW k \in Kinds, Start(r, k) PROVE FlowInvs'
  <2>1. RunTypes' /\ FlowInv(r)'
    BY <1>1, <1>3, StartPlace, StartFlow
  <2>2. UNCHANGED <<job, exports, commits>>
    BY <1>3 DEF Start, jobVars, dataVars
  <2>3. \A q \in Runs : q # r => FlowInv(q)'
    <3>1. \A q \in Runs : q # r =>
            outcome'[q] = outcome[q] /\ todo'[q] = todo[q] /\ kind'[q] = kind[q]
      BY <1>1, <1>3, StartPlace
    <3> QED
      BY <1>1, <1>2, <2>2, <3>1, FlowKept
  <2>4. FlowTypes'
    BY <1>1, <2>2 DEF FlowTypes
  <2> QED
    BY <2>1, <2>3, <2>4 DEF FlowInvs
<1>4. ASSUME NEW r \in Runs, Running(r), Stop(r) PROVE FlowInvs'
  <2>1. RunTypes' /\ FlowInv(r)'
    BY <1>1, <1>4, StopPlace, StopFlow
  <2>2. UNCHANGED <<kind, job, exports, commits>>
    BY <1>4 DEF Stop, jobVars, dataVars
  <2>3. \A q \in Runs : q # r => FlowInv(q)'
    <3>1. \A q \in Runs : q # r => outcome'[q] = outcome[q] /\ todo'[q] = todo[q]
      BY <1>1, <1>4, StopPlace
    <3> QED
      BY <1>1, <1>2, <2>2, <3>1, FlowKept
  <2>4. FlowTypes'
    BY <1>1, <2>2 DEF FlowTypes
  <2> QED
    BY <2>1, <2>3, <2>4 DEF FlowInvs
<1>5. ASSUME NEW r \in Runs,
             Check(r) \/ Simulate(r) \/ Truncate(r) \/ Scan(r) \/ Upload(r) \/ Remove(r)
               \/ Fetch(r)
      PROVE  FlowInvs'
  <2>1. /\ Running(r) /\ Advance(r) /\ UNCHANGED <<kind, job, commits>>
        /\ Head(todo[r])[1] \notin {"submit", "poll"}
        /\ Head(todo[r]) = <<"export", "upload">> => IsIn(exports', r)
        /\ exports' \in Seq(Runs) /\ Grown(exports, exports')
    BY <1>5, PlainStep
  <2>2. FlowTypes'
    BY <1>1, <2>1 DEF FlowTypes
  <2>3. RunTypes' /\ \A q \in Runs : q # r => outcome'[q] = outcome[q] /\ todo'[q] = todo[q]
    BY <1>1, <2>1, AdvancePlace
  <2>4. FlowInv(r)'
    BY <1>1, <1>2, <2>1, <2>2, AdvanceFlow
  <2>5. \A q \in Runs : q # r => FlowInv(q)'
    BY <1>1, <1>2, <2>1, <2>2, <2>3, FlowKept
  <2> QED
    BY <2>2, <2>3, <2>4, <2>5 DEF FlowInvs
<1>6. ASSUME NEW r \in Runs, StartJobRun(r) \/ Poll(r) PROVE FlowInvs'
  <2>1. /\ Running(r) /\ Advance(r) /\ UNCHANGED <<kind, exports, commits>>
        /\ \A q \in Runs : q # r => job'[q] = job[q]
    BY <1>1, <1>6 DEF StartJobRun, Poll, At, dataVars, jobVars, FlowTypes
  <2>2. FlowTypes'
    <3>1. CASE Poll(r)
      BY <1>1, <2>1, <3>1 DEF FlowTypes, Poll, jobVars
    <3>2. CASE StartJobRun(r)
      <4>1. Object(r) \in Jobs
        BY <1>1, <3>2, FirstSubmission
      <4>2. job' = [job EXCEPT ![r][Object(r)] = "submitted"] /\ "submitted" \in JobState
        BY <3>2 DEF StartJobRun, JobState, Active
      <4> QED
        BY <1>1, <2>1, <4>1, <4>2 DEF FlowTypes
    <3> QED
      BY <1>6, <3>1, <3>2
  <2>3. RunTypes' /\ \A q \in Runs : q # r => outcome'[q] = outcome[q] /\ todo'[q] = todo[q]
    BY <1>1, <2>1, AdvancePlace
  <2>4. FlowInv(r)'
    BY <1>1, <1>6, SubmitFlow, PollFlow
  <2>5. \A q \in Runs : q # r => FlowInv(q)'
    BY <1>1, <1>2, <2>1, <2>3, FlowKept
  <2> QED
    BY <2>2, <2>3, <2>4, <2>5 DEF FlowInvs
<1>7. ASSUME UNCHANGED <<kind, outcome, todo, job, exports, commits>> PROVE FlowInvs'
  <2>1. \A r \in Runs : FlowInv(r)'
    BY <1>1, <1>2, <1>7, FlowKept
  <2> QED
    BY <1>1, <1>7, <2>1
       DEF FlowInvs, RunTypes, PlaceInv, Running, Under, Done, Steps, FlowTypes
<1>8. ASSUME NEW r \in Runs, NEW j \in Jobs, JobStep(r, j) PROVE FlowInvs'
  <2>1. \E st \in JobState \ {"none"} :
          /\ job' = [job EXCEPT ![r][j] = st]
          /\ j = "stitch" /\ st = "SUCCESS" => IsIn(commits', r)
    <3>1. CASE Begin(r, j) \/ Overwrite(r, j) \/ JobFails(r, j)
      BY <3>1 DEF Begin, Overwrite, JobFails, JobState, Active, Ended
    <3>2. CASE Commit(r, j)
      <4>1. j = "stitch" => commits' = Append(commits, r)
        BY <3>2 DEF Commit
      <4>2. j = "stitch" => IsIn(commits', r)
        BY <1>1, <4>1, AppendGrows DEF FlowTypes
      <4> QED
        BY <3>2, <4>2 DEF Commit, JobState, Ended
    <3> QED
      BY <1>8, <3>1, <3>2 DEF JobStep
  <2>2. /\ JobRuns(r, j) /\ UNCHANGED runVars /\ exports' = exports
        /\ commits' = commits \/ commits' = Append(commits, r)
    BY <1>8 DEF JobStep, Begin, Overwrite, Commit, JobFails, JobRuns, Active, dataVars
  <2>3. commits' \in Seq(Runs) /\ Grown(commits, commits')
    BY <1>1, <1>2, <2>2, AppendGrows DEF FlowTypes
  <2>4. FlowInv(r)'
    BY <1>1, <2>1, <2>2, <2>3, JobFlow
  <2>5. RunTypes' /\ FlowTypes' /\ \A q \in Runs : q # r => job'[q] = job[q]
    BY <1>1, <2>1, <2>2, <2>3
       DEF RunTypes, PlaceInv, Running, Under, Done, Steps, FlowTypes, runVars
  <2>6. \A q \in Runs : q # r => FlowInv(q)'
    BY <1>1, <1>2, <2>2, <2>3, <2>5, FlowKept DEF runVars
  <2> QED
    BY <2>4, <2>5, <2>6 DEF FlowInvs
<1>9. ASSUME Teardown PROVE FlowInvs'
  <2>1. \A r \in Runs : FlowInv(r)'
    BY <1>1, <1>9, TeardownFlow
  <2>2. UNCHANGED <<kind, outcome, todo, exports, commits>>
    BY <1>9 DEF Teardown
  <2>3. job' \in [Runs -> [Jobs -> JobState]]
    BY <1>1, <1>9 DEF Teardown, FlowTypes, JobState, Ended
  <2> QED
    BY <1>1, <2>1, <2>2, <2>3
       DEF FlowInvs, RunTypes, PlaceInv, Running, Under, Done, Steps, FlowTypes
<1>10. ASSUME \/ \E r \in Runs : Query(r) \/ Answer(r)
              \/ Deploy
              \/ UNCHANGED vars
       PROVE  FlowInvs'
  BY <1>7, <1>10 DEF Query, Answer, Deploy, vars, runVars, dataVars, jobVars
<1>11. ASSUME NEW r \in Runs, StepFails(r) \/ Interrupt(r) \/ TimesOut(r) PROVE FlowInvs'
  BY <1>4, <1>11 DEF StepFails, Interrupt, TimesOut, At
<1> QED
  BY <1>3, <1>5, <1>6, <1>8, <1>9, <1>10, <1>11 DEF Next, RunStep

(* A run that reports success has submitted no job that did not succeed.   *)
LEMMA GreenJobs ==
  ASSUME FlowInvs, NEW r \in Runs, outcome[r] = "green"
  PROVE  /\ Len(Steps(r)) \in Nat /\ Done(r) = Len(Steps(r))
         /\ \A j \in Jobs : job[r][j] = "none" \/ job[r][j] = "SUCCESS"
<1>1. FlowInv(r) /\ PlaceInv(r) /\ Under(r) /\ todo[r] = << >>
  BY DEF FlowInvs, RunTypes, Under, PlaceInv, Running
<1>2. WaitsForJobs(Steps(r)) /\ Done(r) = Len(Steps(r)) - 0 /\ Steps(r) \in Seq(Step)
  BY <1>1, ScriptsWait DEF PlaceInv, Done, Steps, WaitsForJobs
<1>3. Len(Steps(r)) \in Nat /\ Done(r) = Len(Steps(r))
  BY <1>2
<1>4. ASSUME NEW j \in Jobs, job[r][j] # "none" PROVE job[r][j] = "SUCCESS"
  <2>1. PICK m \in 1 .. Len(Steps(r)) : Steps(r)[m] = <<"submit", j>>
    BY <1>1, <1>3, <1>4 DEF FlowInv, Past
  <2>2. m + 1 \in 1 .. Len(Steps(r)) /\ Steps(r)[m + 1] = <<"poll", j>>
    BY <1>2, <1>3, <2>1 DEF WaitsForJobs
  <2>3. Past(r, <<"poll", j>>)
    BY <1>3, <2>2 DEF Past
  <2> QED
    BY <1>1, <2>3 DEF FlowInv
<1> QED
  BY <1>3, <1>4

(* A run reports success only if every job it submitted did, and its audit *)
(* is not submitted before its stitcher has succeeded: the poll loop of    *)
(* submit_spark_job.sh leaves with SUCCESS only, and neither another run,  *)
(* an interruption nor a teardown undoes a success.                        *)
THEOREM StagesAreInOrder == Spec => []StagesInOrder
<1>1. FlowInvs => StagesInOrder
  <2> SUFFICES ASSUME FlowInvs, NEW r \in Runs
               PROVE  /\ outcome[r] = "green" => \A j \in Jobs : job[r][j] \in {"none", "SUCCESS"}
                      /\ RunsAll(r) /\ job[r]["audit"] # "none" => job[r]["stitch"] = "SUCCESS"
    BY DEF StagesInOrder
  <2>1. FlowInv(r)
    BY DEF FlowInvs
  <2>2. outcome[r] = "green" => \A j \in Jobs : job[r][j] \in {"none", "SUCCESS"}
    BY GreenJobs
  <2> QED
    BY <2>1, <2>2 DEF FlowInv
<1> QED
  BY <1>1, FlowInit, FlowStep, PTL DEF Spec

----------------------------------------------------------------------------
(* Types                                                                   *)

OwnTypes ==
  /\ knows \in [Runs -> 0 .. MaxDeploys]
  /\ query \in [Runs -> {None, "executing", "SUCCEEDED"}]
  /\ deployment \in {0, deployed} /\ deployed \in 1 .. MaxDeploys
  /\ tmp = [h \in Hosts |-> tmp[h]]
  /\ \A h \in Hosts : tmp[h] = None \/ tmp[h] \in Seq(Runs)
  /\ alone \in [Runs -> BOOLEAN]

LEMMA HostIs == \A r : Host(r) \in Hosts
  BY DEF Host, Hosts

LEMMA OwnTypesInit == Init => OwnTypes
  BY PipelineAssumption DEF Init, OwnTypes

LEMMA OwnTypesStep == OwnTypes /\ FlowInvs /\ [Next]_vars => OwnTypes'
<1> SUFFICES ASSUME OwnTypes, FlowInvs, [Next]_vars PROVE OwnTypes'
  OBVIOUS
<1>0. MaxDeploys \in Nat \ {0} /\ deployed \in 1 .. MaxDeploys /\ deployment \in 0 .. MaxDeploys
  BY PipelineAssumption DEF OwnTypes
<1>1. ASSUME NEW r \in Runs, NEW k \in Kinds, Start(r, k) PROVE OwnTypes'
  <2>1. knows' \in [Runs -> 0 .. MaxDeploys]
    BY <1>0, <1>1 DEF Start, OwnTypes
  <2>2. alone' \in [Runs -> BOOLEAN]
    <3>1. \A q \in Runs : alone[q] \in BOOLEAN
      BY DEF OwnTypes
    <3> QED
      BY <1>1, <3>1 DEF Start
  <2> QED
    BY <1>1, <2>1, <2>2 DEF Start, OwnTypes, infraVars, dataVars
<1>2. ASSUME NEW r \in Runs, Stop(r) PROVE OwnTypes'
  <2>1. knows' \in [Runs -> 0 .. MaxDeploys] /\ query' \in [Runs -> {None, "executing", "SUCCEEDED"}]
    BY <1>0, <1>2 DEF Stop, OwnTypes
  <2> QED
    BY <1>2, <2>1 DEF Stop, OwnTypes, infraVars, dataVars
<1>3. ASSUME NEW r \in Runs, Check(r) PROVE OwnTypes'
  BY <1>0, <1>3 DEF Check, OwnTypes, infraVars, dataVars
<1>4. ASSUME NEW r \in Runs,
             \/ tmp' = [tmp EXCEPT ![Host(r)] = << >>]
             \/ tmp' = [tmp EXCEPT ![Host(r)] = None]
             \/ tmp' = [tmp EXCEPT ![Host(r)] = IF @ = None THEN <<r>> ELSE Append(@, r)],
             UNCHANGED <<knows, query, infraVars, alone>>
      PROVE  OwnTypes'
  <2>1. tmp[Host(r)] = None \/ Append(tmp[Host(r)], r) \in Seq(Runs)
    BY HostIs DEF OwnTypes
  <2>2. PICK f \in Seq(Runs) \cup {None} : tmp' = [tmp EXCEPT ![Host(r)] = f]
    <3>1. << >> \in Seq(Runs) /\ <<r>> \in Seq(Runs)
      OBVIOUS
    <3> QED
      BY <1>4, <2>1, <3>1
  <2>3. tmp' = [h \in Hosts |-> IF h = Host(r) THEN f ELSE tmp[h]]
    BY <2>2 DEF OwnTypes
  <2>4. tmp' = [h \in Hosts |-> tmp'[h]] /\ \A h \in Hosts : tmp'[h] = None \/ tmp'[h] \in Seq(Runs)
    BY <2>3 DEF OwnTypes
  <2> QED
    BY <1>4, <2>4 DEF OwnTypes, infraVars
<1>5. ASSUME NEW r \in Runs, Truncate(r) \/ Scan(r) \/ Remove(r) PROVE OwnTypes'
  BY <1>4, <1>5 DEF Truncate, Scan, Remove
<1>6. ASSUME UNCHANGED <<knows, query, infraVars, tmp, alone>> PROVE OwnTypes'
  BY <1>6 DEF OwnTypes, infraVars
<1>7. ASSUME NEW r \in Runs, Simulate(r) \/ Upload(r) \/ StartJobRun(r) \/ Poll(r)
      PROVE  OwnTypes'
  BY <1>6, <1>7 DEF Simulate, Upload, StartJobRun, Poll, dataVars
<1>8. ASSUME NEW r \in Runs, Query(r) \/ Answer(r) \/ Fetch(r) PROVE OwnTypes'
  BY <1>8 DEF Query, Answer, Fetch, OwnTypes, infraVars, dataVars
<1>9. ASSUME NEW r \in Runs, NEW j \in Jobs, JobStep(r, j) PROVE OwnTypes'
  BY <1>6, <1>9 DEF JobStep, Begin, Overwrite, Commit, JobFails, runVars, dataVars
<1>10. ASSUME Teardown PROVE OwnTypes'
  <2>1. alone' \in [Runs -> BOOLEAN]
    <3>1. \A q \in Runs : alone[q] \in BOOLEAN
      BY DEF OwnTypes
    <3> QED
      BY <1>10, <3>1 DEF Teardown
  <2> QED
    BY <1>10, <2>1 DEF Teardown, OwnTypes
<1>11. ASSUME Deploy PROVE OwnTypes'
  BY <1>0, <1>11 DEF Deploy, OwnTypes, runVars, dataVars
<1>12. ASSUME UNCHANGED vars PROVE OwnTypes'
  BY <1>6, <1>12 DEF vars, runVars, dataVars
<1>13. ASSUME NEW r \in Runs, StepFails(r) \/ Interrupt(r) \/ TimesOut(r) PROVE OwnTypes'
  BY <1>2, <1>13 DEF StepFails, Interrupt, TimesOut
<1> QED
  BY <1>1, <1>3, <1>5, <1>7, <1>8, <1>9, <1>10, <1>11, <1>12, <1>13 DEF Next, RunStep

----------------------------------------------------------------------------
(* Where data comes from                                                   *)

Listing == [batch : SUBSET Files, speed : Snapshot]

(* The runs whose stitchers have written their sessions.                   *)
Stitched == {r \in Runs : job[r]["stitch"] = "SUCCESS"}

(* Not older than the run's own.                                           *)
Fresh(r, x) ==
  RunsAll(r) =>
    /\ NotBefore(exports, r, x.speed.by)
    /\ \E f \in x.batch : NotBefore(commits, r, f[1])

AuditRuns(r) == job[r]["audit"] \in {"running", "overwriting"}

(* In the one output path there is what stitchers wrote, the latest file   *)
(* among it; an audit has listed such files, finds none of them once it    *)
(* has begun to overwrite, and so does not succeed.                        *)
OutputInv ==
  /\ output \subseteq Stitched \X {"stitch"}
  /\ output # {} => commits # << >> /\ <<commits[Len(commits)], "stitch">> \in output

InputInv(r) ==
  /\ input[r] # None => AuditRuns(r)
  /\ AuditRuns(r) =>
       /\ input[r] \in Listing /\ Fresh(r, input[r])
       /\ input[r].batch # {} /\ input[r].batch \subseteq Stitched \X {"stitch"}
  /\ job[r]["audit"] = "overwriting" => input[r].batch \cap output = {}
  /\ job[r]["audit"] # "SUCCESS"

DataInv ==
  /\ snapshot # None =>
       /\ snapshot \in Snapshot
       /\ exports # << >> /\ snapshot.by = exports[Len(exports)]
  /\ OutputInv
  /\ input = [r \in Runs |-> input[r]]
  /\ \A r \in Runs : InputInv(r)

LEMMA LastIsLatest ==
  ASSUME NEW log \in Seq(Runs), NEW r \in Runs, IsIn(log, r)
  PROVE  NotBefore(log, r, log[Len(log)])
<1>1. DOMAIN log = 1 .. Len(log) /\ Len(log) \in Nat
  OBVIOUS
<1>2. PICK i \in DOMAIN log : log[i] = r
  BY DEF IsIn
<1>3. Len(log) \in DOMAIN log /\ i <= Len(log)
  BY <1>1, <1>2
<1> QED
  BY <1>2, <1>3 DEF NotBefore

(* What was fresh stays so: the logs only grow, and a run that has         *)
(* something to compare is no new one.                                     *)
LEMMA FreshStays ==
  ASSUME NEW r \in Runs, NEW x, Fresh(r, x), kind'[r] = kind[r],
         FlowTypes,
         exports' = exports \/ \E q \in Runs : exports' = Append(exports, q),
         commits' = commits \/ \E q \in Runs : commits' = Append(commits, q)
  PROVE  Fresh(r, x)'
<1>1. ASSUME NEW log \in Seq(Runs), NEW q \in Runs, NEW p, NEW u, NotBefore(log, p, u)
      PROVE  NotBefore(Append(log, q), p, u)
  BY <1>1, AppendGrows DEF NotBefore
<1>2. \A p, u : NotBefore(exports, p, u) => NotBefore(exports', p, u)
  BY <1>1 DEF FlowTypes
<1>3. \A p, u : NotBefore(commits, p, u) => NotBefore(commits', p, u)
  BY <1>1 DEF FlowTypes
<1> QED
  BY <1>2, <1>3 DEF Fresh, RunsAll, NotBefore

(* A run whose audit, and so whose input, is as it was.                    *)
LEMMA InputKept ==
  ASSUME FlowTypes, NEW r \in Runs, InputInv(r),
         job'[r]["audit"] = job[r]["audit"], input'[r] = input[r],
         Stitched \subseteq Stitched',
         AuditRuns(r) => kind'[r] = kind[r],
         exports' = exports \/ \E q \in Runs : exports' = Append(exports, q),
         commits' = commits \/ \E q \in Runs : commits' = Append(commits, q),
         output' \subseteq output \cup ((Runs \ Stitched) \X Jobs)
  PROVE  InputInv(r)'
<1>1. AuditRuns(r)' <=> AuditRuns(r)
  BY DEF AuditRuns
<1>2. ASSUME AuditRuns(r)
      PROVE  /\ Fresh(r, input[r])'
             /\ input[r].batch \subseteq Stitched' \X {"stitch"}
             /\ job[r]["audit"] = "overwriting" => input[r].batch \cap output' = {}
  <2>1. Fresh(r, input[r]) /\ input[r].batch \subseteq Stitched \X {"stitch"}
    BY <1>2 DEF InputInv
  <2>2. Fresh(r, input[r])'
    <3>1. PICK x : x = input[r] /\ input'[r] = x
      OBVIOUS
    <3>2. Fresh(r, x)
      BY <2>1, <3>1
    <3>3. Fresh(r, x)'
      BY <1>2, <3>2, FreshStays
    <3> QED
      BY <3>1, <3>3
  <2>3. job[r]["audit"] = "overwriting" => input[r].batch \cap output' = {}
    BY <2>1 DEF InputInv
  <2> QED
    BY <2>1, <2>2, <2>3
<1> QED
  BY <1>1, <1>2 DEF InputInv, AuditRuns

LEMMA DataInit == Init => DataInv
  BY DEF Init, DataInv, OutputInv, InputInv, AuditRuns, Jobs

LEMMA DataStep == DataInv /\ OwnTypes /\ FlowInvs /\ [Next]_vars => DataInv'
<1> SUFFICES ASSUME DataInv, OwnTypes, FlowInvs, [Next]_vars PROVE DataInv'
  OBVIOUS
<1>1. /\ RunTypes /\ FlowTypes /\ \A r \in Runs : FlowInv(r)
      /\ exports \in Seq(Runs) /\ commits \in Seq(Runs)
      /\ OutputInv /\ \A r \in Runs : InputInv(r)
      /\ input = [r \in Runs |-> input[r]]
  BY DEF FlowInvs, FlowTypes, DataInv
<1>2. \A r \in Runs : AuditRuns(r) => outcome[r] # "waiting"
  BY <1>1 DEF AuditRuns, FlowInv, Jobs
(* Data that is there when nothing but a run moves.                        *)
<1>3. ASSUME UNCHANGED <<snapshot, output, exports, commits, jobVars>>,
             \A r \in Runs : outcome[r] # "waiting" => kind'[r] = kind[r]
      PROVE  DataInv'
  <2>1. UNCHANGED <<snapshot, output, exports, commits, job, input>> /\ Stitched' = Stitched
    BY <1>3 DEF jobVars, Stitched
  <2>2. \A r \in Runs : InputInv(r)'
    BY <1>1, <1>2, <1>3, <2>1, InputKept
  <2> QED
    BY <2>1, <2>2 DEF DataInv, OutputInv
<1>4. ASSUME NEW r \in Runs, Upload(r) PROVE DataInv'
  <2>1. /\ tmp[Host(r)] \in Seq(Runs)
        /\ snapshot' = [by |-> r, scans |-> tmp[Host(r)]]
        /\ exports' = Append(exports, r)
        /\ UNCHANGED <<kind, output, commits, job, input>>
        /\ Stitched' = Stitched
    BY <1>4, HostIs DEF Upload, Cannot, At, Object, OwnTypes, jobVars, Stitched
  <2>2. exports' # << >> /\ exports'[Len(exports')] = r /\ snapshot' \in Snapshot
    BY <1>1, <2>1, AppendGrows DEF Snapshot
  <2>3. \A q \in Runs : InputInv(q)'
    BY <1>1, <2>1, InputKept
  <2> QED
    BY <1>1, <2>1, <2>2, <2>3 DEF DataInv, OutputInv
(* A stitcher that runs is that of a run without an audit.                 *)
<1>5. ASSUME NEW r \in Runs, JobRuns(r, "stitch")
      PROVE  job[r]["audit"] = "none" /\ r \notin Stitched
  BY <1>1, <1>5 DEF JobRuns, Active, FlowInv, Stitched
(* A step of a job that leaves the output alone, and is not the audit's    *)
(* first.                                                                  *)
<1>6. ASSUME NEW r \in Runs, NEW j \in Jobs, NEW st, JobRuns(r, j),
             job' = [job EXCEPT ![r][j] = st],
             j = "audit" => st \notin {"running", "overwriting", "SUCCESS"},
             j = "audit" => input'[r] = None,
             j = "stitch" => input'[r] \in {input[r], None},
             \A q \in Runs : q # r => input'[q] = input[q],
             input' = [q \in Runs |-> input'[q]],
             UNCHANGED <<kind, snapshot, output, exports, commits>>
      PROVE  DataInv'
  <2>1. \A q \in Runs, g \in Jobs : job'[q][g] = IF q = r /\ g = j THEN st ELSE job[q][g]
    BY <1>1, <1>6 DEF FlowTypes
  <2>2. Stitched \subseteq Stitched'
    BY <1>5, <1>6, <2>1 DEF Stitched, Jobs
  <2>3. \A q \in Runs : q # r => InputInv(q)'
    BY <1>1, <1>6, <2>1, <2>2, InputKept DEF Jobs
  <2>4. InputInv(r)'
    <3>1. CASE j = "audit"
      BY <1>6, <2>1, <3>1 DEF InputInv, AuditRuns
    <3>2. CASE j = "stitch"
      <4>1. job[r]["audit"] = "none" /\ job'[r]["audit"] = "none"
        BY <1>5, <1>6, <2>1, <3>2 DEF Jobs
      <4>2. input[r] = None
        BY <1>1, <4>1 DEF InputInv, AuditRuns
      <4> QED
        BY <1>6, <3>2, <4>1, <4>2 DEF InputInv, AuditRuns
    <3> QED
      BY <3>1, <3>2 DEF Jobs
  <2>5. OutputInv'
    BY <1>1, <1>6, <2>2 DEF OutputInv
  <2> QED
    BY <1>6, <2>3, <2>4, <2>5 DEF DataInv
<1>7. ASSUME NEW r \in Runs, NEW j \in Jobs, Begin(r, j) PROVE DataInv'
  <2>1. /\ job' = [job EXCEPT ![r][j] = "running"] /\ JobRuns(r, j) /\ job[r][j] = "submitted"
        /\ UNCHANGED <<kind, snapshot, output, exports, commits>>
    BY <1>7 DEF Begin, runVars, dataVars, JobRuns, Active
  <2>2. CASE j = "stitch"
    <3>1. input' = input
      BY <1>7, <2>2 DEF Begin
    <3> QED
      BY <1>1, <1>6, <2>1, <2>2, <3>1
  <2>3. CASE j = "audit"
    <3>1. PICK x : x = [batch |-> output, speed |-> snapshot]
      OBVIOUS
    <3>2. /\ input' = [input EXCEPT ![r] = x]
          /\ output # {} /\ snapshot # None
      BY <1>7, <2>3, <3>1 DEF Begin
    <3>3. /\ snapshot \in Snapshot /\ snapshot.by = exports[Len(exports)]
          /\ output \subseteq Files /\ output \subseteq Stitched \X {"stitch"}
          /\ <<commits[Len(commits)], "stitch">> \in output
      BY <3>2 DEF DataInv, OutputInv, Stitched, Files, Jobs
    <3>4. x \in Listing /\ x.batch # {} /\ x.batch \subseteq Stitched \X {"stitch"}
      BY <3>1, <3>2, <3>3 DEF Listing
    <3>5. Fresh(r, x)
      <4> SUFFICES ASSUME RunsAll(r)
                   PROVE  /\ NotBefore(exports, r, snapshot.by)
                          /\ \E f \in output : NotBefore(commits, r, f[1])
        BY <3>1 DEF Fresh
      <4>1. job[r]["audit"] # "none"
        BY <2>1, <2>3
      <4>2. IsIn(exports, r) /\ IsIn(commits, r)
        BY <1>1, <4>1 DEF FlowInv
      <4>3. /\ NotBefore(exports, r, exports[Len(exports)])
            /\ NotBefore(commits, r, commits[Len(commits)])
        BY <1>1, <4>2, LastIsLatest
      <4>4. <<commits[Len(commits)], "stitch">>[1] = commits[Len(commits)]
        OBVIOUS
      <4> QED
        BY <3>3, <4>3, <4>4
    <3>6. Fresh(r, x)'
      BY <1>1, <2>1, <3>5, FreshStays
    <3>7. /\ \A q \in Runs : q # r => job'[q] = job[q] /\ input'[q] = input[q]
          /\ job'[r]["audit"] = "running" /\ job'[r]["stitch"] = job[r]["stitch"]
          /\ input' = [q \in Runs |-> input'[q]] /\ input'[r] = x
      BY <1>1, <2>1, <2>3, <3>2 DEF FlowTypes, Jobs
    <3>8. Stitched' = Stitched
      BY <3>7 DEF Stitched
    <3>9. InputInv(r)'
      <4>1. input'[r] = x /\ AuditRuns(r)' /\ job'[r]["audit"] = "running"
        BY <3>7 DEF AuditRuns
      <4> QED
        BY <3>4, <3>6, <3>8, <4>1 DEF InputInv
    <3>10. \A q \in Runs : q # r => InputInv(q)'
      BY <1>1, <2>1, <3>7, <3>8, InputKept
    <3>11. OutputInv'
      BY <1>1, <2>1, <3>8 DEF OutputInv
    <3> QED
      BY <2>1, <3>7, <3>9, <3>10, <3>11 DEF DataInv
  <2> QED
    BY <2>2, <2>3 DEF Jobs
<1>8. ASSUME NEW r \in Runs, NEW j \in Jobs, Overwrite(r, j) PROVE DataInv'
  <2>1. /\ job' = [job EXCEPT ![r][j] = "overwriting"] /\ JobRuns(r, j) /\ job[r][j] = "running"
        /\ UNCHANGED <<kind, snapshot, exports, commits, input>>
        /\ output' = {}
    BY <1>8 DEF Overwrite, runVars, JobRuns, Active
  <2>2. \A q \in Runs, g \in Jobs :
          job'[q][g] = IF q = r /\ g = j THEN "overwriting" ELSE job[q][g]
    BY <1>1, <2>1 DEF FlowTypes
  <2>3. Stitched \subseteq Stitched'
    BY <2>1, <2>2 DEF Stitched, Jobs
  <2>4. \A q \in Runs : q # r \/ j = "stitch" => InputInv(q)'
    <3>1. \A q \in Runs : q # r \/ j = "stitch" => job'[q]["audit"] = job[q]["audit"]
      BY <2>2 DEF Jobs
    <3> QED
      BY <1>1, <2>1, <2>3, <3>1, InputKept
  <2>5. j = "audit" => InputInv(r)'
    <3> SUFFICES ASSUME j = "audit" PROVE InputInv(r)'
      OBVIOUS
    <3>1. AuditRuns(r) /\ AuditRuns(r)' /\ job'[r]["audit"] = "overwriting"
      BY <2>1, <2>2 DEF AuditRuns, Jobs
    <3>2. /\ input[r] \in Listing /\ Fresh(r, input[r])
          /\ input[r].batch # {} /\ input[r].batch \subseteq Stitched \X {"stitch"}
      BY <1>1, <3>1 DEF InputInv
    <3>3. Fresh(r, input[r])'
      <4>1. PICK x : x = input[r] /\ input'[r] = x
        BY <2>1
      <4>2. Fresh(r, x)
        BY <3>2, <4>1
      <4>3. Fresh(r, x)'
        BY <1>1, <2>1, <4>2, FreshStays
      <4> QED
        BY <4>1, <4>3
    <3> QED
      BY <2>1, <2>3, <3>1, <3>2, <3>3 DEF InputInv
  <2> QED
    BY <1>1, <2>1, <2>4, <2>5 DEF DataInv, OutputInv, Jobs
<1>9. ASSUME NEW r \in Runs, NEW j \in Jobs, Commit(r, j) PROVE DataInv'
  <2>1. /\ job' = [job EXCEPT ![r][j] = "SUCCESS"] /\ JobRuns(r, j) /\ job[r][j] = "overwriting"
        /\ UNCHANGED <<kind, snapshot, exports, input>>
        /\ output' = output \cup {<<r, j>>}
        /\ j = "audit" => input[r].batch \subseteq output
    BY <1>9 DEF Commit, Computable, runVars, JobRuns, Active
  <2>2. j = "stitch"
    <3>1. ASSUME j = "audit" PROVE FALSE
      <4>1. input[r].batch # {} /\ input[r].batch \cap output = {}
        BY <1>1, <2>1, <3>1 DEF InputInv, AuditRuns
      <4> QED
        BY <2>1, <3>1, <4>1
    <3> QED
      BY <3>1 DEF Jobs
  <2>3. commits' = Append(commits, r) /\ r \notin Stitched
    BY <1>5, <1>9, <2>1, <2>2 DEF Commit
  <2>4. commits' # << >> /\ commits'[Len(commits')] = r
    BY <1>1, <2>3, AppendGrows
  <2>5. \A q \in Runs, g \in Jobs :
          job'[q][g] = IF q = r /\ g = "stitch" THEN "SUCCESS" ELSE job[q][g]
    BY <1>1, <2>1, <2>2 DEF FlowTypes
  <2>6. Stitched' = Stitched \cup {r}
    BY <2>5 DEF Stitched, Jobs
  <2>7. \A q \in Runs : InputInv(q)'
    <3>1. \A q \in Runs : job'[q]["audit"] = job[q]["audit"]
      BY <2>5 DEF Jobs
    <3>2. output' \subseteq output \cup ((Runs \ Stitched) \X Jobs)
      BY <2>1, <2>3
    <3> QED
      BY <1>1, <2>1, <2>3, <2>6, <3>1, <3>2, InputKept
  <2>8. OutputInv'
    BY <1>1, <2>1, <2>2, <2>4, <2>6 DEF OutputInv
  <2> QED
    BY <1>1, <2>1, <2>3, <2>7, <2>8 DEF DataInv
<1>10. ASSUME NEW r \in Runs, NEW j \in Jobs, JobFails(r, j) PROVE DataInv'
  <2>1. /\ job' = [job EXCEPT ![r][j] = "FAILED"] /\ JobRuns(r, j)
        /\ input' = [input EXCEPT ![r] = None]
        /\ UNCHANGED <<kind, snapshot, output, exports, commits>>
    BY <1>10 DEF JobFails, runVars, dataVars
  <2>2. /\ input'[r] = None /\ \A q \in Runs : q # r => input'[q] = input[q]
        /\ input' = [q \in Runs |-> input'[q]]
    BY <1>1, <2>1
  <2> QED
    BY <1>6, <2>1, <2>2
<1>11. ASSUME Teardown PROVE DataInv'
  <2>1. /\ snapshot' = None /\ output' = {} /\ input' = [q \in Runs |-> None]
    BY <1>11 DEF Teardown
  <2>2. \A q \in Runs, g \in Jobs :
          job'[q][g] = IF job[q][g] \in Active THEN "CANCELLED" ELSE job[q][g]
    BY <1>11 DEF Teardown, JobRuns
  <2>3. \A q \in Runs : ~AuditRuns(q)' /\ job'[q]["audit"] # "SUCCESS"
    BY <1>1, <2>2 DEF AuditRuns, InputInv, Active, Jobs
  <2>4. \A q \in Runs : InputInv(q)'
    BY <2>1, <2>3 DEF InputInv, AuditRuns
  <2> QED
    BY <2>1, <2>4 DEF DataInv, OutputInv
<1>12. ASSUME NEW r \in Runs, StartJobRun(r) PROVE DataInv'
  <2>1. /\ UNCHANGED <<kind, snapshot, output, exports, commits, input>>
        /\ job' = [job EXCEPT ![r][Object(r)] = "submitted"]
    BY <1>12 DEF StartJobRun, dataVars
  <2>2. Object(r) \in Jobs /\ job[r][Object(r)] = "none"
    BY <1>1, <1>12, FirstSubmission
  <2>3. \A q \in Runs, g \in Jobs :
          job'[q][g] = IF q = r /\ g = Object(r) THEN "submitted" ELSE job[q][g]
    BY <1>1, <2>1, <2>2 DEF FlowTypes
  <2>4. Stitched \subseteq Stitched'
    BY <2>2, <2>3 DEF Stitched, Jobs
  <2>5. \A q \in Runs : q # r \/ Object(r) # "audit" => InputInv(q)'
    <3>1. \A q \in Runs : q # r \/ Object(r) # "audit" => job'[q]["audit"] = job[q]["audit"]
      BY <2>3 DEF Jobs
    <3> QED
      BY <1>1, <2>1, <2>4, <3>1, InputKept
  <2>6. Object(r) = "audit" => InputInv(r)'
    <3> SUFFICES ASSUME Object(r) = "audit" PROVE InputInv(r)'
      OBVIOUS
    <3>1. job[r]["audit"] = "none" /\ job'[r]["audit"] = "submitted" /\ input'[r] = input[r]
      BY <2>1, <2>2, <2>3
    <3>2. input[r] = None
      BY <1>1, <3>1 DEF InputInv, AuditRuns
    <3> QED
      BY <3>1, <3>2 DEF InputInv, AuditRuns
  <2> QED
    BY <1>1, <2>1, <2>4, <2>5, <2>6 DEF DataInv, OutputInv
<1>13. ASSUME NEW r \in Runs, NEW k \in Kinds, Start(r, k) PROVE DataInv'
  <2>1. \A q \in Runs : outcome[q] # "waiting" => kind'[q] = kind[q]
    BY <1>1, <1>13, StartPlace DEF Start
  <2> QED
    BY <1>3, <1>13, <2>1 DEF Start, dataVars
<1>14. ASSUME \/ \E r \in Runs :
                   \/ Check(r) \/ Simulate(r) \/ Truncate(r) \/ Scan(r) \/ Remove(r)
                   \/ Poll(r) \/ Query(r) \/ Answer(r) \/ Fetch(r)
                   \/ StepFails(r) \/ Interrupt(r) \/ TimesOut(r)
              \/ Deploy
              \/ UNCHANGED vars
       PROVE  DataInv'
  BY <1>3, <1>14
     DEF Check, Simulate, Truncate, Scan, Remove, Poll, Query, Answer, Fetch,
         StepFails, Interrupt, TimesOut, Stop, Deploy, vars, runVars, dataVars
<1> QED
  BY <1>4, <1>7, <1>8, <1>9, <1>10, <1>11, <1>12, <1>13, <1>14 DEF Next, RunStep, JobStep

----------------------------------------------------------------------------
(* A run that has the date to itself                                       *)

Own(r) == [by |-> r, scans |-> <<r>>]
OwnFiles(r) == {<<r, "stitch">>}

(* Nothing but the run goes on.                                            *)
Solitary(r) ==
  \A q \in Runs : q # r => ~Running(q) /\ \A j \in Jobs : ~JobRuns(q, j)

(* All data is its own, as far as the run has come: the scan goes into the *)
(* file it has emptied, and the sessions are there until its own audit     *)
(* removes them.                                                           *)
OwnData(r) ==
  /\ Head(todo[r]) = <<"export", "scan">> => tmp["laptop"] = << >>
  /\ Head(todo[r]) = <<"export", "upload">> => tmp["laptop"] = <<r>>
  /\ Past(r, <<"export", "upload">>) => snapshot = Own(r)
  /\ job[r]["stitch"] = "overwriting" => output = {}
  /\ job[r]["stitch"] = "SUCCESS" /\ job[r]["audit"] \in {"none", "submitted", "running"} =>
       output = OwnFiles(r)
  /\ AuditRuns(r) => input[r] = [batch |-> OwnFiles(r), speed |-> Own(r)]

AloneInv(r) ==
  alone[r] /\ Running(r) => kind[r] = "full" /\ Solitary(r) /\ OwnData(r)

AllAlone == \A r \in Runs : AloneInv(r)

(* The order of the steps that count here.                                 *)
LEMMA FullScript ==
  LET S == Script["full"]
  IN  /\ S[1] = <<"check", "deployed">> /\ Len(S) = 13
      /\ \A m \in 1 .. 12 :
           /\ S[m + 1] = <<"export", "scan">> => S[m] = <<"export", "truncate">>
           /\ S[m + 1] = <<"export", "upload">> => S[m] = <<"export", "scan">>
  BY DEF Script

LEMMA NextStep ==
  ASSUME RunTypes, NEW r \in Runs, Running(r), Advance(r), kind[r] = "full", Running(r)'
  PROVE  /\ Head(todo'[r]) = <<"export", "scan">> =>
              Head(todo[r]) = <<"export", "truncate">>
         /\ Head(todo'[r]) = <<"export", "upload">> =>
              Head(todo[r]) = <<"export", "scan">>
<1>1. PlaceInv(r) /\ Under(r)
  BY DEF RunTypes, Under, Running
<1>2. /\ todo'[r] = Tail(todo[r])
      /\ outcome'[r] = IF Len(todo[r]) = 1 THEN "green" ELSE outcome[r]
  BY DEF Advance, RunTypes
<1>3. todo[r] \in Seq(Step) /\ todo[r] # << >> /\ Len(todo[r]) # 1
  BY <1>1, <1>2 DEF PlaceInv, Running
<1>4. /\ Len(todo[r]) \in Nat /\ Len(todo[r]) > 1
      /\ Tail(todo[r]) \in Seq(Step) /\ Tail(todo[r]) # << >>
      /\ Tail(todo[r])[1] = todo[r][2]
  BY <1>3, TailOf
<1>5. Head(todo'[r]) = todo[r][2]
  BY <1>2, <1>4
<1>6. /\ Done(r) \in Nat /\ Done(r) + 1 \in 1 .. Len(Steps(r))
      /\ Head(todo[r]) = Steps(r)[Done(r) + 1]
  BY PresentStep
<1>7. todo[r][2] = Steps(r)[Done(r) + 2]
  BY <1>1, <1>4 DEF PlaceInv
<1>8. Steps(r) = Script["full"] /\ Len(Steps(r)) = 13
  BY FullScript DEF Steps
<1>9. Done(r) + 1 \in 1 .. 12 /\ (Done(r) + 1) + 1 = Done(r) + 2
  BY <1>4, <1>6, <1>8 DEF Done
<1> QED
  BY <1>5, <1>6, <1>7, <1>8, <1>9, FullScript

(* The next step of a run that is alone.                                   *)
LEMMA AdvanceAlone ==
  ASSUME FlowInvs, NEW r \in Runs, AloneInv(r), alone'[r] = alone[r],
         Running(r), Advance(r), kind' = kind,
         \A q \in Runs, j \in Jobs :
           job'[q][j] = job[q][j]
             \/ (q = r /\ job[q][j] = "none" /\ job'[q][j] = "submitted"),
         UNCHANGED <<output, input>>,
         kind[r] = "full" /\ Head(todo[r]) = <<"export", "truncate">> => tmp'["laptop"] = << >>,
         kind[r] = "full" /\ Head(todo[r]) = <<"export", "scan">> /\ tmp["laptop"] = << >> =>
           tmp'["laptop"] = <<r>>,
         IF Head(todo[r]) = <<"export", "upload">>
         THEN kind[r] = "full" => snapshot' = [by |-> r, scans |-> tmp["laptop"]]
         ELSE snapshot' = snapshot
  PROVE  AloneInv(r)'
<1>1. RunTypes
  BY DEF FlowInvs
<1>2. /\ \A step : Past(r, step)' <=> Past(r, step) \/ step = Head(todo[r])
      /\ \A q \in Runs : q # r => outcome'[q] = outcome[q] /\ todo'[q] = todo[q]
  BY <1>1, AdvancePlace
<1>3. Own(r)' = Own(r) /\ OwnFiles(r)' = OwnFiles(r)
  BY DEF Own, OwnFiles
<1> SUFFICES ASSUME alone[r], Running(r)'
             PROVE  kind'[r] = "full" /\ Solitary(r)' /\ OwnData(r)'
  BY DEF AloneInv
<1>4. kind[r] = "full" /\ Solitary(r) /\ OwnData(r)
  BY DEF AloneInv
<1>5. Solitary(r)'
  BY <1>2, <1>4 DEF Solitary, Running, JobRuns
<1>6. /\ Head(todo'[r]) = <<"export", "scan">> => tmp'["laptop"] = << >>
      /\ Head(todo'[r]) = <<"export", "upload">> => tmp'["laptop"] = <<r>>
  BY <1>1, <1>4, NextStep DEF OwnData
<1>7. Past(r, <<"export", "upload">>)' => snapshot' = Own(r)
  BY <1>2, <1>4 DEF OwnData, Own
<1>8. /\ job'[r]["stitch"] = job[r]["stitch"] \/ job'[r]["stitch"] = "submitted"
      /\ \/ job'[r]["audit"] = job[r]["audit"]
         \/ job[r]["audit"] = "none" /\ job'[r]["audit"] = "submitted"
  BY DEF Jobs
<1>9. OwnData(r)'
  BY <1>3, <1>4, <1>6, <1>7, <1>8 DEF OwnData, AuditRuns
<1> QED
  BY <1>4, <1>5, <1>9

(* An audit of a run that is alone follows its upload and its stitcher.    *)
LEMMA AuditAfterUpload ==
  ASSUME FlowInvs, NEW r \in Runs, Under(r), kind[r] = "full", job[r]["audit"] # "none"
  PROVE  /\ job[r]["stitch"] = "SUCCESS"
         /\ Past(r, <<"export", "upload">>)
<1>1. RunTypes /\ FlowInv(r) /\ PlaceInv(r) /\ RunsAll(r)
  BY DEF FlowInvs, RunTypes, RunsAll
<1>2. PICK m \in 1 .. Done(r) : Steps(r)[m] = <<"submit", "audit">>
  BY <1>1 DEF FlowInv, Past, Jobs
<1>3. Staged(Steps(r)) /\ Len(Steps(r)) = 13
  BY RunsStaged, FullScript DEF Steps
<1>4. Done(r) \in 0 .. 13 /\ m \in 1 .. Len(Steps(r))
  BY <1>1, <1>3 DEF PlaceInv
<1>5. PICK n \in 1 .. (m - 1) : Steps(r)[n] = <<"export", "upload">>
  BY <1>2, <1>3, <1>4 DEF Staged
<1>6. n \in 1 .. Done(r)
  BY <1>4, <1>5
<1> QED
  BY <1>1, <1>5, <1>6 DEF FlowInv, Past

(* A step of a job of a run that is alone.                                 *)
LEMMA JobAlone ==
  ASSUME FlowInvs, DataInv, NEW r \in Runs, NEW j \in Jobs, AloneInv(r), JobStep(r, j),
         alone[r], Running(r)
  PROVE  AloneInv(r)'
<1>1. /\ kind[r] = "full" /\ Under(r) /\ Solitary(r) /\ OwnData(r)
      /\ RunTypes /\ FlowTypes /\ FlowInv(r) /\ InputInv(r)
      /\ input = [q \in Runs |-> input[q]]
  BY DEF AloneInv, Under, Running, FlowInvs, DataInv
<1>2. UNCHANGED <<runVars, tmp, snapshot>>
  BY DEF JobStep, Begin, Overwrite, Commit, JobFails, dataVars
<1>3. Steps(r)' = Steps(r) /\ Done(r)' = Done(r)
  BY <1>2 DEF Steps, Done, runVars
<1>4. \A step : Past(r, step)' <=> Past(r, step)
  BY <1>3 DEF Past
<1>5. Own(r)' = Own(r) /\ OwnFiles(r)' = OwnFiles(r)
  BY DEF Own, OwnFiles
<1>6. PICK st : job' = [job EXCEPT ![r][j] = st]
  BY DEF JobStep, Begin, Overwrite, Commit, JobFails
<1>7. /\ \A q \in Runs : q # r => job'[q] = job[q]
      /\ \A g \in Jobs : job'[r][g] = IF g = j THEN st ELSE job[r][g]
  BY <1>1, <1>6 DEF FlowTypes
<1>8. Solitary(r)'
  BY <1>1, <1>2, <1>7 DEF Solitary, Running, JobRuns, runVars
<1> DEFINE JobData ==
      /\ job[r]["stitch"] = "overwriting" => output = {}
      /\ job[r]["stitch"] = "SUCCESS" /\ job[r]["audit"] \in {"none", "submitted", "running"} =>
           output = OwnFiles(r)
      /\ AuditRuns(r) => input[r] = [batch |-> OwnFiles(r), speed |-> Own(r)]
<1>9. JobData
  BY <1>1 DEF OwnData
<1>10. JobRuns(r, j) /\ (j = "stitch" => job[r]["audit"] = "none")
  <2>1. JobRuns(r, j)
    BY DEF JobStep, Begin, Overwrite, Commit, JobFails, JobRuns, Active
  <2> QED
    BY <1>1, <2>1 DEF JobRuns, Active, FlowInv
<1>11. j = "audit" => job[r]["stitch"] = "SUCCESS" /\ snapshot = Own(r)
  <2>1. job[r][j] # "none"
    BY <1>10 DEF JobRuns, Active
  <2> QED
    BY <1>1, <2>1, AuditAfterUpload DEF OwnData
<1>12. JobData'
  <2>1. CASE Begin(r, j)
    <3>1. job[r][j] = "submitted" /\ job' = [job EXCEPT ![r][j] = "running"] /\ output' = output
      BY <2>1 DEF Begin, dataVars
    <3>2. job'[r][j] = "running" /\ \A g \in Jobs : g # j => job'[r][g] = job[r][g]
      BY <1>1, <3>1 DEF FlowTypes
    <3>3. CASE j = "stitch"
      BY <1>10, <3>2, <3>3 DEF Jobs, AuditRuns
    <3>4. CASE j = "audit"
      <4>1. input' = [input EXCEPT ![r] = [batch |-> output, speed |-> snapshot]]
        BY <2>1, <3>4 DEF Begin
      <4>2. output = OwnFiles(r)
        BY <1>9, <1>11, <3>1, <3>4
      <4>3. input'[r] = [batch |-> OwnFiles(r), speed |-> Own(r)]
        BY <1>1, <1>11, <3>4, <4>1, <4>2
      <4> QED
        BY <1>5, <1>11, <3>1, <3>2, <3>4, <4>2, <4>3 DEF Jobs
    <3> QED
      BY <3>3, <3>4 DEF Jobs
  <2>2. CASE Overwrite(r, j)
    <3>1. /\ job' = [job EXCEPT ![r][j] = "overwriting"] /\ job[r][j] = "running"
          /\ input' = input /\ output' = {}
      BY <2>2 DEF Overwrite
    <3>2. job'[r][j] = "overwriting" /\ \A g \in Jobs : g # j => job'[r][g] = job[r][g]
      BY <1>1, <3>1 DEF FlowTypes
    <3>3. CASE j = "stitch"
      BY <1>10, <3>1, <3>2, <3>3 DEF Jobs, AuditRuns
    <3>4. CASE j = "audit"
      BY <1>5, <1>9, <1>11, <3>1, <3>2, <3>4 DEF Jobs, AuditRuns
    <3> QED
      BY <3>3, <3>4 DEF Jobs
  <2>3. CASE Commit(r, j)
    <3>1. /\ job' = [job EXCEPT ![r][j] = "SUCCESS"] /\ job[r][j] = "overwriting"
          /\ output' = output \cup {<<r, j>>}
          /\ j = "audit" => input[r].batch \subseteq output
      BY <2>3 DEF Commit, Computable
    <3>2. job'[r][j] = "SUCCESS" /\ \A g \in Jobs : g # j => job'[r][g] = job[r][g]
      BY <1>1, <3>1 DEF FlowTypes
    <3>3. CASE j = "stitch"
      <4>1. output' = OwnFiles(r)
        BY <1>9, <3>1, <3>3 DEF OwnFiles
      <4> QED
        BY <1>5, <1>10, <3>2, <3>3, <4>1 DEF Jobs, AuditRuns
    <3>4. CASE j = "audit"
      BY <1>1, <3>1, <3>4 DEF InputInv, AuditRuns
    <3> QED
      BY <3>3, <3>4 DEF Jobs
  <2>4. CASE JobFails(r, j)
    <3>1. job' = [job EXCEPT ![r][j] = "FAILED"] /\ output' = output
      BY <2>4 DEF JobFails, dataVars
    <3>2. job'[r][j] = "FAILED" /\ \A g \in Jobs : g # j => job'[r][g] = job[r][g]
      BY <1>1, <3>1 DEF FlowTypes
    <3>3. CASE j = "stitch"
      BY <1>10, <3>2, <3>3 DEF Jobs, AuditRuns
    <3>4. CASE j = "audit"
      BY <1>11, <3>2, <3>4 DEF Jobs, AuditRuns
    <3> QED
      BY <3>3, <3>4 DEF Jobs
  <2> QED
    BY <2>1, <2>2, <2>3, <2>4 DEF JobStep
<1>13. OwnData(r)'
  BY <1>1, <1>2, <1>4, <1>5, <1>12 DEF OwnData, runVars
<1> QED
  BY <1>1, <1>2, <1>8, <1>13 DEF AloneInv, runVars

LEMMA AloneInit == Init => AllAlone
  BY DEF Init, AllAlone, AloneInv

(* While a run is alone only it and its jobs take steps: what others do,   *)
(* and a teardown, they do when it no longer runs, or it is alone no more. *)
LEMMA AloneStep == AllAlone /\ OwnTypes /\ DataInv /\ FlowInvs /\ [Next]_vars => AllAlone'
<1> SUFFICES ASSUME AllAlone, OwnTypes, DataInv, FlowInvs, [Next]_vars PROVE AllAlone'
  OBVIOUS
<1>1. /\ RunTypes /\ FlowTypes /\ \A r \in Runs : FlowInv(r) /\ AloneInv(r) /\ InputInv(r)
  BY DEF FlowInvs, AllAlone, DataInv
(* A run that is over, or not alone.                                       *)
<1>2. ASSUME NEW r \in Runs, outcome'[r] = outcome[r],
             alone'[r] => alone[r], ~(alone[r] /\ Running(r))
      PROVE  AloneInv(r)'
  BY <1>2 DEF AloneInv, Running
(* Another run is not alone while a run or one of its jobs takes a step.   *)
<1>3. ASSUME NEW r \in Runs, NEW q \in Runs, q # r,
             Running(r) \/ \E j \in Jobs : JobRuns(r, j)
      PROVE  ~(alone[q] /\ Running(q))
  BY <1>1, <1>3 DEF AloneInv, Solitary
<1>4. ASSUME NEW r \in Runs, NEW k \in Kinds, Start(r, k) PROVE AllAlone'
  <2>1. /\ outcome'[r] = "running" /\ Done(r)' = 0
        /\ \A q \in Runs : q # r => outcome'[q] = outcome[q]
    BY <1>1, <1>4, StartPlace
  <2>2. /\ alone' = [q \in Runs |->
                       IF q = r THEN k = "full" /\ \A p \in Runs : ~Running(p) /\ \A j \in Jobs : ~JobRuns(p, j)
                       ELSE alone[q] /\ ~Running(q)]
        /\ job' = job
        /\ outcome[r] = "waiting"
    BY <1>4 DEF Start, jobVars
  <2>3. ASSUME NEW q \in Runs, q # r PROVE AloneInv(q)'
    <3>1. alone'[q] => ~Running(q)'
      BY <2>1, <2>2, <2>3 DEF Running
    <3> QED
      BY <3>1 DEF AloneInv
  <2>4. AloneInv(r)'
    <3> SUFFICES ASSUME alone'[r]
                 PROVE  kind'[r] = "full" /\ Solitary(r)' /\ OwnData(r)'
      BY DEF AloneInv
    <3>1. k = "full" /\ \A p \in Runs : ~Running(p) /\ \A j \in Jobs : ~JobRuns(p, j)
      BY <2>2
    <3>2. kind'[r] = "full" /\ todo'[r] = Script["full"]
      BY <1>1, <1>4, <3>1 DEF Start, RunTypes
    <3>3. \A step : ~Past(r, step)'
      BY <2>1 DEF Past
    <3>4. Solitary(r)'
      BY <2>1, <2>2, <3>1 DEF Solitary, Running, JobRuns
    <3>5. Head(todo'[r]) = <<"check", "deployed">>
      BY <3>2 DEF Script
    <3>6. \A j \in Jobs : job'[r][j] = "none"
      BY <1>1, <2>2 DEF FlowInv
    <3>7. OwnData(r)'
      BY <3>3, <3>5, <3>6 DEF OwnData, AuditRuns, Jobs
    <3> QED
      BY <3>2, <3>4, <3>7
  <2> QED
    BY <2>3, <2>4 DEF AllAlone
<1>5. ASSUME NEW r \in Runs, Running(r), Stop(r) PROVE AllAlone'
  <2>1. /\ outcome'[r] = "red" /\ alone' = alone
        /\ \A q \in Runs : q # r => outcome'[q] = outcome[q]
    BY <1>1, <1>5, StopPlace DEF Stop
  <2>2. \A q \in Runs : q # r => AloneInv(q)'
    BY <1>2, <1>3, <1>5, <2>1
  <2>3. AloneInv(r)'
    BY <2>1 DEF AloneInv, Running
  <2> QED
    BY <2>2, <2>3 DEF AllAlone
<1>6. ASSUME NEW r \in Runs,
             Check(r) \/ Simulate(r) \/ Truncate(r) \/ Scan(r) \/ Upload(r) \/ Remove(r)
               \/ Fetch(r) \/ StartJobRun(r) \/ Poll(r)
      PROVE  AllAlone'
  <2>1. Running(r) /\ Advance(r) /\ UNCHANGED <<kind, alone, output, input>>
    BY <1>6 DEF Check, Simulate, Truncate, Scan, Upload, Remove, Fetch, StartJobRun, Poll, At,
                dataVars, jobVars
  <2>2. \A q \in Runs, j \in Jobs :
          job'[q][j] = job[q][j]
            \/ (q = r /\ job[q][j] = "none" /\ job'[q][j] = "submitted")
    <3>1. CASE StartJobRun(r)
      <4>1. job' = [job EXCEPT ![r][Object(r)] = "submitted"]
        BY <3>1 DEF StartJobRun
      <4>2. Object(r) \in Jobs /\ job[r][Object(r)] = "none"
        BY <1>1, <3>1, FirstSubmission
      <4>3. \A q \in Runs, j \in Jobs :
              job'[q][j] = IF q = r /\ j = Object(r) THEN "submitted" ELSE job[q][j]
        BY <1>1, <4>1, <4>2 DEF FlowTypes
      <4> QED
        BY <4>2, <4>3
    <3>2. CASE ~StartJobRun(r)
      <4>1. job' = job
        BY <1>6, <3>2 DEF Check, Simulate, Truncate, Scan, Upload, Remove, Fetch, Poll, jobVars
      <4> QED
        BY <4>1
    <3> QED
      BY <3>1, <3>2
  <2>3. Head(todo[r]) \in Step
    BY <1>1, <2>1, PresentStep
  <2>4. kind[r] = "full" => Host(r) = "laptop"
    BY DEF Host
  <2>5. /\ kind[r] = "full" /\ Head(todo[r]) = <<"export", "truncate">> => tmp'["laptop"] = << >>
        /\ kind[r] = "full" /\ Head(todo[r]) = <<"export", "scan">> /\ tmp["laptop"] = << >> =>
             tmp'["laptop"] = <<r>>
    <3>1. ASSUME kind[r] = "full", Head(todo[r]) = <<"export", "truncate">>
          PROVE  tmp'["laptop"] = << >>
      <4>1. Truncate(r)
        BY <1>6, <3>1 DEF Check, Simulate, Scan, Upload, Remove, Fetch, StartJobRun, Poll, At, Object
      <4> QED
        BY <2>4, <3>1, <4>1 DEF Truncate, OwnTypes, Hosts
    <3>2. ASSUME kind[r] = "full", Head(todo[r]) = <<"export", "scan">>, tmp["laptop"] = << >>
          PROVE  tmp'["laptop"] = <<r>>
      <4>1. Scan(r)
        BY <1>6, <3>2 DEF Check, Simulate, Truncate, Upload, Remove, Fetch, StartJobRun, Poll, At, Object
      <4>2. Append(<< >>, r) = <<r>>
        OBVIOUS
      <4> QED
        BY <2>4, <3>2, <4>1, <4>2 DEF Scan, OwnTypes, Hosts
    <3> QED
      BY <3>1, <3>2
  <2>6. IF Head(todo[r]) = <<"export", "upload">>
        THEN kind[r] = "full" => snapshot' = [by |-> r, scans |-> tmp["laptop"]]
        ELSE snapshot' = snapshot
    <3>1. ASSUME Head(todo[r]) = <<"export", "upload">>
          PROVE  kind[r] = "full" => snapshot' = [by |-> r, scans |-> tmp["laptop"]]
      <4>1. Upload(r)
        BY <1>6, <3>1 DEF Check, Simulate, Truncate, Scan, Remove, Fetch, StartJobRun, Poll, At, Object
      <4> QED
        BY <2>4, <4>1 DEF Upload
    <3>2. ASSUME Head(todo[r]) # <<"export", "upload">> PROVE snapshot' = snapshot
      <4>1. ~Upload(r)
        BY <2>3, <3>2 DEF Upload, At, Object, Step
      <4> QED
        BY <1>6, <4>1 DEF Check, Simulate, Truncate, Scan, Remove, Fetch, StartJobRun, Poll, dataVars
    <3> QED
      BY <3>1, <3>2
  <2>7. AloneInv(r)'
    BY <1>1, <2>1, <2>2, <2>5, <2>6, AdvanceAlone
  <2>8. \A q \in Runs : q # r => outcome'[q] = outcome[q]
    BY <1>1, <2>1, AdvancePlace
  <2>9. \A q \in Runs : q # r => AloneInv(q)'
    BY <1>2, <1>3, <2>1, <2>8
  <2> QED
    BY <2>7, <2>9 DEF AllAlone
<1>7. ASSUME NEW r \in Runs, NEW j \in Jobs, JobStep(r, j) PROVE AllAlone'
  <2>1. UNCHANGED <<outcome, alone>>
    BY <1>7 DEF JobStep, Begin, Overwrite, Commit, JobFails, runVars
  <2>2. JobRuns(r, j)
    BY <1>7 DEF JobStep, Begin, Overwrite, Commit, JobFails, JobRuns, Active
  <2>3. \A q \in Runs : q # r => AloneInv(q)'
    BY <1>2, <1>3, <2>1, <2>2
  <2>4. AloneInv(r)'
    <3>1. CASE alone[r] /\ Running(r)
      BY <1>1, <1>7, <3>1, JobAlone
    <3>2. CASE ~(alone[r] /\ Running(r))
      BY <1>2, <2>1, <3>2
    <3> QED
      BY <3>1, <3>2
  <2> QED
    BY <2>3, <2>4 DEF AllAlone
<1>8. ASSUME Teardown PROVE AllAlone'
  <2>1. outcome' = outcome /\ \A r \in Runs : alone'[r] => ~Running(r)
    BY <1>8 DEF Teardown
  <2> QED
    BY <2>1 DEF AllAlone, AloneInv, Running
<1>9. ASSUME UNCHANGED <<kind, outcome, todo, alone, tmp, snapshot, output, job, input>>
      PROVE  AllAlone'
  <2>1. ASSUME NEW r \in Runs PROVE AloneInv(r)'
    <3>1. /\ Steps(r)' = Steps(r) /\ Done(r)' = Done(r)
          /\ Own(r)' = Own(r) /\ OwnFiles(r)' = OwnFiles(r)
          /\ Running(r)' <=> Running(r)
          /\ AuditRuns(r)' <=> AuditRuns(r)
          /\ Solitary(r)' <=> Solitary(r)
      BY <1>9 DEF Steps, Done, Own, OwnFiles, Running, AuditRuns, Solitary, JobRuns
    <3>2. \A step : Past(r, step)' <=> Past(r, step)
      BY <3>1 DEF Past
    <3>3. OwnData(r)' <=> OwnData(r)
      BY <1>9, <3>1, <3>2 DEF OwnData
    <3> QED
      BY <1>1, <1>9, <3>1, <3>3 DEF AloneInv
  <2> QED
    BY <2>1 DEF AllAlone
<1>10. ASSUME \/ \E r \in Runs : Query(r) \/ Answer(r)
              \/ Deploy
              \/ UNCHANGED vars
       PROVE  AllAlone'
  BY <1>9, <1>10 DEF Query, Answer, Deploy, vars, runVars, dataVars, jobVars
<1>11. ASSUME NEW r \in Runs, StepFails(r) \/ Interrupt(r) \/ TimesOut(r) PROVE AllAlone'
  BY <1>5, <1>11 DEF StepFails, Interrupt, TimesOut, At
<1> QED
  BY <1>4, <1>6, <1>7, <1>8, <1>10, <1>11 DEF Next, RunStep

PipelineInv == FlowInvs /\ OwnTypes /\ DataInv /\ AllAlone

LEMMA PipelineInvHolds == Spec => []PipelineInv
<1>1. Init => PipelineInv
  BY FlowInit, OwnTypesInit, DataInit, AloneInit DEF PipelineInv
<1>2. PipelineInv /\ [Next]_vars => PipelineInv'
  BY FlowStep, OwnTypesStep, DataStep, AloneStep DEF PipelineInv
<1> QED
  BY <1>1, <1>2, PTL DEF Spec

(* Every variable has its type, and a run is over when its steps are.      *)
THEOREM PipelineTyped == Spec => []TypeOK
<1>1. ASSUME PipelineInv PROVE TypeOK
  <2>1. output \subseteq Files
    BY <1>1 DEF PipelineInv, DataInv, OutputInv, Stitched, Files, Jobs
  <2>2. \A r \in Runs : input[r] = None \/ input[r] \in [batch : SUBSET Files, speed : Snapshot]
    BY <1>1 DEF PipelineInv, DataInv, InputInv, Listing
  <2>3. snapshot = None \/ snapshot \in Snapshot
    BY <1>1 DEF PipelineInv, DataInv
  <2> QED
    BY <1>1, <2>1, <2>2, <2>3
       DEF PipelineInv, FlowInvs, RunTypes, PlaceInv, FlowTypes, JobState, OwnTypes, TypeOK
<1> QED
  BY <1>1, PipelineInvHolds, PTL

(* An audit of a run that does all stages reads a snapshot and sessions    *)
(* that are not older than the run's own: others may replace or remove     *)
(* what it is about to read, but what it finds has come later, and it      *)
(* lists its inputs only once its own stitcher has committed.              *)
THEOREM NoStaleAudit == Spec => []AuditsAreFresh
<1>1. PipelineInv => AuditsAreFresh
  BY DEF PipelineInv, DataInv, InputInv, Fresh, AuditsAreFresh
<1> QED
  BY <1>1, PipelineInvHolds, PTL

(* The audit of a full run that nothing disturbs reads just what the run   *)
(* has made: the one scan in the snapshot is its own, because it empties   *)
(* the file it scans into, and so are the sessions, because their          *)
(* overwrite removes those of others and it waits for its stitcher before  *)
(* it goes on to the audit.                                                *)
THEOREM AloneReadsItsOwn == Spec => []AloneCoherent
<1>1. PipelineInv => AloneCoherent
  BY DEF PipelineInv, DataInv, InputInv, AllAlone, AloneInv, OwnData, Own, OwnFiles,
         AloneCoherent
<1> QED
  BY <1>1, PipelineInvHolds, PTL

Submits(r, j) == \E m \in 1 .. Len(Steps(r)) : Steps(r)[m] = <<"submit", j>>

(* A run that succeeds has all jobs of its script behind it.               *)
LEMMA GreenSubmissions ==
  ASSUME FlowInvs, NEW r \in Runs, outcome[r] = "green", NEW j \in Jobs, Submits(r, j)
  PROVE  job[r][j] = "SUCCESS"
<1>1. Past(r, <<"submit", j>>)
  BY GreenJobs DEF Past, Submits
<1> QED
  BY <1>1, GreenJobs DEF FlowInvs, FlowInv, Under

(* No audit succeeds, whatever the jobs are given: it writes to the path   *)
(* that its sessions are read from (submit_spark_job.sh passes one output  *)
(* path for both jobs), and its overwrite removes them before it has read  *)
(* them. So no nightly run and no full one does, in any order of events.   *)
THEOREM NoAuditSucceeds ==
  Spec => [](\A r \in Runs : /\ job[r]["audit"] # "SUCCESS"
                             /\ outcome[r] = "green" => ~Submits(r, "audit"))
<1>1. ASSUME PipelineInv, NEW r \in Runs
      PROVE  /\ job[r]["audit"] # "SUCCESS"
             /\ outcome[r] = "green" => ~Submits(r, "audit")
  <2>1. FlowInvs /\ job[r]["audit"] # "SUCCESS"
    BY <1>1 DEF PipelineInv, DataInv, InputInv
  <2> QED
    BY <2>1, GreenSubmissions DEF Jobs
<1>2. PipelineInv => \A r \in Runs : /\ job[r]["audit"] # "SUCCESS"
                                     /\ outcome[r] = "green" => ~Submits(r, "audit")
  BY <1>1
<1> QED
  BY <1>2, PipelineInvHolds, PTL

----------------------------------------------------------------------------
(* A job that is not given what it needs                                   *)

Stuck(j) == \A r \in Runs : job[r][j] \notin {"running", "overwriting", "SUCCESS"}

LEMMA StuckStep ==
  ASSUME NEW j \in Jobs, ~(Needs[j] \subseteq Provided), FlowTypes, Stuck(j), [Next]_vars
  PROVE  Stuck(j)'
<1>1. ASSUME job' = job PROVE Stuck(j)'
  BY <1>1 DEF Stuck
<1>2. ASSUME NEW r \in Runs, NEW i, NEW state, job' = [job EXCEPT ![r][i] = state],
             i # j \/ state \notin {"running", "overwriting", "SUCCESS"}
      PROVE  Stuck(j)'
  BY <1>2 DEF Stuck, FlowTypes
<1>3. ASSUME NEW r \in Runs, NEW i \in Jobs, JobStep(r, i) PROVE Stuck(j)'
  <2>1. CASE Begin(r, i)
    BY <1>2, <2>1 DEF Begin
  <2>2. CASE Overwrite(r, i)
    <3>1. i # j
      BY <2>2 DEF Overwrite, Stuck
    <3> QED
      BY <1>2, <2>2, <3>1 DEF Overwrite
  <2>3. CASE Commit(r, i)
    <3>1. i # j
      BY <2>3 DEF Commit, Stuck
    <3> QED
      BY <1>2, <2>3, <3>1 DEF Commit
  <2>4. CASE JobFails(r, i)
    BY <1>2, <2>4 DEF JobFails
  <2> QED
    BY <1>3, <2>1, <2>2, <2>3, <2>4 DEF JobStep
<1>4. ASSUME NEW r \in Runs, StartJobRun(r) PROVE Stuck(j)'
  <2>1. job' = [job EXCEPT ![r][Object(r)] = "submitted"]
    BY <1>4 DEF StartJobRun
  <2> QED
    BY <1>2, <2>1
<1>5. ASSUME Teardown PROVE Stuck(j)'
  <2>1. \A r \in Runs : job'[r][j] \in {"CANCELLED", job[r][j]}
    BY <1>5 DEF Teardown
  <2> QED
    BY <2>1 DEF Stuck
<1>6. ASSUME NEW r \in Runs,
             \/ Check(r) \/ Simulate(r) \/ Truncate(r) \/ Scan(r) \/ Upload(r) \/ Remove(r)
             \/ Poll(r) \/ Query(r) \/ Answer(r) \/ Fetch(r)
             \/ StepFails(r) \/ Interrupt(r) \/ TimesOut(r)
      PROVE  Stuck(j)'
  BY <1>1, <1>6
  DEF Check, Simulate, Truncate, Scan, Upload, Remove, Poll, Query, Answer, Fetch,
      StepFails, Interrupt, TimesOut, Stop, jobVars
<1>7. ASSUME NEW r \in Runs, NEW k \in Kinds, Start(r, k) PROVE Stuck(j)'
  BY <1>1, <1>7 DEF Start, jobVars
<1>8. ASSUME Deploy \/ UNCHANGED vars PROVE Stuck(j)'
  BY <1>1, <1>8 DEF Deploy, vars, jobVars
<1> QED
  BY <1>3, <1>4, <1>5, <1>6, <1>7, <1>8 DEF Next, RunStep

(* A run whose script submits a job that is not given all it imports and   *)
(* requires does not end green, in whatever order things happen: a script  *)
(* goes past a submission only after it has polled SUCCESS. With what      *)
(* submit_spark_job.sh passes this is so of all runs that submit a job.    *)
THEOREM NoGreenWithoutInputs ==
  ASSUME NEW j \in Jobs, ~(Needs[j] \subseteq Provided)
  PROVE  Spec => [](\A r \in Runs : outcome[r] = "green" => ~Submits(r, j))
<1>1. Init => Stuck(j)
  BY DEF Init, Stuck
<1>2. PipelineInv /\ Stuck(j) /\ [Next]_vars => Stuck(j)'
  BY StuckStep DEF PipelineInv, FlowInvs
<1>3. ASSUME PipelineInv, Stuck(j), NEW r \in Runs, outcome[r] = "green", Submits(r, j)
      PROVE  FALSE
  BY <1>3, GreenSubmissions DEF PipelineInv, Stuck
<1>4. PipelineInv /\ Stuck(j) => \A r \in Runs : outcome[r] = "green" => ~Submits(r, j)
  BY <1>3
<1> QED
  BY <1>1, <1>2, <1>4, PipelineInvHolds, PTL DEF Spec
=============================================================================
