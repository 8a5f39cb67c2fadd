----------------------------- MODULE Simulator -----------------------------
(***************************************************************************)
(* EventSimulator.run with the late-arrival injector and the metrics: the  *)
(* main thread reads events, holds some of them back, publishes in batches *)
(* and counts; a background thread publishes the counters to CloudWatch.   *)
(* Events are numbered in the order of the feed.                           *)
(*                                                                         *)
(* One call of publish_batch is one action here, with the outcomes that    *)
(* Publication allows it (no event of this feed is too large for Kinesis); *)
(* KinesisProducer models what happens inside and implements Publication.  *)
(***************************************************************************)
EXTENDS Integers, Sequences, FiniteSets, Functions

CONSTANTS
  NumEvents,   \* how many events the feed has
  BatchLimit,  \* 500, at which a batch is published
  Delays,      \* min_delay .. max_delay of the injector, in ticks
  Duration,    \* --duration, in ticks
  MaxClock,    \* bound on the clock
  MaxPoints    \* bound on the data points in CloudWatch when the thread wakes

ASSUME SimulatorAssumption ==
  /\ NumEvents \in Nat
  /\ BatchLimit \in Nat \ {0}
  /\ Delays \subseteq Nat
  /\ Duration \in Nat
  /\ MaxClock \in Nat
  /\ MaxPoints \in Nat

Ids == 1 .. NumEvents

VARIABLES
  clock,        \* time.monotonic()
  pc,           \* where run() stands
  read,         \* how many events have been read
  batch,        \* the batch being filled, in order
  held,         \* _held_events, without their release times
  due,          \* history: the release time of each late arrival, else none
  flushed,      \* history: when flush_ready last ran
  handed,       \* the events given to the producer, in order
  accepted,     \* history: those Kinesis took
  refused,      \* history: those given up after the retries
  result,       \* publish_batch's summary of the last batch
  counters,     \* SimulatorMetrics' counters
  stopped,      \* its stop event
  bg,           \* where the background thread stands
  snapshot,     \* per thread: the counters read under the lock
  cloud         \* the data points CloudWatch has

mainVars == <<read, batch, held, due, flushed, handed, accepted, refused, result>>
metricVars == <<counters, stopped, bg, snapshot, cloud>>
vars == <<clock, pc, mainVars, metricVars>>

Counters == [sent : Nat, failed : Nat, late : Nat]
Zero == [sent |-> 0, failed |-> 0, late |-> 0]
NotDue == -1   \* due, of an event that is not held back

----------------------------------------------------------------------------
Init ==
  /\ clock = 0
  /\ pc = "loop"
  /\ read = 0
  /\ batch = << >>
  /\ held = {}
  /\ due = [e \in Ids |-> NotDue]
  /\ flushed = 0
  /\ handed = << >>
  /\ accepted = {}
  /\ refused = {}
  /\ result = [sent |-> 0, failed |-> 0]
  /\ counters = Zero
  /\ stopped = FALSE
  /\ bg = "wait"
  /\ snapshot = [t \in {"main", "bg"} |-> Zero]
  /\ cloud = {}

Ready(events, release) == {e \in events : release[e] <= clock}

(* The queue of the injector keeps the order of the feed.                  *)
InOrder(events) ==
  {listing \in Bijection(1 .. Cardinality(events), events) :
     \A i, j \in DOMAIN listing : i < j => listing[i] < listing[j]}

(* Mutant of FlushReady: what is released stays in the queue.              *)
FlushKeeping(kept, events, release) ==
  /\ \E ready \in InOrder(Ready(events, release)) : batch' = kept \o ready
  /\ held' = events
  /\ flushed' = clock

(* flush_ready: the events that are due leave the queue in its order.      *)
FlushReady(kept, events, release) ==
  /\ \E ready \in InOrder(Ready(events, release)) : batch' = kept \o ready
  /\ held' = events \ Ready(events, release)
  /\ flushed' = clock

(* Mutant of Read: the limit is checked one event too late.                *)
ReadOneMore ==
  /\ pc = "loop"
  /\ read <= NumEvents
  /\ clock < Duration
  /\ read' = read + 1
  /\ FlushReady(Append(batch, read'), held, due)
  /\ pc' = IF Len(batch') >= BatchLimit THEN "publish" ELSE "loop"
  /\ UNCHANGED <<clock, due, handed, accepted, refused, result, metricVars>>

(* Mutant of Read: the event goes to the front of the batch.               *)
ReadInFront ==
  /\ pc = "loop"
  /\ read < NumEvents
  /\ clock < Duration
  /\ read' = read + 1
  /\ FlushReady(<<read'>> \o batch, held, due)
  /\ pc' = IF Len(batch') >= BatchLimit THEN "publish" ELSE "loop"
  /\ UNCHANGED <<clock, due, handed, accepted, refused, result, metricVars>>

(* One turn of the loop: maybe_delay keeps the event back or passes it on. *)
Read ==
  /\ pc = "loop"
  /\ read < NumEvents
  /\ clock < Duration
  /\ read' = read + 1
  /\ \/ /\ FlushReady(Append(batch, read'), held, due)
        /\ UNCHANGED due
     \/ \E delay \in Delays :
          /\ due' = [due EXCEPT ![read'] = clock + delay]
          /\ FlushReady(batch, held \cup {read'}, due')
  /\ pc' = IF Len(batch') >= BatchLimit THEN "publish" ELSE "loop"
  /\ UNCHANGED <<clock, handed, accepted, refused, result, metricVars>>

(* Mutant of EndLoop: the last batch is forgotten.                         *)
EndAtOnce ==
  /\ pc = "loop"
  /\ read = NumEvents \/ clock >= Duration
  /\ pc' = "stop"
  /\ UNCHANGED <<clock, mainVars, metricVars>>

(* The feed is at its end, or the time is up.                              *)
EndLoop ==
  /\ pc = "loop"
  /\ read = NumEvents \/ clock >= Duration
  /\ pc' = IF batch = << >> THEN "stop" ELSE "publishRest"
  /\ UNCHANGED <<clock, mainVars, metricVars>>

(* Mutant of Publish: the batch is published and goes on growing.          *)
PublishKeepingBatch ==
  /\ pc \in {"publish", "publishRest"}
  /\ \E ok \in SUBSET Range(batch) :
       /\ accepted' = accepted \cup ok
       /\ refused' = refused \cup (Range(batch) \ ok)
       /\ result' = [sent |-> Cardinality(ok),
                     failed |-> Len(batch) - Cardinality(ok)]
  /\ handed' = handed \o batch
  /\ pc' = IF pc = "publish" THEN "countSent" ELSE "countRest"
  /\ UNCHANGED <<clock, read, batch, held, due, flushed, metricVars>>

Publish ==
  /\ pc \in {"publish", "publishRest"}
  /\ \E ok \in SUBSET Range(batch) :
       /\ accepted' = accepted \cup ok
       /\ refused' = refused \cup (Range(batch) \ ok)
       /\ result' = [sent |-> Cardinality(ok),
                     failed |-> Len(batch) - Cardinality(ok)]
  /\ handed' = handed \o batch
  /\ batch' = << >>
  /\ pc' = IF pc = "publish" THEN "countSent" ELSE "countRest"
  /\ UNCHANGED <<clock, read, held, due, flushed, metricVars>>

(* An error other than throttling leaves run(): nothing is counted, though *)
(* chunks before the one that failed have been delivered.                  *)
PublishRaises ==
  /\ pc \in {"publish", "publishRest"}
  /\ \E ok \in SUBSET Range(batch) : accepted' = accepted \cup ok
  /\ pc' = "raised"
  /\ UNCHANGED <<clock, read, batch, held, due, flushed, handed, refused, result>>
  /\ UNCHANGED metricVars

(* Mutant of CountSent: the counter is set, not increased.                 *)
SetSent ==
  /\ pc \in {"countSent", "countRest"}
  /\ counters' = [counters EXCEPT !.sent = result.sent]
  /\ pc' = IF pc = "countSent" THEN "countFailed" ELSE "stop"
  /\ UNCHANGED <<clock, mainVars, stopped, bg, snapshot, cloud>>

(* record_sent; after the last batch there is nothing but record_sent.     *)
CountSent ==
  /\ pc \in {"countSent", "countRest"}
  /\ counters' = [counters EXCEPT !.sent = @ + result.sent]
  /\ pc' = IF pc = "countSent" THEN "countFailed" ELSE "stop"
  /\ UNCHANGED <<clock, mainVars, stopped, bg, snapshot, cloud>>

(* Mutant of CountFailed: the counter is set, not increased.               *)
SetFailed ==
  /\ pc = "countFailed"
  /\ counters' = [counters EXCEPT !.failed = result.failed]
  /\ pc' = "setPending"
  /\ UNCHANGED <<clock, mainVars, stopped, bg, snapshot, cloud>>

CountFailed ==
  /\ pc = "countFailed"
  /\ counters' = [counters EXCEPT !.failed = @ + result.failed]
  /\ pc' = "setPending"
  /\ UNCHANGED <<clock, mainVars, stopped, bg, snapshot, cloud>>

SetPending ==
  /\ pc = "setPending"
  /\ counters' = [counters EXCEPT !.late = Cardinality(held)]
  /\ pc' = "loop"
  /\ UNCHANGED <<clock, mainVars, stopped, bg, snapshot, cloud>>

(* stop() tells the background thread to end, and does not wait for it.    *)
Stop ==
  /\ pc = "stop"
  /\ stopped' = TRUE
  /\ pc' = "flush"
  /\ UNCHANGED <<clock, mainVars, counters, bg, snapshot, cloud>>

(* _publish reads the counters under the lock ...                          *)
Snapshot(thread) == snapshot' = [snapshot EXCEPT ![thread] = counters]

(* ... and puts them after releasing it, with the time of then.            *)
Put(thread) == cloud' = cloud \cup {[at |-> clock, value |-> snapshot[thread]]}

FlushSnapshot ==
  /\ pc = "flush"
  /\ Snapshot("main")
  /\ pc' = "flushPut"
  /\ UNCHANGED <<clock, mainVars, counters, stopped, bg, cloud>>

FlushPut ==
  /\ pc = "flushPut"
  /\ Put("main")
  /\ pc' = "returned"
  /\ UNCHANGED <<clock, mainVars, counters, stopped, bg, snapshot>>

(* A ClientError is swallowed, any other error of botocore is not.         *)
FlushFails ==
  /\ pc = "flushPut"
  /\ pc' \in {"returned", "raisedByMetrics"}
  /\ UNCHANGED <<clock, mainVars, metricVars>>

(* The background thread wakes up when its interval is over.               *)
BgWake ==
  /\ bg = "wait"
  /\ ~stopped
  /\ Cardinality(cloud) < MaxPoints
  /\ bg' = "awake"
  /\ UNCHANGED <<clock, pc, mainVars, counters, stopped, snapshot, cloud>>

BgSnapshot ==
  /\ bg = "awake"
  /\ Snapshot("bg")
  /\ bg' = "put"
  /\ UNCHANGED <<clock, pc, mainVars, counters, stopped, cloud>>

BgPut ==
  /\ bg = "put"
  /\ Put("bg")
  /\ bg' = "wait"
  /\ UNCHANGED <<clock, pc, mainVars, counters, stopped, snapshot>>

BgFails ==
  /\ bg = "put"
  /\ bg' \in {"wait", "ended"}
  /\ UNCHANGED <<clock, pc, mainVars, counters, stopped, snapshot, cloud>>

(* It is stopped, or killed with the process: it is a daemon.              *)
BgEnds ==
  /\ \/ bg = "wait" /\ stopped
     \/ bg # "ended" /\ pc \in {"returned", "raised", "raisedByMetrics"}
  /\ bg' = "ended"
  /\ UNCHANGED <<clock, pc, mainVars, counters, stopped, snapshot, cloud>>

Tick ==
  /\ clock < MaxClock
  /\ clock' = clock + 1
  /\ UNCHANGED <<pc, mainVars, metricVars>>

Main ==
  \/ Read
  \/ EndLoop
  \/ Publish
  \/ PublishRaises
  \/ CountSent
  \/ CountFailed
  \/ SetPending
  \/ Stop
  \/ FlushSnapshot
  \/ FlushPut
  \/ FlushFails

Background == BgWake \/ BgSnapshot \/ BgPut \/ BgFails \/ BgEnds

Next == Main \/ Background \/ Tick

Spec == Init /\ [][Next]_vars

----------------------------------------------------------------------------
(* Properties                                                              *)

(* Every variable has its type.                                            *)
TypeOK ==
  /\ clock \in Nat
  /\ pc \in {"loop", "publish", "publishRest", "countSent", "countRest",
             "countFailed", "setPending", "stop", "flush", "flushPut",
             "returned", "raised", "raisedByMetrics"}
  /\ read \in 0 .. NumEvents
  /\ batch \in Seq(Ids)
  /\ held \subseteq Ids
  /\ due \in [Ids -> Nat \cup {NotDue}]
  /\ flushed \in Nat
  /\ handed \in Seq(Ids)
  /\ accepted \subseteq Ids
  /\ refused \subseteq Ids
  /\ result \in [sent : Nat, failed : Nat]
  /\ counters \in Counters
  /\ stopped \in BOOLEAN
  /\ bg \in {"wait", "awake", "put", "ended"}
  /\ snapshot \in [{"main", "bg"} -> Counters]
  /\ cloud \subseteq [at : Nat, value : Counters]

Sent == handed \o batch

(* Every event read is in exactly one place, once: with the producer, in   *)
(* the batch or held back.                                                 *)
EachInOnePlace ==
  /\ IsInjective(Sent)
  /\ Range(Sent) \cap held = {}
  /\ Range(Sent) \cup held = 1 .. read

(* Holding events back does not disturb the others: the on-time events     *)
(* reach the producer in the order of the feed.                            *)
OnTimeInOrder ==
  \A i, j \in DOMAIN Sent :
    i < j /\ due[Sent[i]] = NotDue /\ due[Sent[j]] = NotDue => Sent[i] < Sent[j]

(* An event that is held back is released by the first flush at or after   *)
(* its release time, and by none before.                                   *)
ReleasedWhenDue ==
  \A e \in Ids : due[e] # NotDue => (e \in held <=> due[e] > flushed)

(* When the run returns, what it read is accounted for: Kinesis took it or *)
(* it was given up after the retries, but for late arrivals whose time had *)
(* not come at the last flush.  These alone are dropped.                   *)
OnlyEarlyOnesDropped ==
  pc = "returned" =>
    /\ accepted \cap refused = {}
    /\ (1 .. read) \ (accepted \cup refused) = {e \in Ids : due[e] > flushed}

(* Between two batches the counters agree with what the producer has said. *)
CountersAgree ==
  pc = "loop" =>
    counters.sent = Cardinality(accepted) /\ counters.failed = Cardinality(refused)

(* The totals in CloudWatch never go back while the simulator runs: the    *)
(* background thread puts what it read, however long after.                *)
TotalsAdvance ==
  ~stopped =>
    \A p, q \in cloud :
      p.at < q.at => /\ p.value.sent <= q.value.sent
                     /\ p.value.failed <= q.value.failed

(* What the repository says and the code does not do.                      *)

(* metrics.py: record_failed counts what failed, until the final flush.    *)
FinalCountsAgree ==
  pc = "returned" =>
    counters.sent = Cardinality(accepted) /\ counters.failed = Cardinality(refused)

(* late_arrival_injector.py: what is held back is released.                *)
HeldReleased == pc = "returned" => held = {}

(* metrics.py: stop() stops the background publisher and does a final      *)
(* flush.  Once that is in CloudWatch no newer data point tells less.      *)
FinalFlushIsLast ==
  \A p, q \in cloud :
    pc = "returned" /\ p.value = snapshot["main"] /\ q.at > p.at
      => q.value.sent >= p.value.sent

(* metrics.py: publishing metrics never crashes the simulator.             *)
MetricsNeverCrash == pc # "raisedByMetrics"
=============================================================================
