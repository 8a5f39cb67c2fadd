# A TLA+ model of the realtime clickstream pipeline

The program replays a clickstream into Kinesis, sessionizes it within seconds
in a Lambda function (the *speed layer*, a DynamoDB table of sessions), archives
every event in S3, and once a day recomputes the sessions from the archive with
Spark (the *batch layer*) and audits the speed layer against it. This directory
models the parts that have state, checks them with TLC on small instances, and
proves the most important results with TLAPS for all instances.

Paths below are relative to the repository. Contents:

1. [The system](#1-the-system) – inventory: state, operations, interactions, hard behaviours, properties
2. [The modules](#2-the-modules) – which module models what, and how
3. [What is checked](#3-what-is-checked) – runs, bounds, fairness, mutants
4. [What is proved](#4-what-is-proved)
5. [Where code and documents disagree](#5-where-code-and-documents-disagree)
6. [What is not modelled](#6-what-is-not-modelled)
7. [Plan](#7-plan)

## 1. The system

```
 CSV feed ─> EventSimulator ──(LateArrivalInjector, SimulatorMetrics)
                  │ KinesisProducer.publish_batch
                  v
          Kinesis stream ── event source mapping ──> Lambda sessionizer ──┬─> DynamoDB sessions (TTL)
                  ^                   │ gives up                          └─> S3 events/, late-arrivals/
                  │                   v                                            │
             dlq_handler <──── SQS dead-letter queue                               v
                                                            session_stitcher (Spark) ─> corrected sessions
          export_dynamodb_snapshot (table -> S3) ─────────> late_arrival_handler (Spark) ─> restatement audit
```

| Component | State | Operations | Talks to | Hard behaviours | Correct when |
|---|---|---|---|---|---|
| Event simulator (`src/event_simulator/simulator.py`) | the batch being filled, how far the feed is read | one turn of `run()`, publish, stop | injector, producer, metrics | late events merged into a running batch; the end of the run | every event read is with the producer, in the batch or held back, exactly once; on-time events keep their order |
| Late-arrival injector (`late_arrival_injector.py`) | held events with release times | `maybe_delay`, `flush_ready`, `pending_count` | called by the simulator | the queue is rebuilt on every event | released by the first flush at or after the release time |
| Metrics (`metrics.py`) | counters under a lock, the stop event | `record_*`, `set_late_pending`, `_publish` from two threads, `stop` | CloudWatch | snapshot under the lock, put after it; the thread is not joined | counters agree with the producer; totals never go back |
| Kinesis producer (`kinesis_producer.py`) | the chunk in hand, its attempt, the counts | `publish_batch` | Kinesis | partial failures, throttling, lost replies, other errors | counts are right, nothing is sent twice needlessly, chunks keep their order, it ends |
| Event source mapping (`terraform/modules/lambda/main.tf:124-145`) | per shard: position, batches with attempts | poll, invoke, bisect, retry, give up | Lambda, SQS | order per shard under bisection; poison records | no record lost or handled twice, shards in order, everything settled in the end |
| Sessionizer (`src/lambda/sessionizer/handler.py`, `session_state.py`, `cart_calculator.py`) | per invocation: the events, `current_state`, the cart total | decode, archive, hold late arrivals, per session get / apply / close / put | S3, DynamoDB | failure or kill between any two calls; at-least-once delivery; out-of-order events | each on-time event counted once, in order, in its session; all events archived |
| Session table (`src/lambda/shared/dynamodb_client.py`, `terraform/modules/dynamodb/main.tf`) | an item per session id | `get_session`, `put_session`, TTL deletion | – | unconditional put, eventually consistent get, lagging TTL | an item summarises a run of its session's events; it only grows, closes or expires, but for an update a stale read may lose |
| Archive (`src/lambda/shared/utils.py`) | objects named by second and size | `write_events_to_s3` | S3 | equal names replace each other; retries write again | what the table shows is in the archive |
| Dead-letter queue and handler (`dlq_handler.py`, `dlq.tf`) | messages, visibility | `list_messages`, `reprocess` (dry or live) | SQS, Kinesis | operators side by side, expiring visibility, deaths half-way | lost only if refused, replayed once per receipt and lost reply, nothing skipped that could be parsed |
| Session stitcher (`src/spark/session_stitcher.py`) | corrected sessions per day | load, `sessionize`, `aggregate_sessions`, overwrite | S3 | window functions at ties and boundaries; a job that dies has removed the output | a day's sessions are the split of each user's events at the gaps |
| Late-arrival handler (`late_arrival_handler.py`), snapshot export (`scripts/export_dynamodb_snapshot.sh`) | audit per day, snapshot per day | join, classify, summarise, overwrite | S3 | inputs of different moments; NULLs | no event is hidden by a verdict; a session that came in order is restated in its cart total at most |
| Pipeline scripts and workflows (`scripts/`, `.github/workflows/`) | per run: the step it is at, the ids it found in its environment; a temporary file per machine | export, submit a job and poll it, simulate, verify; teardown and deployment | all jobs | runs side by side, jobs that outlive their script, polling without limit, a teardown half-way, modules and arguments a job is not given | a stage begins when the one before has succeeded; an audit's inputs are not older than its run's; a run ends |
| Athena queries of the dashboard (`src/dashboard/accuracy_latency_dashboard.py`) | the query under way | start, wait, fetch, time out | Athena, S3 | a query without an answer, columns and buckets that are not those of the jobs | a query ends or times out |

Forty hazards of this code, each at its line and with the properties that would
catch it, are listed in `PROJECT.json`.

## 2. The modules

| Module | Models | Extends |
|---|---|---|
| `SessionLogic` | the pure part: the inactivity rule, the state update, the cart sum, the stored item | – |
| `Sessionizer` | stream, event source mapping, handler, table, archive | `SessionLogic` |
| `SpeedLayer` | the abstract specification of the session table, implemented by `Sessionizer` | `SessionLogic` |
| `SessionizerProofs` | theorems: types, the event source mapping, counting | `Sessionizer` |
| `SessionizerStoreProofs` | theorems: archive, expiry, sessions in event order | `SessionizerProofs` |
| `SessionizerRefinementProofs` | theorem: the refinement of `SpeedLayer` | `SessionizerStoreProofs` |
| `KinesisProducer`, `KinesisProducerProofs` | one call of `publish_batch`, and its theorems | – |
| `Publication` | the abstract specification of such a call, implemented by `KinesisProducer` and relied on by `Simulator` | – |
| `Simulator`, `SimulatorProofs` | `run()`, injector and both threads of the metrics, and theorems | – |
| `DlqHandler`, `DlqHandlerProofs` | operators running `dlq_handler.py` against the queue, and theorems | – |
| `BatchReconciler`, `BatchReconcilerProofs` | archive by day, stitcher, export, audit, and theorems | – |
| `Pipeline`, `PipelineProofs` | the scripts and workflows around the batch layer, with their jobs and the teardown, and theorems | – |
| `MC*` | constants for TLC: feeds, users, shards, messages | their module |

Definitions keep the names of the source where they can; `PROJECT.json` maps
every definition to its lines. Operators whose comment begins with *Mutant of*
are no part of a specification: see [3.4](#34-mutants).

### 2.1 SessionLogic and Sessionizer

The dict `current_state` and the DynamoDB item are the same record (`State`);
`{}` and *no item* are `EmptyState`. `log` is a history field: the positions of
the events that were folded in. Times are numbers that compare as the strings
of the feed do. Whether `datetime.fromisoformat` can read them is the constant
`IsoTimes`: the code takes an unreadable time for *no boundary*
(`session_state.py:62-69`), and the REES46 feed's `... UTC` is unreadable.

| Code | Model |
|---|---|
| event source mapping takes up to `batch_size` records | `Poll` |
| `lambda_handler` up to the first write, `handler.py:60-81` | `Invoke`; `DecodeRaises` when a payload is JSON but no object, so that `event["_kinesis_sequence"] = ...` raises a `TypeError` nobody catches |
| `write_events_to_s3` of all events, of late ones | `WriteRaw`, `WriteLate`; `WriteFails` |
| `_group_by_session` | sessions in the order of their first record (`IsFirstOfGroup`), events by event time, stable (`IsNext`) |
| `get_session` | `Get`; `GetFails` |
| one turn of the loop, `handler.py:169-181` | `Apply` without a boundary, `Close` with one (which puts the closed session under the same key) |
| `handler.py:183-187` | `FinalPut`; `PutFails` at either put: logged and swallowed |
| the handler returns | `Return` |
| timeout or death of the sandbox | `Crash`, at any point |
| bisection, retry, on-failure destination | `FailBatch` = `Bisect`, `RetryWhole` or `GiveUp` |

A handler step is one action per call to a service, with everything local
between two calls folded into one of them. The only shared state is the table
and the archive; the event source mapping runs one invocation per shard.

Choices that abstract something:

* `Bisect` leaves open whether a split counts as an attempt.
* Stale reads: `get_item` is eventually consistent. With `StaleReads`, a read
  may return the item before its last write (variable `older`): one version is
  the bound on the staleness.
* An object's name is the second of its write and its number of events
  (`SameName`); a put of the same name replaces the object. The model keeps what
  was replaced, no longer `live`, so that `Archived` can say what became of it.
* The records of a user reach the stream in any order (`Produce`): a feed is
  sorted, but refused records are sent again behind others
  (`kinesis_producer.py:100-103`), which `MCKinesisProducer_x_order.cfg`
  exhibits.
* `price` is 0 or 1, which tells sums apart; rounding to cents is left out.
* `tumbling_window_in_seconds = 5` adds empty invocations at the end of a
  window; the handler returns at once for them.
* The client's own retries (`dynamodb_client.py:40-47, 78-89`) come out as
  success or failure: neither call changes anything when it fails.
* `update_cart_total` and `get_conversion_value` are called by nothing.

`InEventOrder` is therefore stated relative to the stream: two events of a
stored session stand the wrong way round only if the shard had them so, in
different batches. `Archived` is stated relative to the names: an event leaves
the archive only to an object of the same second and size, however many writes
fall in one second. `EventuallyReflected` looks for the event itself in the log
of its session's item, so that a later event does not stand in for it.

### 2.2 SpeedLayer

What the table promises a reader, without batches, shards or invocations: an
item is the summary of a run of on-time events of its session, no two
neighbours further apart than the timeout; it grows (`Extend`), is closed
because a later event of the session is too far off (`Close`), makes room for
the next session under the same key (`Begin`) or expires (`Expire`). Two faults
weaken the promise, and the specification says by how much: where reads may be
stale, an item may grow from what it was one write before (`Versions`), so that
the last update is lost, and no other; where invocations are killed, a run may
hold an event more than once, and is still a run of the session's own events
with all fields to match.
`Sessionizer` declares `SL == INSTANCE SpeedLayer`, with `stream`, `table`,
`older` and `now` mapped to themselves and everything else forgotten, and
`ImplementsSpeedLayer == SL!Spec` is checked as a property, with S3 and DynamoDB
failing at will and with kills. It needs one assumption: no session id is shared
by shards, whose invocations would overwrite each other's events without any
fault.

### 2.3 KinesisProducer

One call of `publish_batch`. Events are numbered; `records` is the set in the
current `put_records`. The recursion of `_put_records_with_retry` is the
variable `attempt`. `stream` records what each call delivered; within a call
the order is that of the list. `ReplyLost` is botocore's own retry after a lost
reply, which the code cannot see. `acked` and `refused` are history variables.

`Publication` says what a caller may rely on, without chunks, attempts or
replies: events of the batch appear in the stream; the call returns a summary
in which `sent` counts events that are there and `failed` all others that could
be sent, or it raises and says nothing of what it has delivered. The refinement
(`Contract == INSTANCE Publication WITH ...`, `ImplementsPublication`) maps
`delivered` to the range of the stream and the summary to the counts of a call
that has returned.

### 2.4 Simulator

The main thread is `pc`; each lock section of the metrics and each call is an
action. The background thread (`bg`) takes a snapshot under the lock and puts
it later. `publish_batch` is one action that accepts any subset of the batch,
and any subset, too, when it raises: this is what `Publication` promises, for
events that are not oversized. The clock is read once per turn of the loop.
The feed is as long as the file: `--limit` is parsed (`simulator.py:144`) and
never used by `run()` (`simulator.py:87`).

### 2.5 DlqHandler

A message stands for the records `NamedBy` it; what the script finds in its
body is `EventsOf` it. A message of Lambda's own (`KinesisBatchInfo`; in
`Sessionizer` the elements of `dlq`, a range of positions) has none. Several
operators run `--list`, `--reprocess` and `--reprocess --dry-run`; `Dies` ends
a run at any point; `Expire` is the visibility timeout.

`Publish` is `put_records` with what botocore makes of it: when a reply is lost
it repeats the call, and each attempt accepts what it likes of the events, some,
all or none; the handler looks at no reply. Two history variables say what came
of it: `lost` counts the lost replies, `refused` has the records that no attempt
of a call accepted. The properties are about every message: what is deleted has
been replayed or refused (`LostOnlyIfRefused`), nothing is replayed more often
than receipts and lost replies account for (`ReplayedOncePerReceipt`), and a run
that returns has offered all it could parse and left the rest in the queue
(`AccountedOnReturn`). That deleted messages have been replayed
(`dlq_handler.py:130`) and that what Lambda sends is recovered do not hold: see
section 5.

### 2.6 BatchReconciler

`archive[d]` has the rows written under `events/` on day `d`; a row is an event
and a copy number, because producers repeat records and a batch that failed
after its raw write is archived again. Each job (`Stitch`, `Export`, `Audit`)
can run for any date up to today, in any order, repeatedly; a Spark job that
dies has already removed the output it was to overwrite.

The speed layer is one action here, `Handle`: an invocation archives its batch
and leaves of each session in the table what `_process_session` may leave
(`Outcomes`): the item as it was, if it fails before the first put, the session
closed at a boundary, if it fails between the two puts, or all of the group
applied, with the cart total of this batch's events alone (`Folded`,
`handler.py:184`). A record may come again, from a producer or because its batch
is delivered again; any batch of deliverable records may come, so the order is
free, and items expire. `Opens`, `Applied` and `Folded` are `is_new_session`, the
loop and the final put for a whole group at once, which `Sessionizer` has event
by event. `spoiled` is a history variable: the session ids of which the table may
have missed something, because an event was late, came out of order, or its
invocation failed, or because the item expired.

Totals are in cents. The audit restates a cart total only if the difference,
rounded to cents, is more than one (`RevenueDiffers`,
`late_arrival_handler.py:138-161`). `converted` of an item is absent until it is
true, and NULL in Spark compares as neither equal nor different.

This module gives the stitcher and the audit paths of their own, as their
command lines ask for; that `submit_spark_job.sh` passes one path to both is
`Pipeline`'s concern.

### 2.7 Pipeline

`BatchReconciler` lets the jobs of the batch layer run in any order and asks
what their results mean. `Pipeline` asks what the scripts make of that order.
Data is modelled by where it comes from: a snapshot by the scans in it, the
output path by the jobs whose files are in it (there is one path for both jobs:
`submit_spark_job.sh:28, 56`), an audit by what it has listed to read. All is for
one date.

| Code | Model |
|---|---|
| `run_full_pipeline.sh`, `nightly_spark.yml`, the make targets | `Script`: a list of steps; `Start` |
| `set -e`, a failing step of a workflow | `StepFails` when the step cannot succeed (`Cannot`), `Interrupt` for a failing call, Ctrl+C or a cancelled workflow |
| `export_dynamodb_snapshot.sh` | `Truncate`, `Scan`, `Upload`, `Remove`, on the temporary file of the machine |
| `submit_spark_job.sh:38-62`, `:73-101` | `StartJobRun`, `Poll`, which waits until the job has ended |
| `AthenaQueryRunner` | `Query`, `Answer` (Athena's), `Fetch`, `TimesOut` |
| the Spark jobs, by their effects | `Begin` (imports, arguments, the inputs must exist), `Overwrite` (removes all files of the path), `Computable` (the rows are computed while they are written: what is to be read must still be there), `Commit`, `JobFails` |
| `teardown_dev.sh`, `nightly_teardown.yml`, `make tf-apply` | `Teardown`, `Deploy`: the same names, another EMR application id |

A job goes on when its script has ended, as the script itself says
(`submit_spark_job.sh:74`), so two jobs may overwrite the same output; the files
of both then lie side by side. A script run by hand has its application id from
the environment, filled in after any deployment; the workflow asks terraform.

What the jobs and the dashboard's queries need besides `--date` is the constant
`Provided`. As the scripts submit them (`AsSubmitted`) no job gets past its
imports, which is what *x_dashboard* shows. For everything that comes after,
*pipeline_runs* supplies what is missing (`AsNeeded`: the module `spark_utils`,
the paths of the audit, a bucket of the name that the script derives, the two
columns of the third query); the rest of the scripts is as it is. That includes
the one output path: the audit, whose table is lazy
(`late_arrival_handler.py:244-252`), begins its write by removing the sessions it
is to read. So it fails, and with it every run that has an audit
(`NoAuditSucceeds`, `MCPipeline_x_output.cfg`): what can be asked of these runs
is what their audit jobs *read*, not what they report. The dashboard's tables of
corrected sessions and of restatements are over another bucket than the jobs
write to (`create_tables.sql:109, 174`), so that of a query only its course is
modelled, and no property speaks of what a report shows.

Abstracted: a scan is one step (its pages may in truth be taken while the table
changes); a destroy is complete and one step; the schedule is *at any time*.

## 3. What is checked

`tlc -config <cfg> <module>` in this directory. States are distinct states.

### 3.1 Runs that pass

| Run | Properties | Instance |
|---|---|---|
| `sessionizer_faults` (4.48 M states) | `TypeOK CountedOnce InEventOrder Accounted ServedInOrder ImplementsSpeedLayer` | two shards; a session of two events, one more after a pause, in any order, and a second user's session; S3 and DynamoDB fail at will, stale reads, items expire; batches of up to 3, one retry |
| `sessionizer_crash` (6.05 M) | `Archived LivesFromFirstEvent ImplementsSpeedLayer` | one shard; a session, a pause, a late arrival; kills at any point, S3 failures, stale reads, expiry, any number of writes in a second |
| `sessionizer_live` (267 k) | `EventuallySettled EventuallyReflected` | one shard with a malformed record and a poisonous one among the others; kills, S3 failures, stale reads; under `FairSpec` |
| `producer_partial` (1.8 k) | `TypeOK CountsAreRight SentAreInStream ResentOnlyIfReplyLost ChunksInOrder Terminates ImplementsPublication` | five events of two users, one oversized, chunks of three, two retries, one lost reply |
| `dlq_two` (3.02 M) | `TypeOK LostOnlyIfRefused ReplayedOncePerReceipt AccountedOnReturn` | two operators, a message with two records and one as Lambda sends it, any refusals, one lost reply and two expired visibility timeouts per message |
| `simulator_run` (2.44 M) | `TypeOK EachInOnePlace OnTimeInOrder ReleasedWhenDue OnlyEarlyOnesDropped CountersAgree TotalsAdvance` | four events, batches of two and a rest, delays of one or two ticks, two data points |
| `batch_days` (919 k) | `TypeOK RowsPartitioned NoGapWithin SessionsApart NothingHidden OnlyCartsRestated` | two days, the jobs of the second, two users, two session ids, batches of one or two records in any order, a gap of exactly the timeout and a longer one, two late events, one row archived twice |
| `pipeline_runs` (141 k) | `TypeOK StagesInOrder AloneCoherent AuditsAreFresh RunsEnd` | two runs of any kind; calls and jobs fail, runs are interrupted, a teardown and a second deployment |

What they show, beyond the comments in the modules:

* **Retries and bisection** (`Accounted`, `ServedInOrder`, `EventuallySettled`).
  Whatever fails, a record taken from a shard is pending, settled or named by
  one dead-letter message; nothing is handled before what precedes it in its
  shard; and in the end everything is settled. A poisonous record ends in the
  queue; the splits isolate it as far as the attempts allow, and a neighbour can
  end there, too, when the attempts are used up before.
* **Counting** (`CountedOnce`, `InEventOrder`, `ImplementsSpeedLayer`). The
  order of the handler matters: S3 errors fail the batch, but only before its
  first write to the table; DynamoDB errors are swallowed. Letting them fail
  the batch is the mutant that breaks `CountedOnce`.
* **Order** (`InEventOrder`). The handler adds no disorder to the stream's: within
  a batch events are sorted, and bisection, retries, stale reads and swallowed
  errors do not make a session older events behind newer ones. It is checked
  without kills, after which a batch is appended again.
* **What stale reads and kills can do** (`ImplementsSpeedLayer`). Both lose or
  repeat events, as `MCSessionizer_x_stale.cfg` and *x_replay* show; the
  refinement says that this is all: one update at a time is lost, repeated events
  are the session's own, and every item agrees with its log.
* **Archive and expiry** hold even under kills: the raw write comes first, and a
  boundary resets the expiry with the rest of the state.
* **The producer's arithmetic** is right under every nesting of refusals and
  throttling; only a lost reply duplicates records.
* **The dead-letter handler** deletes a message only after its events are in the
  stream or have been refused under its eyes, never one it cannot parse, and
  repeats no event by itself: copies come from expired receipts and lost replies.
* **Batch layer.** The windows' default frame (which takes in rows of equal
  time) gives the same sessions as the definition: the split of a user's times
  at gaps longer than the timeout. `RowsPartitioned`, `NoGapWithin` and
  `SessionsApart` state that definition without windows or counters.
* **The audit.** Whatever the jobs have read and whenever, each archived event is
  in a row that reports a difference or in one that is right to report none, up
  to a cent (`NothingHidden`). And where a session came on time, in order and to
  the table, the layers differ in nothing but the cart total, which is that of
  its last batch (`OnlyCartsRestated`): the boundaries that the handler finds
  event by event are the stitcher's.

* **The end of the simulator.** `run()` ends without a last flush, and drops
  what is still held; `OnlyEarlyOnesDropped` bounds the damage: only late
  arrivals that were not due at the last flush, and never one of the batch.
* **Scripts.** A job outlives its script, and another run's job may overwrite
  what an audit is about to read, but only with newer data (`AuditsAreFresh`):
  the poll loop is what guarantees it, and leaving it early is the mutant. The
  audit of a run that has the date to itself reads the run's own scan and
  sessions (`AloneCoherent`), even after an export that was interrupted half-way,
  because the export truncates its file first. It then removes them
  and fails. Two exports side by side on one machine may mix their scans
  (`MCPipeline_x_scan.cfg`).

### 3.2 Bounds, and why they are enough

* *Sessionizer.* Three records of a session suffice for each hazard: two on the same side
  of a boundary to be put in order, one across it; a late one to be filtered.
  Batches of 3 give every split (3 into 2 and 1, 2 into 1 and 1); one retry gives both a retried and an exhausted batch at
  every depth. Two shards are the interleavings of two invocations on one table
  and one archive; more shards share nothing else. `MaxNow` bounds ticks of the
  clock with no cause; `TtlTicks` is chosen so that an item can expire while an
  invocation is under way. The theorems of section 4 carry all the safety
  properties and the refinement to all sizes.
* *Producer.* Chunks of three with one oversized event give a partial last
  chunk and every subset of refusals; two retries give refusal after throttling
  after refusal.
* *Simulator.* Four events are two full batches, whose counts must add up, or
  one and a rest when an event is held back; two delays let two held events become
  due in either order, or in one flush. `MaxPoints` bounds the wakings of the
  thread: two points are what `TotalsAdvance` compares.
* *DLQ.* Two operators and two messages: a receive may leave a message to the
  other operator; two expiries give a message to either of them again while it is
  in the other's hands. Two records in one call give partial refusals, one lost
  reply a call repeated with another outcome.
* *Batch.* Times 0, 2, 4, 5 with a timeout of 2 have a gap of exactly the timeout,
  a longer one (2 to 5) that the late event at 4 bridges, and so a chained session
  longer than the timeout; the copy gives equal times. `Dates` bounds the dates
  the jobs are run for: the second day, whose table also has what came on the
  first. `Retried` and `MaxCopies` bound repeated arrivals.
* *Pipeline.* Two runs give each pair of scripts side by side, one of which may
  have been interrupted and left its job or its file behind. Two deployments are
  a run whose application id is that of the one before. `Runs` bounds how often
  anything is started.

Deadlock is not checked (`CHECK_DEADLOCK FALSE`): each system comes to rest when
the feed is exhausted or its bounds are reached.

### 3.3 Fairness

Three specifications assume fairness. `Sessionizer`'s
`FairSpec` has weak fairness of each shard's steps: the event source mapping
keeps polling a shard, and an invocation that has started goes on or is killed
by its timeout. Nothing is assumed of the faults: they may happen every time.
`KinesisProducer`'s `FairSpec` has weak fairness of its single thread.
`Pipeline`'s has weak fairness of each run's steps and of each job's: a script
that can go on does, and EMR Serverless runs a job or fails it, which
`submit_spark_job.sh` relies on, since its loop has no limit. Nothing is assumed
of Athena – `RunsEnd` rests on the timeout of the query runner – or of people,
teardowns and deployments.
`EventuallyReflected` is checked without DynamoDB errors, because the handler
swallows them and the events are lost by design (`handler.py:20-23`); an event
that ends in the dead-letter queue is excused.

### 3.4 Mutants

Each property of a passing run is paired with a mutant in `PROJECT.json`: a
definition of the model replaced by a plausible bug – the sort of change a
commit could make – under which TLC finds the property violated. So a property
is known to depend on the code it is about: leaving a batch unsorted
breaks `InEventOrder`, archiving only on-time events breaks `Archived`, reusing
the closed session's expiry breaks `LivesFromFirstEvent`, not counting an
attempt breaks `EventuallySettled`, a `>=` at the timeout breaks `SessionsApart`.

## 4. What is proved

With tlapm 1.4.5 (Z3, Zenon, LS4); no step is left open. The theorems hold for
every value of the constants that satisfies the named assumptions, which only
type them and say which sets are finite: `LogicAssumption`,
`SessionizerAssumption`, `ProducerAssumption`, `DlqAssumption`,
`SimulatorAssumption`, `BatchAssumption`, `PipelineAssumption`. What a theorem assumes beyond that –
which faults are absent, what the feed is like – stands in its statement.
All invariants and action properties of the passing runs and both refinements
are theorems. Beside them stand theorems that say how far a finding of section 5
goes: the configuration shows the behaviour, the theorem the condition without
which it does not happen (`WholeCallsKeepUserOrder`)
or that nothing else ever happens (`NoSessionIsNew`, `MetadataIsNeverRecovered`,
`NoAuditSucceeds`, `NoGreenWithoutInputs`).

**SessionizerProofs.**

| Theorem | States |
|---|---|
| `TypeCorrect` | `Spec => []TypeInv` |
| `TypeSafety` | `Spec => []TypeOK` |
| `EveryRecordAccounted` | `Spec => []Accounted` |
| `ShardsServedInOrder` | `Spec => []ServedInOrder` |
| `NoRecordCountedTwice` | `ASSUME ~Crashes PROVE Spec => []CountedOnce` |

Three inductive invariants, each resting on the one before:

1. `TypeInv` adds to `TypeOK` that batches and the positions an invocation has
   still to visit lie in the stream; without that `Ev(s, i)` has no type.
2. `ServiceInv` adds, per shard, `AccountedIn` and `InOrderIn`. The lemma
   `Divide` says that replacing a batch by batches which divide its span changes
   neither the union of the spans nor their disjointness; `TakeOut` does the
   same for a batch that leaves; bisection, retry, giving up and success are
   instances.
3. `OnceInv` adds that every log (in the table, in its older version, and in
   the hands of an invocation) is injective and mentions only positions
   *touched* by now: those of settled batches, and those of the current batch
   that its invocation has been through. A position is appended when it is
   still untouched, which is why none is appended twice. A failing batch
   un-touches nothing, because the only calls that fail a batch come before it
   touched anything – the argument the handler's comment makes in prose
   (`handler.py:20-23`), here with its condition: no invocation is killed. It
   holds with stale reads, too: an older log is as sound as a newer one.

Two lemmas carry what every later proof about the handler needs: `VisitsStep`
(a step of an invocation leaves the positions still to visit as they are, takes
one out, or starts or drops all of them) and `LogsStep` (a log that is anywhere
in the system after a step was there before it, is empty, or is such a log with
one visited position at its end).

**SessionizerStoreProofs, SessionizerRefinementProofs.**

| Theorem | States |
|---|---|
| `ArchivedFirst` | `Spec => []Archived` |
| `ItemsLiveLongEnough` | `Spec => []LivesFromFirstEvent` |
| `SessionsInEventOrder` | `ASSUME ~Crashes PROVE Spec => []InEventOrder` |
| `ItemsAreSummaries` | `Spec => []ItemsSummarise`: each stored item is `Summarises` of its log, at any time |
| `SpeedLayerImplemented` | `ASSUME OneShardEach PROVE Spec => ImplementsSpeedLayer` |

4. `ArchiveInv` follows a batch through its invocation: from the raw write on,
   all its decoded records have been archived, from the late write on its late
   ones are in the late archive, and every log mentions such positions only. A put
   that replaces an object leaves a live one of the same name (`ArchiveGrows`),
   which is what `Archived` asks; kills, stale reads and refused puts are all
   allowed.
5. `LifeInv`: an item has its expiry, and the session in an invocation's hands
   has one or will get it when it is put. A read item brings its own along, and
   a boundary drops it, which is why the session's first event bounds it below.
6. `OrderInv` adds to `OnceInv` that two positions of a log from one shard are
   in the order of the stream or, within a batch, of the sort (`InOrder`), and
   that a log has nothing behind it that an invocation has still to visit
   (`Foremost`): the visits go on by the sort within a batch (`NextOrdered`), and
   everything in an earlier batch comes before. Without kills a batch that fails
   has folded in nothing, so that a retry starts with the same logs. No
   assumption on the feed or on whose a session id is: records of different
   shards are not compared.
7. `SumInv` says of every version of an item and of the session in hand that it
   is the summary of its log. It needs neither that kills are absent (then a log
   may repeat an event, and nothing else changes) nor that a session has one
   shard: a handler that starts from any summary puts a summary.
   `ItemsAreSummaries` is this in the words of the abstract module.
8. `RefInv` links the session in hand with the versions of the stored one: it
   continues one of them, or begins after a gap that has closed it, or the
   stored one has expired meanwhile. Since no other invocation has the session
   in hand (`OneShardEach`: the users of a session id are in one shard), each put
   is an `Extend`, a `Close` or a `Begin`, and TTL deletion an `Expire`; every
   other step changes nothing that the abstract state shows.

**KinesisProducerProofs.** `ProducerTyped` (`TypeOK`), `SummaryIsRight` (`CountsAreRight`), `SentIsStored`
(`SentAreInStream`), `RetriesDuplicateNothing` (`ResentOnlyIfReplyLost`), from
one invariant, `ProducerInv`: the events cut into chunks so far are divided
into acknowledged, refused and current ones, the counts are the cardinalities
of the first two, and without a lost reply nothing is in the stream that is not
acknowledged. It is stronger than the three properties, since the counts alone do not say
that an event of the current call is not counted already.
`ChunksStayInOrder` (`ChunksInOrder`) adds that what is in the stream and not in
the current chunk is of an earlier one. `ProducerImplementsPublication`
(`ImplementsPublication`) shows the refinement step by step: each call to
Kinesis is a `Deliver` or a stutter, the end is a `Return` or a `Raise`.

Two more theorems. `WholeCallsKeepUserOrder`
(`ASSUME ~PartialFailures PROVE Spec => []UserOrderKept`): if calls are refused
as a whole only, each delivery of an event carries all of its chunk that comes
before it (`WholeInv`), and between chunks `OrderInv` decides. It needs that an
event in the stream has a first delivery, which is the well-foundedness of the
natural numbers (`FirstDeliveryIs`). `RetriesRunOut`: the number of chunks to
come, the attempts left, the lost replies left and the return make a natural
number, `StepsLeft`, that each step lowers; this is the safety half of
`Terminates`, whose other half, that the thread goes on, is fairness.

**DlqHandlerProofs.**

| Theorem | States |
|---|---|
| `TypeCorrect` | `Spec => []TypeOK` |
| `LossesAreRefusals` | `Spec => []LostOnlyIfRefused` |
| `OneReplayPerReceipt` | `Spec => []ReplayedOncePerReceipt` |
| `ReturnedMeansAccounted` | `Spec => []AccountedOnReturn` |
| `MetadataIsNeverRecovered` | a message in which no events are found stays in the queue, and nothing it stands for is ever put in the stream |

None assumes anything of the messages, of what `put_records` accepts or of the
replies. `DeletedInv` says that a message in hand has been offered to the stream,
and one that has left the queue has been in hand. `OneReplayPerReceipt` rests on
a balance (`ReceiptInv`): the copies of an event in the stream, plus the receipts
of its message in hand, are bounded by the expiries and lost replies so far and
whether the message is still to be received; each action moves one from one side
to the other, and `Publish` may add as many copies as it has lost replies besides
its own (`PublishAttempts`). `AccountedInv` follows a live run's messages from the
inbox to the hand. `MetadataIsNeverRecovered` is about the messages Lambda really
sends: the handler neither recovers nor loses them.

**SimulatorProofs.**

| Theorem | States |
|---|---|
| `SimulatorTyped` | `Spec => []TypeOK` |
| `EventsInOnePlace` | `Spec => []EachInOnePlace` |
| `OnTimeEventsInOrder` | `Spec => []OnTimeInOrder` |
| `ReleasedAtTheFlush` | `Spec => []ReleasedWhenDue` |
| `EarlyOnesAloneDropped` | `Spec => []OnlyEarlyOnesDropped` |
| `CountersAreRight` | `Spec => []CountersAgree` |
| `TotalsNeverGoBack` | `Spec => []TotalsAdvance` |

From three invariants. `FeedInv` relates the places an event can be in with the
order of the feed: what was handed over, then the batch, then what is unread,
with the held events apart. `AccountInv` says at each point between publish and
the last counter how far the counters are behind. `TotalsInv` bounds each data
point by the snapshot the background thread has in hand and that by the
counters, which only grow.

**BatchReconcilerProofs.**

| Theorem | States |
|---|---|
| `SessionsKeptApart` | `Spec => []SessionsApart` |
| `SessionsHaveNoGap` | `Spec => []NoGapWithin` |
| `RowsArePartitioned` | `Spec => []RowsPartitioned` |
| `BatchTyped` | `Spec => []TypeOK` |
| `AuditHidesNothing` | `Spec => []NothingHidden` |
| `LayersDifferInCarts` | `Spec => []OnlyCartsRestated` |
| `NoSessionIsNew` | `new_sessions_in_batch` is 0 in every summary |

The first three together say that the window functions compute the coarsest
split of a user's times at the gaps and lose and double no row, for any finite
set of rows. The argument is about one day's rows: a user's rows are totally
ordered by the window, so each row has a predecessor (`LastRow`) and each gap a
first row behind it (`FirstRow`), from the well-foundedness of strict inclusion
on finite sets; two rows differ in the running sum exactly if a session starts
between them (`SeqGrowsAtStarts`), and a session starts exactly behind a gap
(`StartAfterGap`, `GapMakesStart`). Hence the rows between a session's first and
last time are those of its id (`OwnRows`).

*Sums.* `MapThenSumSet` folds with a recursive function over the subsets of a
set, and what such a function is must first be shown to exist. The usual way is
induction over the set, which is out of reach here; instead, among the families
of subsets on which the recursion has a solution a largest is taken, and it is
the whole power set, since a smallest subset outside it could be added
(`SumsExist`). In the same manner – a smallest counterexample is none – follow
that a sum is a natural number (`SumType`), that the order of summation does not
matter (`SumRemove`) and that the sessions' counts add up to the rows
(`SessionsCountRows`).

The inductive invariant is `BatchInv`, in four parts each resting on those
before; TLC checked it on the instance of the run `batch_days` before it was
proved. `StitchInv`: what is written is computed from finite sets of rows.
`TableInv`: the table holds items. `StepInv`: the item of an id that is not
spoiled is in step with the id's rows on all days (`InStep`): if no gap divides
them it counts them all, has seen a purchase if there is one, knows the latest
time, and has a cart total that is at most theirs. `FoldInStep` carries it over an
invocation: a group that comes on time, in order and once extends rows without a
gap without a boundary (`NoBoundary`), and where a gap divides the rows nothing is
claimed. `AuditInv`: a snapshot is a table of items, and an audit is the join of
its two inputs. `LayersDifferInCarts` then compares two figures that are taken in
different ways: the stitcher's over the rows of a session, which are those of the
id since the session is for itself (`RowsForItself`), and the handler's batch by
batch. `AuditHidesNothing` rests on `OwnRows`: each row lies in a session, each
session is joined with each of its ids (`ListsItsIds`), and a quiet row has passed
all the comparisons (`QuietRow`). `BatchAssumption` types the feed, with ids that
tell its events apart, and says that NULL (`Missing`) is no value of the data: a
session id, an item or a session.

**PipelineProofs.**

| Theorem | States |
|---|---|
| `PipelineTyped` | `Spec => []TypeOK` |
| `StagesAreInOrder` | `Spec => []StagesInOrder` |
| `NoStaleAudit` | `Spec => []AuditsAreFresh` |
| `AloneReadsItsOwn` | `Spec => []AloneCoherent` |
| `NoAuditSucceeds` | no audit job succeeds, and a run that submits one never ends green, whatever is `Provided` |
| `NoGreenWithoutInputs` | a run that submits a job which lacks something it `Needs` never ends green |

For any set of runs, kinds and deployments, with faults or without. The scripts
are fixed, so what their order gives is read off them first: each job is
submitted once and polled in the next step (`ScriptsWait`), and the audit comes
behind the upload and the stitcher's poll (`RunsStaged`). `PlaceInv` says which
steps a run has behind it; `FlowInv` what
that means: a job polled to its end has succeeded, one not yet submitted does not
exist, an upload that is done is in the log of exports. A script may stop at any
point and leave its job running, which is why a job's state is tied to the place
of its run only while the run goes on. `DataInv` follows the data: the snapshot is
the last export's, the output path holds files of stitchers only, the last
commit's among them (`OutputInv`), and what an audit has listed is not older than
its own run, and is not there any more once it overwrites (`InputInv`). From the
last part follows that no audit commits, which keeps `OutputInv`, and
`NoAuditSucceeds`.

`AloneInv` is about a run that has the date to itself: while it goes on, no other
run and no job of another is active (`Solitary`: what makes a run not alone also
clears its flag), and all data is its own as far as it has come (`OwnData`) – the
file it truncated is empty before its scan and holds just the scan after it, the
snapshot is its own once uploaded, and the files are those its stitcher
committed, until its audit removes them. `NoGreenWithoutInputs` adds to the
invariants that a job without its inputs is never beyond `submitted` (`Stuck`);
since a script passes a submission only after the poll has seen SUCCESS, its run
cannot end green. `PipelineAssumption` says that `None` is neither a run nor a
state of a query.

**Only model-checked:** liveness (`EventuallySettled`, `EventuallyReflected`,
`Terminates`, `RunsEnd`) depends on fairness, which tlapm does not handle, and
stays with TLC. All other properties of the passing runs are proved.

## 5. Where code and documents disagree

Four runs check a sentence of the repository and find it violated; the findings
in `PROJECT.json` quote both sides:

| Run | The repository says | The code does |
|---|---|---|
| `x_replay` | writes are conditional, redelivery is harmless | plain `put_item`: after a kill the batch counts twice |
| `x_cart` | `cart_total` is a running sum | it is the last batch's sum |
| `x_dashboard` | the full run goes through all stages and ends with the dashboard | its first Spark job is not given the module it imports; with that, and all arguments, its audit would remove what it reads |
| `x_flip` | a purchase that came late is a conversion flip | it is an event-count restatement |

Further configurations, each of one property that TLC violates, are kept beside
them as a record of what was met while modelling:

| Configuration (module `MC...` or `Simulator`) | The repository says | The code does |
|---|---|---|
| `MCSessionizer_x_closed.cfg` | at a boundary the old session is persisted (`handler.py:175`) | the next session overwrites it under the same key |
| `MCSessionizer_x_expiry.cfg` | an item expires `ttl_hours` after the last event (`dynamodb_client.py:59-60`, `docs/architecture.md:75`) | after the first: the item read back carries its `expires_at` |
| `MCSessionizer_x_expired.cfg` | `get_session` returns None when expired (`dynamodb_client.py:37-38`) | it returns what DynamoDB has not deleted yet |
| `MCSessionizer_x_archive.cfg` | every event lands in S3 (`tests/integration/test_end_to_end.py:188`) | two batches of equal size in a second replace each other (`utils.py:59`) |
| `MCSessionizer_x_stale.cfg` | a session accumulates its events | a stale read (`dynamodb_client.py:42`) lets the next put drop the last update |
| `MCSessionizer_x_gap.cfg` | a gap of 30 minutes begins a session (`session_state.py:4-7`) | the feed's time format does not parse, so no gap does |
| `MCKinesisProducer_x_order.cfg` | one shard per user preserves the order of the user's events (`kinesis_producer.py:5-6`) | a partial failure reorders them |
| `MCDlqHandler_x_metadata.cfg` | the handler re-processes failed records (`dlq_handler.py:6`, `README.md:151`) | the messages Lambda sends hold no records and are skipped (`dlq_handler.py:161-166` admits it) |
| `MCDlqHandler_x_partial.cfg` | deleted after successful re-publish (`dlq_handler.py:130`) | the reply is not looked at: a message whose record was refused is deleted |
| `MCDlqHandler_x_dryrun.cfg` | a dry run makes no changes (`dlq_handler.py:87`) | it hides the messages until their visibility timeout |
| `Simulator_x_failed.cfg` | `record_failed` counts failures | not those of the last batch (`simulator.py:126-130`) |
| `Simulator_x_held.cfg` | held events are released (`late_arrival_injector.py:4-5`) | not those still held at the end |
| `Simulator_x_flush.cfg` | `stop()` stops the publisher and flushes (`metrics.py:75`) | an older snapshot may follow the flush |
| `Simulator_x_crash.cfg` | publishing never crashes the simulator (`metrics.py:138`) | only `ClientError` is caught |
| `MCBatchReconciler_x_midnight.cfg` | the correct view of sessions (`session_stitcher.py:4-5`) | a session around midnight is two |
| `MCBatchReconciler_x_ids.cfg` | a stable `batch_session_id` (`session_stitcher.py:127`) | a late arrival renumbers a user's sessions |
| `MCBatchReconciler_x_two_ids.cfg` | without late arrivals the speed layer is correct (`late_arrival_injector.py:9-10`) | two ids in one session are both restated |
| `MCBatchReconciler_x_copies.cfg` | the correct view of sessions | a retried batch's rows count twice |
| `MCBatchReconciler_x_new.cfg` | the summary counts `new_sessions_in_batch` | `session_id` is never NULL after the join: always 0 |
| `MCPipeline_x_output.cfg` | the full run goes through all stages (`run_full_pipeline.sh:5-6`) | given all that *x_dashboard* lacks, it fails since both jobs have one output path (`submit_spark_job.sh:28, 56`) |
| `MCPipeline_x_scan.cfg` | a snapshot of the table (`export_dynamodb_snapshot.sh:40`) | two exports on one machine share the temporary file of the date |

Also met, and not modelled unless section 2.7 says so:

* `--limit` is parsed and ignored (`simulator.py:51, 87, 144`; `README.md:133`
  names an event limit).
* `late_arrival_handler.py` writes its summary to a path beside its output
  (`late_arrival_handler.py:222`), which nothing reads.
* The bucket `${S3_BUCKET}-corrected` is not one that terraform declares
  (`s3_athena/main.tf:13-14`), nor the one the tables are over.
* The dashboard's third query names `revenue_discrepancy` and
  `event_count_discrepancy` (`accuracy_latency_dashboard.py:132-135`), which
  `restatement_audit` does not have (`create_tables.sql:155-171`).
* Partition projection of `month` and `day` is by integers without leading
  zeros, the Spark jobs write `month=05`.
* A report without audit rows says 100 % accurate.
* `_wait` gives up without cancelling its query.
* `nightly_teardown.yml` runs at 13:00 UTC and `nightly_spark.yml` at 14:00; the
  latter labels the table as it is then with the date of the day before.
* `run_full_pipeline.sh` fixes its date before an hour of simulation.

## 6. What is not modelled

* **The clock of the schedules**: runs and teardowns come at any time, for one
  date; what the table holds after midnight is not modelled.
* **Preparation**: `setup.sh`, `athena_setup.sh`, `build_lambda.sh`,
  `check_env.sh`, `ci.yml`, `deploy.yml` run once and keep no state.
* **Views, figures, reports**: the SQL of the views, the arithmetic of the
  dashboard and `local_report.py`, which reads files and prints.
* **A destroy that fails half-way**, and the state file of terraform.
* **Resharding, stream retention, `starting_position = "LATEST"`, the queue's
  seven-day retention**: services outside the code.
* **Data formats**: CSV parsing, JSON, Parquet, Decimal conversion, rounding.
* **Averages of the audit** and the sums of its summary; its rows and counts are there.
* **A scan that pages while the table changes**: one step here.

## 7. Plan

Done, in this order: session logic, sessionizer with its abstract specification,
producer, dead-letter handler, simulator, batch layer; proofs of the sessionizer's
type, service and counting invariants and of the producer's counts; the contract
of the producer and its refinement, the scripts and workflows; proofs of the
producer's order and refinement, of the dead-letter handler and of the
simulator; of the sessionizer's archive, expiry, order and refinement; of the
stitcher's windows and sums, the session table and the audit's verdicts; of the
scripts' stages and data.

To model next:

1. A composition of `Sessionizer` and `DlqHandler`: what replays do to
   `CountedOnce`, and whether everything in the queue can get back.
2. The nightly schedule with the contents of the table: an export after
   midnight, of items that expire.
3. A scan by pages, against a table that changes.

To prove next:

1. `Sessionizer`: the safety half of `EventuallySettled`, a measure of the
   batches left – their lengths, retries and bisections – that every failed
   invocation lowers.
2. `Sessionizer`: what a kill can do at most: how often a record is folded in,
   in terms of the invocations killed.
3. `Pipeline`: that two runs on different hosts do not mix their scans.
