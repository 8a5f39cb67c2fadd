---------------------------- MODULE Sessionizer ----------------------------
(***************************************************************************)
(* The speed layer: a Kinesis stream, the event source mapping that feeds  *)
(* each shard to the Lambda sessionizer, the handler itself, the DynamoDB  *)
(* table of sessions and the raw event objects in S3.                      *)
(*                                                                         *)
(* The handler is one action per call to a service it makes.  Everything   *)
(* between two calls is local to the invocation.  An invocation may fail   *)
(* at every call, and may be killed (timeout, crash) between any two.      *)
(***************************************************************************)
EXTENDS SessionLogic, FiniteSets, Functions

CONSTANTS
  Sessions,         \* session ids: the table's partition keys
  Users,
  Events,           \* the records the producers may publish
  ShardOf,          \* Kinesis' hash of the partition key, user_id
  BatchSize,        \* batch_size of the event source mapping
  MaxRetries,       \* maximum_retry_attempts
  MaxNow,           \* bound on the ticks of the wall clock
  StaleReads,       \* may get_item miss the last write?
  S3Fails, DdbFails, Crashes    \* which faults occur

Kinds == {"event", "malformed", "poison"}

Event ==
  [id : Nat, user : Users, sid : Sessions, time : Nat, type : EventTypes,
   price : Nat, late : BOOLEAN, kind : Kinds]

ASSUME SessionizerAssumption ==
  /\ Events \subseteq Event
  /\ ShardOf \in [Users -> Shards]
  /\ BatchSize \in Nat \ {0}
  /\ MaxRetries \in Nat
  /\ MaxNow \in Nat
  /\ Sessions # {}
  /\ {StaleReads, S3Fails, DdbFails, Crashes} \subseteq BOOLEAN

VARIABLES
  stream,   \* per shard: the records, each with its approximate arrival time
  polled,   \* per shard: how many records the mapping has taken
  work,     \* per shard: the batches taken and not settled
  dlq,      \* per shard: the batches given up, as the metadata the queue gets
  done,     \* per shard: positions of the batches whose invocation succeeded
  pc,       \* per shard: where its invocation stands
  batch,    \* per shard: the batch being processed
  left,     \* per shard: on-time positions not yet handed to _process_session
  todo,     \* per shard: positions of the current session not yet applied
  sid,      \* per shard: the session being processed
  state,    \* per shard: current_state
  cart,     \* per shard: CartCalculator's running total for this batch
  table,    \* the DynamoDB table; EmptyState where there is no item
  older,    \* what each item was before its last write
  raw,      \* the objects under events/
  held,     \* the objects under late-arrivals/
  now       \* the wall clock

esmVars == <<polled, work, dlq, done>>
lambdaVars == <<pc, batch, left, todo, sid, state, cart>>
storeVars == <<table, older, raw, held, now>>
vars == <<stream, esmVars, lambdaVars, storeVars>>

----------------------------------------------------------------------------
(* Records, batches and objects                                            *)

Record == [ev : Event, arrival : Nat]
Batch == [lo : Nat, hi : Nat, tries : Nat]
Object == [second : Nat, size : Nat, at : SUBSET Position, live : BOOLEAN]

Ev(s, i) == stream[s][i].ev
Span(b) == b.lo .. b.hi

(* Records that do not decode are skipped one by one.                      *)
Decoded(s, b) == {i \in Span(b) : Ev(s, i).kind = "event"}
OnTime(s, b) == {i \in Decoded(s, b) : ~Ev(s, i).late}
LateOnes(s, b) == {i \in Decoded(s, b) : Ev(s, i).late}

(* A JSON payload that is no object escapes the handler's except clause.   *)
Poisoned(s, b) == \E i \in Span(b) : Ev(s, i).kind = "poison"

(* Mutant of Precedes: the group is left in the order of the stream.       *)
PrecedesInStream(s, i, j) == i <= j

(* The sort key is the event time; Python's sort is stable.                *)
Precedes(s, i, j) ==
  \/ Ev(s, i).time < Ev(s, j).time
  \/ Ev(s, i).time = Ev(s, j).time /\ i <= j

IsNext(s, i) == i \in todo[s] /\ \A j \in todo[s] : Precedes(s, i, j)

(* The sessions of a batch are taken in the order of their first record.   *)
Group(s, i) == {j \in left[s] : Ev(s, j).sid = Ev(s, i).sid}
IsFirstOfGroup(s, i) == i \in left[s] /\ \A j \in left[s] : i <= j

(* An object's name is the second it was written in and how many events it *)
(* holds; a put of the same name replaces the object.  What was replaced   *)
(* is kept in the model, not live any more, to see what became of it.      *)
SameName(o, p) == o.second = p.second /\ o.size = p.size

PutObject(objects, s, positions) ==
  LET new == [second |-> now, size |-> Cardinality(positions),
              at |-> {s} \X positions, live |-> TRUE]
  IN  IF positions = {} THEN objects
      ELSE {IF SameName(o, new) THEN [o EXCEPT !.live = FALSE] ELSE o : o \in objects}
             \cup {new}

(* put_item replaces the item.  get_item does not ask for a consistent     *)
(* read, so it may return the item as it was before the last write.        *)
PutItem(x, item) ==
  /\ table' = [table EXCEPT ![x] = item]
  /\ older' = IF StaleReads THEN [older EXCEPT ![x] = table[x]] ELSE older

ReadOf(x) == {table[x]} \cup (IF StaleReads THEN {older[x]} ELSE {})

----------------------------------------------------------------------------
(* The event source mapping                                                *)

NoBatch == [lo |-> 1, hi |-> 0, tries |-> 0]
NoSession == CHOOSE x \in Sessions : TRUE   \* sid between invocations

(* Mutant of IsHead: the newest batch first.                               *)
IsNewest(s, b) == b \in work[s] /\ \A c \in work[s] : b.lo >= c.lo

(* The batches of a shard are processed in order, one at a time.           *)
IsHead(s, b) == b \in work[s] /\ \A c \in work[s] : b.lo <= c.lo

EndInvocation(s) ==
  /\ pc' = [pc EXCEPT ![s] = "idle"]
  /\ batch' = [batch EXCEPT ![s] = NoBatch]
  /\ left' = [left EXCEPT ![s] = {}]
  /\ todo' = [todo EXCEPT ![s] = {}]
  /\ state' = [state EXCEPT ![s] = EmptyState]
  /\ cart' = [cart EXCEPT ![s] = 0]
  /\ sid' = [sid EXCEPT ![s] = NoSession]

(* Mutant of GiveUp: the message is the mapping's own record of the batch. *)
GiveUpVerbatim(s, b) ==
  /\ b.tries >= MaxRetries
  /\ work' = [work EXCEPT ![s] = @ \ {b}]
  /\ dlq' = [dlq EXCEPT ![s] = @ \cup {b}]

GiveUp(s, b) ==
  /\ b.tries >= MaxRetries
  /\ work' = [work EXCEPT ![s] = @ \ {b}]
  /\ dlq' = [dlq EXCEPT ![s] = @ \cup {[lo |-> b.lo, hi |-> b.hi]}]

(* Mutant of RetryWhole: the attempt is not counted.                       *)
RetryUncounted(s, b) ==
  /\ b.tries < MaxRetries
  /\ b.lo = b.hi
  /\ UNCHANGED <<work, dlq>>

RetryWhole(s, b) ==
  /\ b.tries < MaxRetries
  /\ b.lo = b.hi
  /\ work' = [work EXCEPT ![s] = (@ \ {b}) \cup {[b EXCEPT !.tries = @ + 1]}]
  /\ UNCHANGED dlq

(* Mutant of Bisect: the record in the middle is in neither half.          *)
BisectAround(s, b) ==
  LET mid == (b.lo + b.hi) \div 2
  IN  /\ b.tries < MaxRetries
      /\ b.lo < b.hi
      /\ work' = [work EXCEPT ![s] = (@ \ {b}) \cup
                    {[lo |-> b.lo, hi |-> mid - 1, tries |-> b.tries + 1],
                     [lo |-> mid + 1, hi |-> b.hi, tries |-> b.tries + 1]}]
      /\ UNCHANGED dlq

(* Whether a split counts as an attempt is left open.                      *)
Bisect(s, b) ==
  LET mid == (b.lo + b.hi) \div 2
  IN  /\ b.tries < MaxRetries
      /\ b.lo < b.hi
      /\ \E n \in {b.tries, b.tries + 1} :
           work' = [work EXCEPT ![s] = (@ \ {b}) \cup
                      {[lo |-> b.lo, hi |-> mid, tries |-> n],
                       [lo |-> mid + 1, hi |-> b.hi, tries |-> n]}]
      /\ UNCHANGED dlq

(* What the mapping does with a batch whose invocation failed.             *)
FailBatch(s, b) ==
  /\ GiveUp(s, b) \/ RetryWhole(s, b) \/ Bisect(s, b)
  /\ EndInvocation(s)
  /\ UNCHANGED <<stream, polled, done>>

Poll(s) ==
  /\ work[s] = {}
  /\ \E hi \in (polled[s] + 1) .. Len(stream[s]) :
       /\ hi <= polled[s] + BatchSize
       /\ work' = [work EXCEPT ![s] =
                     {[lo |-> polled[s] + 1, hi |-> hi, tries |-> 0]}]
       /\ polled' = [polled EXCEPT ![s] = hi]
  /\ UNCHANGED <<stream, dlq, done, lambdaVars, storeVars>>

----------------------------------------------------------------------------
(* The handler                                                             *)

Invoke(s) ==
  /\ pc[s] = "idle"
  /\ \E b \in work[s] :
       /\ IsHead(s, b)
       /\ ~Poisoned(s, b)
       /\ batch' = [batch EXCEPT ![s] = b]
       /\ left' = [left EXCEPT ![s] = OnTime(s, b)]
  /\ pc' = [pc EXCEPT ![s] = "raw"]
  /\ UNCHANGED <<stream, esmVars, todo, sid, state, cart, storeVars>>

DecodeRaises(s) ==
  /\ pc[s] = "idle"
  /\ \E b \in work[s] : IsHead(s, b) /\ Poisoned(s, b) /\ FailBatch(s, b)
  /\ UNCHANGED storeVars

(* Mutant of WriteRaw: only the on-time events are archived.               *)
WriteRawOnTime(s) ==
  /\ pc[s] = "raw"
  /\ raw' = PutObject(raw, s, OnTime(s, batch[s]))
  /\ pc' = [pc EXCEPT ![s] = IF LateOnes(s, batch[s]) = {} THEN "next" ELSE "late"]
  /\ UNCHANGED <<stream, esmVars, batch, left, todo, sid, state, cart, table, older, held, now>>

WriteRaw(s) ==
  /\ pc[s] = "raw"
  /\ raw' = PutObject(raw, s, Decoded(s, batch[s]))
  /\ pc' = [pc EXCEPT ![s] = IF LateOnes(s, batch[s]) = {} THEN "next" ELSE "late"]
  /\ UNCHANGED <<stream, esmVars, batch, left, todo, sid, state, cart, table, older, held, now>>

WriteLate(s) ==
  /\ pc[s] = "late"
  /\ held' = PutObject(held, s, LateOnes(s, batch[s]))
  /\ pc' = [pc EXCEPT ![s] = "next"]
  /\ UNCHANGED <<stream, esmVars, batch, left, todo, sid, state, cart, table, older, raw, now>>

(* put_object raises: the handler does not catch it and the batch fails.   *)
WriteFails(s) ==
  /\ S3Fails
  /\ pc[s] \in {"raw", "late"}
  /\ Decoded(s, batch[s]) # {}
  /\ FailBatch(s, batch[s])
  /\ UNCHANGED storeVars

(* Mutant of Get: the stored session is not read back.                     *)
GetNothing(s) ==
  /\ pc[s] = "next"
  /\ \E i \in left[s] :
       /\ IsFirstOfGroup(s, i)
       /\ todo' = [todo EXCEPT ![s] = Group(s, i)]
       /\ left' = [left EXCEPT ![s] = @ \ Group(s, i)]
       /\ sid' = [sid EXCEPT ![s] = Ev(s, i).sid]
       /\ state' = [state EXCEPT ![s] = EmptyState]
  /\ cart' = [cart EXCEPT ![s] = 0]
  /\ pc' = [pc EXCEPT ![s] = "apply"]
  /\ UNCHANGED <<stream, esmVars, batch, storeVars>>

Get(s) ==
  /\ pc[s] = "next"
  /\ \E i \in left[s] : \E item \in ReadOf(Ev(s, i).sid) :
       /\ IsFirstOfGroup(s, i)
       /\ todo' = [todo EXCEPT ![s] = Group(s, i)]
       /\ left' = [left EXCEPT ![s] = @ \ Group(s, i)]
       /\ sid' = [sid EXCEPT ![s] = Ev(s, i).sid]
       /\ state' = [state EXCEPT ![s] = item]
  /\ cart' = [cart EXCEPT ![s] = 0]
  /\ pc' = [pc EXCEPT ![s] = "apply"]
  /\ UNCHANGED <<stream, esmVars, batch, storeVars>>

(* A DynamoDB error is logged and swallowed: the session's events of this  *)
(* batch are lost to the table and the batch goes on.                      *)
GetFails(s) ==
  /\ DdbFails
  /\ pc[s] = "next"
  /\ \E i \in left[s] :
       /\ IsFirstOfGroup(s, i)
       /\ left' = [left EXCEPT ![s] = @ \ Group(s, i)]
  /\ UNCHANGED <<stream, esmVars, pc, batch, todo, sid, state, cart, storeVars>>

(* One turn of the loop over the session's events: without a boundary ...  *)
Apply(s) ==
  /\ pc[s] = "apply"
  /\ \E i \in todo[s] :
       /\ IsNext(s, i)
       /\ ~IsNewSession(state[s], Ev(s, i))
       /\ todo' = [todo EXCEPT ![s] = @ \ {i}]
       /\ state' = [state EXCEPT ![s] = Update(@, Ev(s, i), <<s, i>>)]
       /\ cart' = [cart EXCEPT ![s] = CartStep(@, Ev(s, i))]
  /\ UNCHANGED <<stream, esmVars, pc, batch, left, sid, storeVars>>

(* Mutant of Close: the next session inherits the old one's expiry.        *)
CloseKeepingExpiry(s) ==
  /\ pc[s] = "apply"
  /\ \E i \in todo[s] :
       /\ IsNext(s, i)
       /\ IsNewSession(state[s], Ev(s, i))
       /\ todo' = [todo EXCEPT ![s] = @ \ {i}]
       /\ state' = [state EXCEPT ![s] =
                      [Update(EmptyState, Ev(s, i), <<s, i>>) EXCEPT
                         !.expires_at = state[s].expires_at]]
       /\ cart' = [cart EXCEPT ![s] = CartStep(@, Ev(s, i))]
  /\ PutItem(sid[s], Item(Closed(state[s]), now))
  /\ UNCHANGED <<stream, esmVars, pc, batch, left, sid, raw, held, now>>

(* Mutant of Close: the event that crosses the gap opens no session.       *)
CloseDroppingEvent(s) ==
  /\ pc[s] = "apply"
  /\ \E i \in todo[s] :
       /\ IsNext(s, i)
       /\ IsNewSession(state[s], Ev(s, i))
       /\ todo' = [todo EXCEPT ![s] = @ \ {i}]
       /\ state' = [state EXCEPT ![s] = EmptyState]
       /\ cart' = [cart EXCEPT ![s] = CartStep(@, Ev(s, i))]
  /\ PutItem(sid[s], Item(Closed(state[s]), now))
  /\ UNCHANGED <<stream, esmVars, pc, batch, left, sid, raw, held, now>>

(* ... and with one: the old session is stored, under the same key.        *)
Close(s) ==
  /\ pc[s] = "apply"
  /\ \E i \in todo[s] :
       /\ IsNext(s, i)
       /\ IsNewSession(state[s], Ev(s, i))
       /\ todo' = [todo EXCEPT ![s] = @ \ {i}]
       /\ state' = [state EXCEPT ![s] = Update(EmptyState, Ev(s, i), <<s, i>>)]
       /\ cart' = [cart EXCEPT ![s] = CartStep(@, Ev(s, i))]
  /\ PutItem(sid[s], Item(Closed(state[s]), now))
  /\ UNCHANGED <<stream, esmVars, pc, batch, left, sid, raw, held, now>>

FinalPut(s) ==
  /\ pc[s] = "apply"
  /\ todo[s] = {}
  /\ PutItem(sid[s], Item([state[s] EXCEPT !.cart_total = cart[s]], now))
  /\ pc' = [pc EXCEPT ![s] = "next"]
  /\ UNCHANGED <<stream, esmVars, batch, left, todo, sid, state, cart, raw, held, now>>

(* Mutant of PutFails: the error leaves the handler and fails the batch.   *)
PutRaises(s) ==
  /\ DdbFails
  /\ pc[s] = "apply"
  /\ \/ todo[s] = {}
     \/ \E i \in todo[s] : IsNext(s, i) /\ IsNewSession(state[s], Ev(s, i))
  /\ FailBatch(s, batch[s])
  /\ UNCHANGED storeVars

PutFails(s) ==
  /\ DdbFails
  /\ pc[s] = "apply"
  /\ \/ todo[s] = {}
     \/ \E i \in todo[s] : IsNext(s, i) /\ IsNewSession(state[s], Ev(s, i))
  /\ pc' = [pc EXCEPT ![s] = "next"]
  /\ todo' = [todo EXCEPT ![s] = {}]
  /\ UNCHANGED <<stream, esmVars, batch, left, sid, state, cart, storeVars>>

Return(s) ==
  /\ pc[s] = "next"
  /\ left[s] = {}
  /\ done' = [done EXCEPT ![s] = @ \cup Span(batch[s])]
  /\ work' = [work EXCEPT ![s] = @ \ {batch[s]}]
  /\ EndInvocation(s)
  /\ UNCHANGED <<stream, polled, dlq, storeVars>>

(* The invocation is killed: its timeout expires or its sandbox dies.      *)
Crash(s) ==
  /\ Crashes
  /\ pc[s] # "idle"
  /\ FailBatch(s, batch[s])
  /\ UNCHANGED storeVars

----------------------------------------------------------------------------
(* The environment                                                         *)

Published == {r.ev : r \in UNION {Range(stream[s]) : s \in Shards}}

(* A feed is produced in event order, but records that are refused reach   *)
(* the stream later, and so do late arrivals: any order is possible.       *)
Produce(e) ==
  /\ e \notin Published
  /\ stream' = [stream EXCEPT ![ShardOf[e.user]] =
                  Append(@, [ev |-> e, arrival |-> now])]
  /\ UNCHANGED <<esmVars, lambdaVars, storeVars>>

(* DynamoDB deletes an expired item some time after its expiry.            *)
TtlDelete(x) ==
  /\ table[x] # EmptyState
  /\ table[x].expires_at <= now
  /\ PutItem(x, EmptyState)
  /\ UNCHANGED <<stream, esmVars, lambdaVars, raw, held, now>>

Tick ==
  /\ now < MaxNow
  /\ now' = now + 1
  /\ UNCHANGED <<stream, esmVars, lambdaVars, table, older, raw, held>>

----------------------------------------------------------------------------
Init ==
  /\ stream = [s \in Shards |-> << >>]
  /\ polled = [s \in Shards |-> 0]
  /\ work = [s \in Shards |-> {}]
  /\ dlq = [s \in Shards |-> {}]
  /\ done = [s \in Shards |-> {}]
  /\ pc = [s \in Shards |-> "idle"]
  /\ batch = [s \in Shards |-> NoBatch]
  /\ left = [s \in Shards |-> {}]
  /\ todo = [s \in Shards |-> {}]
  /\ sid = [s \in Shards |-> NoSession]
  /\ state = [s \in Shards |-> EmptyState]
  /\ cart = [s \in Shards |-> 0]
  /\ table = [x \in Sessions |-> EmptyState]
  /\ older = [x \in Sessions |-> EmptyState]
  /\ raw = {}
  /\ held = {}
  /\ now = 0

ShardStep(s) ==
  \/ Poll(s)
  \/ Invoke(s)
  \/ DecodeRaises(s)
  \/ WriteRaw(s)
  \/ WriteLate(s)
  \/ WriteFails(s)
  \/ Get(s)
  \/ GetFails(s)
  \/ Apply(s)
  \/ Close(s)
  \/ FinalPut(s)
  \/ PutFails(s)
  \/ Return(s)
  \/ Crash(s)

Next ==
  \/ \E s \in Shards : ShardStep(s)
  \/ \E e \in Events : Produce(e)
  \/ \E x \in Sessions : TtlDelete(x)
  \/ Tick

Spec == Init /\ [][Next]_vars

(* Lambda keeps polling and a running invocation keeps running (or is      *)
(* killed): each shard is served.  Nothing else is fair.                   *)
FairSpec == Spec /\ \A s \in Shards : WF_vars(ShardStep(s))
----------------------------------------------------------------------------
(* Properties                                                              *)

(* Every variable has its type.                                            *)
TypeOK ==
  /\ stream \in [Shards -> Seq(Record)]
  /\ polled \in [Shards -> Nat]
  /\ work \in [Shards -> SUBSET Batch]
  /\ dlq \in [Shards -> SUBSET [lo : Nat, hi : Nat]]
  /\ done \in [Shards -> SUBSET Nat]
  /\ pc \in [Shards -> {"idle", "raw", "late", "next", "apply"}]
  /\ batch \in [Shards -> Batch]
  /\ left \in [Shards -> SUBSET Nat]
  /\ todo \in [Shards -> SUBSET Nat]
  /\ sid \in [Shards -> Sessions]
  /\ state \in [Shards -> State]
  /\ cart \in [Shards -> Nat]
  /\ table \in [Sessions -> State]
  /\ older \in [Sessions -> State]
  /\ raw \subseteq Object
  /\ held \subseteq Object
  /\ now \in Nat

Pending(s) == UNION {Span(b) : b \in work[s]}
Dead(s) == UNION {Span(d) : d \in dlq[s]}

(* Retries, bisection and the dead-letter queue lose no record and handle  *)
(* none twice: every record taken from a shard is pending, was in a batch  *)
(* whose invocation succeeded, or is named by one message of the queue.    *)
Accounted ==
  \A s \in Shards :
    /\ 1 .. polled[s] = Pending(s) \cup done[s] \cup Dead(s)
    /\ Pending(s) \cap (done[s] \cup Dead(s)) = {}
    /\ done[s] \cap Dead(s) = {}
    /\ \A b, c \in work[s] : b # c => Span(b) \cap Span(c) = {}
    /\ \A d, e \in dlq[s] : d # e => Span(d) \cap Span(e) = {}

(* A shard is served in order: while a batch is in the handler, everything *)
(* before it has been settled, whatever was bisected and retried.          *)
ServedInOrder ==
  \A s \in Shards :
    pc[s] # "idle" =>
      /\ batch[s] \in work[s]
      /\ 1 .. (batch[s].lo - 1) \subseteq done[s] \cup Dead(s)

(* No record counts twice in a session.  The batch is retried when S3      *)
(* fails, but only before the first write to the table; DynamoDB errors    *)
(* are swallowed so that they do not retry it.                             *)
CountedOnce == \A x \in Sessions : IsInjective(table[x].log)

TimeOf(p) == Ev(p[1], p[2]).time
SidOf(p) == Ev(p[1], p[2]).sid

(* A stored session is in event order, up to what the stream itself had in *)
(* another order in different batches: two of its events stand the wrong   *)
(* way round only if the shard delivered them so, and never within one     *)
(* batch, whatever was bisected, retried, read stale or lost to errors.    *)
InEventOrder ==
  \A x \in Sessions :
    LET log == table[x].log
    IN  \A i, j \in DOMAIN log :
          i < j /\ TimeOf(log[i]) > TimeOf(log[j]) /\ log[i][1] = log[j][1] =>
            /\ log[i][2] < log[j][2]
            /\ LET s == log[i][1] IN ~({log[i][2], log[j][2]} \subseteq Span(batch[s]))

(* In the archive, or taken out of it by an object of the same name: one   *)
(* written in the same second and with the same number of events.          *)
IsIn(p, objects) == \E o \in objects : o.live /\ p \in o.at
WasIn(p, objects) ==
  \E o, new \in objects : p \in o.at /\ new.live /\ SameName(o, new)

(* Whatever the table shows, and whatever a successful invocation passed   *)
(* over, has been put in the raw archive before and is there, unless an    *)
(* object of the same name has replaced it; and no late arrival is in the  *)
(* table: they went to late-arrivals/ for the batch layer.                 *)
Archived ==
  /\ \A x \in Sessions : \A p \in Range(table[x].log) :
       WasIn(p, raw) /\ ~Ev(p[1], p[2]).late
  /\ \A s \in Shards : \A i \in done[s] :
       Ev(s, i).kind = "event" =>
         WasIn(<<s, i>>, raw) /\ (Ev(s, i).late => WasIn(<<s, i>>, held))

(* An item is not due to expire before ttl_hours have passed since the     *)
(* first event of its session arrived: closing a session and beginning the *)
(* next under the same key renews the expiry.                              *)
ArrivalOf(p) == stream[p[1]][p[2]].arrival
LivesFromFirstEvent ==
  \A x \in Sessions : table[x] # EmptyState =>
    table[x].expires_at >= ArrivalOf(table[x].log[1]) + TtlTicks

(* Every record is dealt with in the end: its batch succeeds or is named   *)
(* in the dead-letter queue, however often invocations fail.               *)
Settled(e) ==
  \E s \in Shards : \E i \in done[s] \cup Dead(s) : Ev(s, i) = e
EventuallySettled == \A e \in Events : e \in Published ~> Settled(e)

(* An on-time event that waits in the stream will be among those folded    *)
(* into its session's item, for a moment at least (a later session takes   *)
(* the same key), unless its batch ends in the dead-letter queue.          *)
Waiting(e) ==
  \E s \in Shards : \E i \in DOMAIN stream[s] : i > polled[s] /\ Ev(s, i) = e
Reflected(e) == \E p \in Range(table[e.sid].log) : Ev(p[1], p[2]) = e
GivenUp(e) == \E s \in Shards : \E i \in Dead(s) : Ev(s, i) = e
EventuallyReflected ==
  \A e \in Events :
    e.kind = "event" /\ ~e.late => (Waiting(e) ~> Reflected(e) \/ GivenUp(e))

(* The table does what SpeedLayer promises, as long as no session id is    *)
(* shared by shards.                                                       *)
SL == INSTANCE SpeedLayer
ImplementsSpeedLayer == SL!Spec

(* What the repository says, or a reader expects, and the code does not do.*)

(* handler.py: all events are written to S3 for the batch layer.           *)
AllInArchive ==
  \A x \in Sessions : \A p \in Range(table[x].log) : IsIn(p, raw)

(* put_session keeps what was there: an update only adds to the log of an  *)
(* open session.                                                           *)
NoUpdateLost ==
  [][\A x \in Sessions :
       table[x].closed \/ table'[x] = EmptyState
         \/ SL!StartsWith(table'[x].log, table[x].log)]_vars

(* architecture.md: cart_total is the running sum of the cart prices.      *)
CartIsRunningSum ==
  \A x \in Sessions :
    LET log == table[x].log
        sum[n \in 0 .. Len(log)] ==
          IF n = 0 THEN 0 ELSE CartStep(sum[n - 1], Ev(log[n][1], log[n][2]))
    IN  ~table[x].closed => table[x].cart_total = sum[Len(log)]

(* handler.py: at a boundary the old session is persisted.                 *)
ClosedSessionKept ==
  [][\A x \in Sessions :
       table[x].closed => table'[x] \in {table[x], EmptyState}]_vars

(* put_session: the item expires ttl_hours after the last event.           *)
LivesFromLastEvent ==
  \A x \in Sessions : table[x] # EmptyState =>
    table[x].expires_at >= ArrivalOf(table[x].log[Len(table[x].log)]) + TtlTicks

(* get_session: an expired session is not returned.                        *)
ExpiredNotRead ==
  [][\A s \in Shards :
       pc[s] = "next" /\ pc'[s] = "apply" /\ state'[s] # EmptyState
         => state'[s].expires_at > now]_vars

(* session_state.py: a gap of more than the timeout begins a new session.  *)
GapsSplit ==
  \A x \in Sessions :
    LET log == table[x].log
    IN  \A i \in 2 .. Len(log) : TimeOf(log[i]) - TimeOf(log[i - 1]) <= Timeout
============================================================================
