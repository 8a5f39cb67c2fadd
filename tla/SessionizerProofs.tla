------------------------- MODULE SessionizerProofs -------------------------
(***************************************************************************)
(* Theorems about Sessionizer, for every feed, every number of shards and  *)
(* every choice of its constants.                                          *)
(***************************************************************************)
EXTENDS Sessionizer, FiniteSetTheorems, TLAPS

----------------------------------------------------------------------------
(* The pure part                                                           *)

LEMMA EmptyStateType == EmptyState \in State
  BY DEF EmptyState, State, Position

LEMMA UpdateType ==
  ASSUME NEW st \in State, NEW e \in Event, NEW p \in Position
  PROVE  Update(st, e, p) \in State
<1> DEFINE first == IF st = EmptyState THEN e.time ELSE st.session_start
           conv == st.converted \/ e.type = "purchase"
<1>1. /\ st.event_count + 1 \in Nat
      /\ e.time \in Nat
      /\ first \in Nat
      /\ Append(st.log, p) \in Seq(Position)
  BY DEF State, Event
<1>2. conv \in BOOLEAN
  OBVIOUS
<1>3. st \in State
  OBVIOUS
<1> HIDE DEF first, conv
<1>4. [st EXCEPT !.event_count = st.event_count + 1,
                 !.last_event_time = e.time,
                 !.session_start = first,
                 !.converted = conv,
                 !.log = Append(st.log, p)] \in State
  BY <1>1, <1>2, <1>3 DEF State
<1> QED
  BY <1>4 DEF Update, first, conv

LEMMA ItemType ==
  ASSUME NEW st \in State, NEW t \in Nat
  PROVE  /\ Item(st, t) \in State
         /\ Item(Closed(st), t) \in State
         /\ \A c \in Nat : Item([st EXCEPT !.cart_total = c], t) \in State
<1>1. \A u \in State : Item(u, t) \in State
  <2> SUFFICES ASSUME NEW u \in State PROVE Item(u, t) \in State
    OBVIOUS
  <2> DEFINE exp == IF u.expires_at = 0 THEN t + TtlTicks ELSE u.expires_at
  <2>1. exp \in Nat
    BY LogicAssumption DEF State
  <2> HIDE DEF exp
  <2>2. [u EXCEPT !.expires_at = exp] \in State
    BY <2>1 DEF State
  <2> QED
    BY <2>2 DEF Item, exp
<1>2. Closed(st) \in State
  BY DEF Closed, State
<1>3. \A c \in Nat : [st EXCEPT !.cart_total = c] \in State
  BY DEF State
<1> QED
  BY <1>1, <1>2, <1>3

LEMMA CartStepType ==
  ASSUME NEW n \in Nat, NEW e \in Event
  PROVE  CartStep(n, e) \in Nat
  BY DEF CartStep, Event

LEMMA NoSessionType == NoSession \in Sessions
  BY SessionizerAssumption DEF NoSession

----------------------------------------------------------------------------
(* Type correctness                                                        *)

(* What a typing of the handler needs besides the types: the batches, and  *)
(* the positions an invocation still has to visit, lie in the stream.      *)
WorkInStream(s) ==
  /\ polled[s] <= Len(stream[s])
  /\ \A b \in work[s] : 1 <= b.lo /\ b.lo <= b.hi /\ b.hi <= polled[s]

VisitsInStream(s) ==
  /\ left[s] \subseteq 1 .. Len(stream[s])
  /\ todo[s] \subseteq 1 .. Len(stream[s])
  /\ pc[s] # "idle" => batch[s] \in work[s]

TypeInv == TypeOK /\ \A s \in Shards : WorkInStream(s) /\ VisitsInStream(s)

LEMMA EventAt ==
  ASSUME TypeOK, NEW s \in Shards, NEW i \in 1 .. Len(stream[s])
  PROVE  Ev(s, i) \in Event /\ <<s, i>> \in Position
<1>1. stream[s] \in Seq(Record)
  BY DEF TypeOK
<1>2. stream[s][i] \in Record
  BY <1>1
<1> QED
  BY <1>2 DEF Ev, Record, Position

LEMMA BatchInStream ==
  ASSUME TypeInv, NEW s \in Shards, NEW b \in work[s]
  PROVE  /\ b \in Batch
         /\ Span(b) \subseteq 1 .. polled[s]
         /\ Span(b) \subseteq 1 .. Len(stream[s])
  BY DEF TypeInv, TypeOK, WorkInStream, Span, Batch

LEMMA PutObjectType ==
  ASSUME TypeOK, NEW s \in Shards, NEW b \in Batch,
         NEW positions \in SUBSET Span(b), NEW objects \in SUBSET Object
  PROVE  PutObject(objects, s, positions) \in SUBSET Object
<1>1. Cardinality(positions) \in Nat
  <2>1. IsFiniteSet(Span(b))
    BY FS_Interval DEF Span, Batch
  <2> QED
    BY <2>1, FS_Subset, FS_CardinalityType
<1>2. now \in Nat
  BY DEF TypeOK
<1>3. {s} \X positions \in SUBSET Position
  <2>1. positions \subseteq Nat
    BY DEF Span, Batch
  <2> QED
    BY <2>1 DEF Position
<1> DEFINE new == [second |-> now, size |-> Cardinality(positions),
                   at |-> {s} \X positions, live |-> TRUE]
<1>4. new \in Object
  BY <1>1, <1>2, <1>3 DEF Object
<1>5. \A o \in objects : [o EXCEPT !.live = FALSE] \in Object
  BY DEF Object
<1> HIDE DEF new
<1>6. {IF SameName(o, new) THEN [o EXCEPT !.live = FALSE] ELSE o : o \in objects}
        \subseteq Object
  BY <1>5
<1> QED
  BY <1>4, <1>6 DEF PutObject, new

LEMMA PutItemType ==
  ASSUME TypeOK, NEW x \in Sessions, NEW item \in State, PutItem(x, item)
  PROVE  /\ table' \in [Sessions -> State]
         /\ older' \in [Sessions -> State]
  BY DEF TypeOK, PutItem

LEMMA ReadOfType ==
  ASSUME TypeOK, NEW x \in Sessions, NEW item \in ReadOf(x)
  PROVE  item \in State
  BY DEF TypeOK, ReadOf

LEMMA EndInvocationType ==
  ASSUME TypeOK, NEW s \in Shards, EndInvocation(s)
  PROVE  /\ pc' \in [Shards -> {"idle", "raw", "late", "next", "apply"}]
         /\ batch' \in [Shards -> Batch]
         /\ left' \in [Shards -> SUBSET Nat]
         /\ todo' \in [Shards -> SUBSET Nat]
         /\ sid' \in [Shards -> Sessions]
         /\ state' \in [Shards -> State]
         /\ cart' \in [Shards -> Nat]
  BY EmptyStateType, NoSessionType DEF TypeOK, EndInvocation, NoBatch, Batch

(* Bisecting a batch yields two batches that divide its span.              *)
LEMMA Halves ==
  ASSUME NEW b \in Batch, 1 <= b.lo, b.lo < b.hi,
         NEW mid, mid = (b.lo + b.hi) \div 2
  PROVE  /\ mid \in Nat
         /\ b.lo <= mid
         /\ mid + 1 <= b.hi
         /\ b.lo .. b.hi = (b.lo .. mid) \cup ((mid + 1) .. b.hi)
         /\ (b.lo .. mid) \cap ((mid + 1) .. b.hi) = {}
  BY DEF Batch

LEMMA FailBatchType ==
  ASSUME TypeInv, NEW s \in Shards, NEW b \in work[s], FailBatch(s, b),
         UNCHANGED storeVars
  PROVE  TypeInv'
<1>1. b \in Batch /\ 1 <= b.lo /\ b.lo <= b.hi /\ b.hi <= polled[s]
  BY BatchInStream DEF TypeInv, WorkInStream
<1>2. /\ work' \in [Shards -> SUBSET Batch]
      /\ dlq' \in [Shards -> SUBSET [lo : Nat, hi : Nat]]
      /\ \A c \in work'[s] : 1 <= c.lo /\ c.lo <= c.hi /\ c.hi <= polled[s]
      /\ \A t \in Shards \ {s} : work'[t] = work[t]
  <2>1. CASE GiveUp(s, b)
    BY <1>1, <2>1 DEF GiveUp, TypeInv, TypeOK, WorkInStream, Batch
  <2>2. CASE RetryWhole(s, b)
    <3>1. [b EXCEPT !.tries = @ + 1] \in Batch
      BY <1>1 DEF Batch
    <3>2. /\ [b EXCEPT !.tries = @ + 1].lo = b.lo
          /\ [b EXCEPT !.tries = @ + 1].hi = b.hi
      BY <1>1 DEF Batch
    <3> QED
      BY <1>1, <2>2, <3>1, <3>2 DEF RetryWhole, TypeInv, TypeOK, WorkInStream
  <2>3. CASE Bisect(s, b)
    <3> DEFINE mid == (b.lo + b.hi) \div 2
    <3>0. PICK n \in {b.tries, b.tries + 1} :
            work' = [work EXCEPT ![s] = (@ \ {b}) \cup
                       {[lo |-> b.lo, hi |-> mid, tries |-> n],
                        [lo |-> mid + 1, hi |-> b.hi, tries |-> n]}]
      BY <2>3 DEF Bisect
    <3> DEFINE lower == [lo |-> b.lo, hi |-> mid, tries |-> n]
               upper == [lo |-> mid + 1, hi |-> b.hi, tries |-> n]
    <3>1. mid \in Nat /\ b.lo <= mid /\ mid + 1 <= b.hi
      BY <1>1, <2>3, Halves DEF Bisect
    <3>2. work' = [work EXCEPT ![s] = (@ \ {b}) \cup {lower, upper}] /\ dlq' = dlq
      BY <2>3, <3>0 DEF Bisect
    <3>3. lower \in Batch /\ upper \in Batch
      BY <1>1, <3>1 DEF Batch
    <3> HIDE DEF mid
    <3>4. /\ lower.lo = b.lo /\ lower.hi = mid
          /\ upper.lo = mid + 1 /\ upper.hi = b.hi
      OBVIOUS
    <3>5. /\ 1 <= lower.lo /\ lower.lo <= lower.hi /\ lower.hi <= polled[s]
          /\ 1 <= upper.lo /\ upper.lo <= upper.hi /\ upper.hi <= polled[s]
      BY <1>1, <3>1, <3>4 DEF TypeInv, TypeOK, Batch
    <3> HIDE DEF lower, upper
    <3> QED
      BY <3>2, <3>3, <3>5 DEF TypeInv, TypeOK, WorkInStream
  <2> QED
    BY <2>1, <2>2, <2>3 DEF FailBatch
<1>3. TypeOK'
  BY <1>2, EndInvocationType DEF FailBatch, TypeInv, TypeOK, storeVars
<1>4. ASSUME NEW t \in Shards
      PROVE  WorkInStream(t)' /\ VisitsInStream(t)'
  BY <1>2 DEF FailBatch, EndInvocation, TypeInv, TypeOK, WorkInStream, VisitsInStream
<1> QED
  BY <1>3, <1>4 DEF TypeInv

LEMMA TypeInvInit == Init => TypeInv
<1> SUFFICES ASSUME Init PROVE TypeInv
  OBVIOUS
<1>1. TypeOK
  BY EmptyStateType, NoSessionType DEF Init, TypeOK, NoBatch, Batch, Object
<1>2. \A s \in Shards : WorkInStream(s) /\ VisitsInStream(s)
  BY DEF Init, WorkInStream, VisitsInStream
<1> QED
  BY <1>1, <1>2 DEF TypeInv

LEMMA TypeInvStep == TypeInv /\ [Next]_vars => TypeInv'
<1> SUFFICES ASSUME TypeInv, [Next]_vars PROVE TypeInv'
  OBVIOUS
<1> USE DEF esmVars, lambdaVars, storeVars
<1>1. ASSUME NEW s \in Shards, Poll(s) PROVE TypeInv'
  <2>1. PICK hi \in (polled[s] + 1) .. Len(stream[s]) :
          /\ work' = [work EXCEPT ![s] =
                       {[lo |-> polled[s] + 1, hi |-> hi, tries |-> 0]}]
          /\ polled' = [polled EXCEPT ![s] = hi]
    BY <1>1 DEF Poll
  <2>2. work[s] = {} /\ pc[s] = "idle"
    BY <1>1 DEF Poll, TypeInv, VisitsInStream
  <2>3. [lo |-> polled[s] + 1, hi |-> hi, tries |-> 0] \in Batch /\ hi \in Nat
    BY DEF Batch, TypeInv, TypeOK
  <2>4. TypeOK'
    BY <1>1, <2>1, <2>3 DEF Poll, TypeInv, TypeOK
  <2>5. \A t \in Shards : WorkInStream(t)' /\ VisitsInStream(t)'
    BY <1>1, <2>1, <2>2, <2>3 DEF Poll, TypeInv, TypeOK, WorkInStream, VisitsInStream
  <2> QED
    BY <2>4, <2>5 DEF TypeInv
<1>2. ASSUME NEW s \in Shards, Invoke(s) PROVE TypeInv'
  <2>1. PICK b \in work[s] :
          /\ batch' = [batch EXCEPT ![s] = b]
          /\ left' = [left EXCEPT ![s] = OnTime(s, b)]
    BY <1>2 DEF Invoke
  <2>2. /\ b \in Batch
        /\ OnTime(s, b) \subseteq 1 .. Len(stream[s])
        /\ OnTime(s, b) \subseteq Nat
    BY BatchInStream DEF OnTime, Decoded
  <2>3. TypeOK'
    BY <1>2, <2>1, <2>2 DEF Invoke, TypeInv, TypeOK
  <2>4. \A t \in Shards : WorkInStream(t)' /\ VisitsInStream(t)'
    BY <1>2, <2>1, <2>2 DEF Invoke, TypeInv, TypeOK, WorkInStream, VisitsInStream
  <2> QED
    BY <2>3, <2>4 DEF TypeInv
<1>3. ASSUME NEW s \in Shards, DecodeRaises(s) PROVE TypeInv'
  BY <1>3, FailBatchType DEF DecodeRaises
<1>4. ASSUME NEW s \in Shards, WriteRaw(s) PROVE TypeInv'
  <2>1. batch[s] \in work[s] /\ batch[s] \in Batch
    BY <1>4, BatchInStream DEF WriteRaw, TypeInv, VisitsInStream
  <2>2. raw' \in SUBSET Object
    BY <1>4, <2>1, PutObjectType DEF WriteRaw, TypeInv, TypeOK, Decoded
  <2>3. TypeOK'
    BY <1>4, <2>2 DEF WriteRaw, TypeInv, TypeOK
  <2>4. \A t \in Shards : WorkInStream(t)' /\ VisitsInStream(t)'
    BY <1>4, <2>1 DEF WriteRaw, TypeInv, TypeOK, WorkInStream, VisitsInStream
  <2> QED
    BY <2>3, <2>4 DEF TypeInv
<1>5. ASSUME NEW s \in Shards, WriteLate(s) PROVE TypeInv'
  <2>1. batch[s] \in work[s] /\ batch[s] \in Batch
    BY <1>5, BatchInStream DEF WriteLate, TypeInv, VisitsInStream
  <2>2. held' \in SUBSET Object
    BY <1>5, <2>1, PutObjectType DEF WriteLate, TypeInv, TypeOK, LateOnes, Decoded
  <2>3. TypeOK'
    BY <1>5, <2>2 DEF WriteLate, TypeInv, TypeOK
  <2>4. \A t \in Shards : WorkInStream(t)' /\ VisitsInStream(t)'
    BY <1>5, <2>1 DEF WriteLate, TypeInv, TypeOK, WorkInStream, VisitsInStream
  <2> QED
    BY <2>3, <2>4 DEF TypeInv
<1>6. ASSUME NEW s \in Shards, WriteFails(s) PROVE TypeInv'
  <2>1. batch[s] \in work[s]
    BY <1>6 DEF WriteFails, TypeInv, VisitsInStream
  <2> QED
    BY <1>6, <2>1, FailBatchType DEF WriteFails
<1>7. ASSUME NEW s \in Shards, Get(s) PROVE TypeInv'
  <2>0. PICK i \in left[s] : \E item \in ReadOf(Ev(s, i).sid) :
          /\ todo' = [todo EXCEPT ![s] = Group(s, i)]
          /\ left' = [left EXCEPT ![s] = @ \ Group(s, i)]
          /\ sid' = [sid EXCEPT ![s] = Ev(s, i).sid]
          /\ state' = [state EXCEPT ![s] = item]
    BY <1>7 DEF Get
  <2>1. PICK item \in ReadOf(Ev(s, i).sid) :
          /\ todo' = [todo EXCEPT ![s] = Group(s, i)]
          /\ left' = [left EXCEPT ![s] = @ \ Group(s, i)]
          /\ sid' = [sid EXCEPT ![s] = Ev(s, i).sid]
          /\ state' = [state EXCEPT ![s] = item]
    BY <2>0
  <2>2. Ev(s, i) \in Event
    BY EventAt DEF TypeInv, VisitsInStream
  <2>3. Ev(s, i).sid \in Sessions /\ item \in State
    BY <2>2, ReadOfType DEF Event, TypeInv
  <2>4. Group(s, i) \subseteq left[s]
    BY DEF Group
  <2>5. TypeOK'
    BY <1>7, <2>1, <2>3, <2>4 DEF Get, TypeInv, TypeOK
  <2>6. \A t \in Shards : WorkInStream(t)' /\ VisitsInStream(t)'
    BY <1>7, <2>1, <2>4 DEF Get, TypeInv, TypeOK, WorkInStream, VisitsInStream
  <2> QED
    BY <2>5, <2>6 DEF TypeInv
<1>8. ASSUME NEW s \in Shards, GetFails(s) PROVE TypeInv'
  BY <1>8 DEF GetFails, TypeInv, TypeOK, WorkInStream, VisitsInStream
<1>9. ASSUME NEW s \in Shards, Apply(s) PROVE TypeInv'
  <2>1. PICK i \in todo[s] :
          /\ todo' = [todo EXCEPT ![s] = @ \ {i}]
          /\ state' = [state EXCEPT ![s] = Update(@, Ev(s, i), <<s, i>>)]
          /\ cart' = [cart EXCEPT ![s] = CartStep(@, Ev(s, i))]
    BY <1>9 DEF Apply
  <2>2. Ev(s, i) \in Event /\ <<s, i>> \in Position
    BY EventAt DEF TypeInv, VisitsInStream
  <2>3. /\ Update(state[s], Ev(s, i), <<s, i>>) \in State
        /\ CartStep(cart[s], Ev(s, i)) \in Nat
    BY <2>2, UpdateType, CartStepType DEF TypeInv, TypeOK
  <2>4. TypeOK'
    BY <1>9, <2>1, <2>3 DEF Apply, TypeInv, TypeOK
  <2>5. \A t \in Shards : WorkInStream(t)' /\ VisitsInStream(t)'
    BY <1>9, <2>1 DEF Apply, TypeInv, TypeOK, WorkInStream, VisitsInStream
  <2> QED
    BY <2>4, <2>5 DEF TypeInv
<1>10. ASSUME NEW s \in Shards, Close(s) PROVE TypeInv'
  <2>1. PICK i \in todo[s] :
          /\ todo' = [todo EXCEPT ![s] = @ \ {i}]
          /\ state' = [state EXCEPT ![s] = Update(EmptyState, Ev(s, i), <<s, i>>)]
          /\ cart' = [cart EXCEPT ![s] = CartStep(@, Ev(s, i))]
    BY <1>10 DEF Close
  <2>2. Ev(s, i) \in Event /\ <<s, i>> \in Position
    BY EventAt DEF TypeInv, VisitsInStream
  <2>3. /\ Update(EmptyState, Ev(s, i), <<s, i>>) \in State
        /\ CartStep(cart[s], Ev(s, i)) \in Nat
        /\ Item(Closed(state[s]), now) \in State
    BY <2>2, EmptyStateType, UpdateType, CartStepType, ItemType DEF TypeInv, TypeOK
  <2>6. table' \in [Sessions -> State] /\ older' \in [Sessions -> State]
    BY <1>10, <2>3, PutItemType DEF Close, TypeInv, TypeOK
  <2>4. TypeOK'
    BY <1>10, <2>1, <2>3, <2>6 DEF Close, TypeInv, TypeOK
  <2>5. \A t \in Shards : WorkInStream(t)' /\ VisitsInStream(t)'
    BY <1>10, <2>1 DEF Close, TypeInv, TypeOK, WorkInStream, VisitsInStream
  <2> QED
    BY <2>4, <2>5 DEF TypeInv
<1>11. ASSUME NEW s \in Shards, FinalPut(s) PROVE TypeInv'
  <2>1. Item([state[s] EXCEPT !.cart_total = cart[s]], now) \in State
    BY ItemType DEF TypeInv, TypeOK
  <2>4. table' \in [Sessions -> State] /\ older' \in [Sessions -> State]
    BY <1>11, <2>1, PutItemType DEF FinalPut, TypeInv, TypeOK
  <2>2. TypeOK'
    BY <1>11, <2>4 DEF FinalPut, TypeInv, TypeOK
  <2>3. \A t \in Shards : WorkInStream(t)' /\ VisitsInStream(t)'
    BY <1>11 DEF FinalPut, TypeInv, TypeOK, WorkInStream, VisitsInStream
  <2> QED
    BY <2>2, <2>3 DEF TypeInv
<1>12. ASSUME NEW s \in Shards, PutFails(s) PROVE TypeInv'
  BY <1>12 DEF PutFails, TypeInv, TypeOK, WorkInStream, VisitsInStream
<1>13. ASSUME NEW s \in Shards, Return(s) PROVE TypeInv'
  <2>1. Span(batch[s]) \subseteq Nat
    BY DEF Span, TypeInv, TypeOK, Batch
  <2>2. TypeOK'
    BY <1>13, <2>1, EndInvocationType DEF Return, TypeInv, TypeOK
  <2>3. \A t \in Shards : WorkInStream(t)' /\ VisitsInStream(t)'
    BY <1>13 DEF Return, EndInvocation, TypeInv, TypeOK, WorkInStream, VisitsInStream
  <2> QED
    BY <2>2, <2>3 DEF TypeInv
<1>14. ASSUME NEW s \in Shards, Crash(s) PROVE TypeInv'
  <2>1. batch[s] \in work[s]
    BY <1>14 DEF Crash, TypeInv, VisitsInStream
  <2> QED
    BY <1>14, <2>1, FailBatchType DEF Crash
<1>15. ASSUME NEW e \in Events, Produce(e) PROVE TypeInv'
  <2> DEFINE sh == ShardOf[e.user]
             r == [ev |-> e, arrival |-> now]
  <2>1. e \in Event /\ sh \in Shards
    BY SessionizerAssumption DEF Event
  <2>2. r \in Record
    BY <2>1 DEF Record, TypeInv, TypeOK
  <2>3. stream' = [stream EXCEPT ![sh] = Append(@, r)]
    BY <1>15 DEF Produce
  <2> HIDE DEF sh, r
  <2>4. /\ stream' \in [Shards -> Seq(Record)]
        /\ \A t \in Shards : Len(stream[t]) <= Len(stream'[t])
        /\ \A t \in Shards : Len(stream[t]) \in Nat /\ Len(stream'[t]) \in Nat
    BY <2>1, <2>2, <2>3 DEF TypeInv, TypeOK
  <2>5. TypeOK'
    BY <1>15, <2>4 DEF Produce, TypeInv, TypeOK
  <2>6. \A t \in Shards : WorkInStream(t)' /\ VisitsInStream(t)'
    BY <1>15, <2>4 DEF Produce, TypeInv, TypeOK, WorkInStream, VisitsInStream
  <2> QED
    BY <2>5, <2>6 DEF TypeInv
<1>16. ASSUME NEW x \in Sessions, TtlDelete(x) PROVE TypeInv'
  <2>1. table' \in [Sessions -> State] /\ older' \in [Sessions -> State]
    BY <1>16, EmptyStateType, PutItemType DEF TtlDelete, TypeInv
  <2> QED
    BY <1>16, <2>1 DEF TtlDelete, TypeInv, TypeOK, WorkInStream, VisitsInStream
<1>17. CASE Tick
  BY <1>17 DEF Tick, TypeInv, TypeOK, WorkInStream, VisitsInStream
<1>18. CASE UNCHANGED vars
  BY <1>18 DEF vars, TypeInv, TypeOK, WorkInStream, VisitsInStream
<1> QED
  BY <1>1, <1>2, <1>3, <1>4, <1>5, <1>6, <1>7, <1>8, <1>9, <1>10, <1>11, <1>12,
     <1>13, <1>14, <1>15, <1>16, <1>17, <1>18 DEF Next, ShardStep

(* Every variable has its type in every reachable state, and the positions *)
(* an invocation visits are positions of records in its shard.             *)
THEOREM TypeCorrect == Spec => []TypeInv
  BY TypeInvInit, TypeInvStep, PTL DEF Spec

(* In particular the type invariant that TLC checks.                       *)
THEOREM TypeSafety == Spec => []TypeOK
<1>1. TypeInv => TypeOK
  BY DEF TypeInv
<1> QED
  BY <1>1, TypeCorrect, PTL

----------------------------------------------------------------------------
(* Every record has one fate, and shards are served in order               *)

AccountedIn(s) ==
  /\ 1 .. polled[s] = Pending(s) \cup done[s] \cup Dead(s)
  /\ Pending(s) \cap (done[s] \cup Dead(s)) = {}
  /\ done[s] \cap Dead(s) = {}
  /\ \A b, c \in work[s] : b # c => Span(b) \cap Span(c) = {}
  /\ \A d, e \in dlq[s] : d # e => Span(d) \cap Span(e) = {}

InOrderIn(s) ==
  pc[s] # "idle" =>
    /\ batch[s] \in work[s]
    /\ 1 .. (batch[s].lo - 1) \subseteq done[s] \cup Dead(s)

ServiceInv == TypeInv /\ \A s \in Shards : AccountedIn(s) /\ InOrderIn(s)

Spans(W) == UNION {Span(b) : b \in W}
Apart(W) == \A b, c \in W : b # c => Span(b) \cap Span(c) = {}

(* Replacing a batch by batches that divide its span changes nothing.      *)
LEMMA Divide ==
  ASSUME NEW W, NEW N, NEW b \in W, Apart(W), Apart(N), Spans(N) = Span(b)
  PROVE  /\ Spans((W \ {b}) \cup N) = Spans(W)
         /\ Apart((W \ {b}) \cup N)
<1>1. \A c \in N : Span(c) \subseteq Span(b)
  BY DEF Spans
<1>2. \A c \in W \ {b} : Span(c) \cap Span(b) = {}
  BY DEF Apart
<1>3. Spans((W \ {b}) \cup N) = Spans(W \ {b}) \cup Spans(N)
  BY DEF Spans
<1>4. Spans(W) = Spans(W \ {b}) \cup Span(b)
  BY DEF Spans
<1> QED
  BY <1>1, <1>2, <1>3, <1>4 DEF Apart

(* Taking a batch out takes out just its span.                             *)
LEMMA TakeOut ==
  ASSUME NEW W, NEW b \in W, Apart(W)
  PROVE  /\ Spans(W \ {b}) = Spans(W) \ Span(b)
         /\ Span(b) \subseteq Spans(W)
         /\ Apart(W \ {b})
  BY DEF Spans, Apart

LEMMA FailBatchService ==
  ASSUME ServiceInv, NEW s \in Shards, NEW b \in work[s], FailBatch(s, b)
  PROVE  AccountedIn(s)'
<1>1. b \in Batch /\ 1 <= b.lo /\ b.lo <= b.hi
  BY BatchInStream DEF ServiceInv, TypeInv, WorkInStream
<1>2. /\ Apart(work[s])
      /\ Pending(s) = Spans(work[s])
      /\ Pending(s)' = Spans(work'[s])
      /\ polled'[s] = polled[s]
      /\ done'[s] = done[s]
      /\ AccountedIn(s)
  BY DEF ServiceInv, AccountedIn, Apart, Pending, Spans, FailBatch
<1>3. CASE GiveUp(s, b)
  <2> DEFINE d == [lo |-> b.lo, hi |-> b.hi]
  <2>1. work'[s] = work[s] \ {b} /\ dlq'[s] = dlq[s] \cup {d}
    BY <1>3 DEF GiveUp, ServiceInv, TypeInv, TypeOK
  <2>2. Span(d) = Span(b)
    BY DEF Span
  <2> HIDE DEF d
  <2>3. Dead(s)' = Dead(s) \cup Span(b)
    BY <2>1, <2>2 DEF Dead
  <2>4. Pending(s)' = Pending(s) \ Span(b) /\ Span(b) \subseteq Pending(s)
    BY <1>2, <2>1, TakeOut
  <2>5. \A e \in dlq[s] : Span(e) \cap Span(b) = {}
    <3>1. \A e \in dlq[s] : Span(e) \subseteq Dead(s)
      BY DEF Dead
    <3> QED
      BY <1>2, <2>4, <3>1 DEF AccountedIn
  <2>6. \A e, f \in dlq'[s] : e # f => Span(e) \cap Span(f) = {}
    BY <1>2, <2>1, <2>2, <2>5 DEF AccountedIn
  <2>7. \A c, e \in work'[s] : c # e => Span(c) \cap Span(e) = {}
    BY <1>2, <2>1 DEF AccountedIn
  <2> QED
    BY <1>2, <2>3, <2>4, <2>6, <2>7 DEF AccountedIn
<1>4. ASSUME NEW N, work'[s] = (work[s] \ {b}) \cup N, dlq' = dlq,
             Apart(N), Spans(N) = Span(b)
      PROVE  AccountedIn(s)'
  <2>1. Pending(s)' = Pending(s) /\ Apart(work'[s])
    BY <1>2, <1>4, Divide
  <2>2. Dead(s)' = Dead(s)
    BY <1>4 DEF Dead
  <2> QED
    BY <1>2, <1>4, <2>1, <2>2 DEF AccountedIn, Apart
<1>5. CASE RetryWhole(s, b)
  <2> DEFINE again == [b EXCEPT !.tries = @ + 1]
  <2>1. work'[s] = (work[s] \ {b}) \cup {again} /\ dlq' = dlq
    BY <1>5 DEF RetryWhole, ServiceInv, TypeInv, TypeOK
  <2>2. Span(again) = Span(b)
    BY <1>1 DEF Span, Batch
  <2> HIDE DEF again
  <2>3. Apart({again}) /\ Spans({again}) = Span(b)
    BY <2>2 DEF Apart, Spans
  <2> QED
    BY <1>4, <2>1, <2>3
<1>6. CASE Bisect(s, b)
  <2> DEFINE mid == (b.lo + b.hi) \div 2
  <2>0. PICK n \in {b.tries, b.tries + 1} :
          work' = [work EXCEPT ![s] = (@ \ {b}) \cup
                     {[lo |-> b.lo, hi |-> mid, tries |-> n],
                      [lo |-> mid + 1, hi |-> b.hi, tries |-> n]}]
    BY <1>6 DEF Bisect
  <2> DEFINE lower == [lo |-> b.lo, hi |-> mid, tries |-> n]
             upper == [lo |-> mid + 1, hi |-> b.hi, tries |-> n]
  <2>1. work'[s] = (work[s] \ {b}) \cup {lower, upper} /\ dlq' = dlq
    BY <1>6, <2>0 DEF Bisect, ServiceInv, TypeInv, TypeOK
  <2>2. Span(lower) = b.lo .. mid /\ Span(upper) = (mid + 1) .. b.hi
    BY DEF Span
  <2>3. /\ Span(b) = (b.lo .. mid) \cup ((mid + 1) .. b.hi)
        /\ (b.lo .. mid) \cap ((mid + 1) .. b.hi) = {}
    BY <1>1, <1>6, Halves DEF Bisect, Span
  <2> HIDE DEF mid, lower, upper
  <2>4. Apart({lower, upper}) /\ Spans({lower, upper}) = Span(b)
    BY <2>2, <2>3 DEF Apart, Spans
  <2> QED
    BY <1>4, <2>1, <2>4
<1> QED
  BY <1>3, <1>5, <1>6 DEF FailBatch

(* A step that leaves a shard's bookkeeping alone keeps what is known of   *)
(* it: the mapping's counters, and the batch in the handler.               *)
LEMMA SameAccount ==
  ASSUME NEW s \in Shards, AccountedIn(s), polled'[s] = polled[s],
         work'[s] = work[s], done'[s] = done[s], dlq'[s] = dlq[s]
  PROVE  AccountedIn(s)'
  BY DEF AccountedIn, Pending, Dead

LEMMA SameOrder ==
  ASSUME NEW s \in Shards, InOrderIn(s), batch'[s] = batch[s],
         pc'[s] # "idle" => pc[s] # "idle",
         work'[s] = work[s], done'[s] = done[s], dlq'[s] = dlq[s]
  PROVE  InOrderIn(s)'
  BY DEF InOrderIn, Dead

LEMMA ServiceInvStep == ServiceInv /\ [Next]_vars => ServiceInv'
<1> SUFFICES ASSUME ServiceInv, [Next]_vars PROVE ServiceInv'
  OBVIOUS
<1> USE DEF esmVars, lambdaVars, storeVars
<1>1. TypeInv'
  BY TypeInvStep DEF ServiceInv
<1>2. SUFFICES ASSUME NEW t \in Shards PROVE AccountedIn(t)' /\ InOrderIn(t)'
  BY <1>1 DEF ServiceInv
<1>3. AccountedIn(t) /\ InOrderIn(t) /\ TypeInv /\ TypeOK
  BY DEF ServiceInv, TypeInv
<1>4. ASSUME NEW s \in Shards, NEW b \in work[s], FailBatch(s, b)
      PROVE  AccountedIn(t)' /\ InOrderIn(t)'
  <2>1. CASE t = s
    <3>1. AccountedIn(s)'
      BY <1>4, FailBatchService
    <3>2. pc'[s] = "idle"
      BY <1>3, <1>4 DEF FailBatch, EndInvocation, TypeOK
    <3> QED
      BY <2>1, <3>1, <3>2 DEF InOrderIn
  <2>2. CASE t # s
    <3>1. /\ polled'[t] = polled[t] /\ work'[t] = work[t] /\ done'[t] = done[t]
          /\ dlq'[t] = dlq[t] /\ batch'[t] = batch[t] /\ pc'[t] = pc[t]
      BY <1>3, <1>4, <2>2
      DEF FailBatch, GiveUp, RetryWhole, Bisect, EndInvocation, TypeOK
    <3> QED
      BY <1>3, <3>1, SameAccount, SameOrder
  <2> QED
    BY <2>1, <2>2
<1>5. ASSUME NEW s \in Shards, Poll(s) PROVE AccountedIn(t)' /\ InOrderIn(t)'
  <2>1. PICK hi \in (polled[s] + 1) .. Len(stream[s]) :
          /\ work' = [work EXCEPT ![s] =
                       {[lo |-> polled[s] + 1, hi |-> hi, tries |-> 0]}]
          /\ polled' = [polled EXCEPT ![s] = hi]
    BY <1>5 DEF Poll
  <2>2. CASE t = s
    <3> DEFINE b == [lo |-> polled[s] + 1, hi |-> hi, tries |-> 0]
    <3>1. work'[s] = {b} /\ polled'[s] = hi /\ work[s] = {}
      BY <1>3, <1>5, <2>1 DEF Poll, TypeOK
    <3>2. Span(b) = (polled[s] + 1) .. hi
      BY DEF Span
    <3> HIDE DEF b
    <3>3. Pending(s) = {} /\ Pending(s)' = (polled[s] + 1) .. hi
      BY <3>1, <3>2 DEF Pending
    <3>4. done'[s] = done[s] /\ Dead(s)' = Dead(s) /\ dlq'[s] = dlq[s]
      BY <1>5 DEF Poll, Dead
    <3>5. 1 .. polled[s] = done[s] \cup Dead(s)
      BY <1>3, <2>2, <3>3 DEF AccountedIn
    <3>6. /\ 1 .. hi = (1 .. polled[s]) \cup ((polled[s] + 1) .. hi)
          /\ (1 .. polled[s]) \cap ((polled[s] + 1) .. hi) = {}
      BY <1>3 DEF TypeOK
    <3>7. AccountedIn(s)'
      BY <1>3, <2>2, <3>1, <3>3, <3>4, <3>5, <3>6 DEF AccountedIn
    <3>8. pc'[s] = "idle"
      BY <1>3, <1>5, <2>2, <3>1 DEF Poll, InOrderIn
    <3> QED
      BY <2>2, <3>7, <3>8 DEF InOrderIn
  <2>3. CASE t # s
    BY <1>3, <1>5, <2>1, <2>3, SameAccount, SameOrder DEF Poll, TypeOK
  <2> QED
    BY <2>2, <2>3
<1>6. ASSUME NEW s \in Shards, Invoke(s) PROVE AccountedIn(t)' /\ InOrderIn(t)'
  <2>1. AccountedIn(t)'
    BY <1>3, <1>6, SameAccount DEF Invoke
  <2>2. PICK b \in work[s] : IsHead(s, b) /\ batch' = [batch EXCEPT ![s] = b]
    BY <1>6 DEF Invoke
  <2>3. CASE t = s
    <3>1. batch'[s] = b /\ work'[s] = work[s]
      BY <1>3, <1>6, <2>2 DEF Invoke, TypeOK
    <3>2. b \in Batch /\ 1 <= b.lo /\ b.lo <= b.hi /\ b.hi <= polled[s]
      BY <1>3, BatchInStream DEF TypeInv, WorkInStream
    <3>3. ASSUME NEW i \in 1 .. (b.lo - 1) PROVE i \notin Pending(s)
      <4>1. ASSUME NEW c \in work[s] PROVE i \notin Span(c)
        <5>1. c \in Batch /\ b.lo <= c.lo
          BY <2>2, BatchInStream, <1>3 DEF IsHead
        <5> QED
          BY <3>2, <5>1 DEF Span, Batch
      <4> QED
        BY <4>1 DEF Pending
    <3>4. 1 .. (b.lo - 1) \subseteq 1 .. polled[s]
      BY <1>3, <3>2 DEF TypeOK, Batch
    <3>5. 1 .. (b.lo - 1) \subseteq done[s] \cup Dead(s)
      BY <1>3, <2>3, <3>3, <3>4 DEF AccountedIn
    <3>6. done'[s] = done[s] /\ Dead(s)' = Dead(s)
      BY <1>6 DEF Invoke, Dead
    <3> QED
      BY <2>1, <2>3, <3>1, <3>5, <3>6 DEF InOrderIn
  <2>4. CASE t # s
    BY <1>3, <1>6, <2>1, <2>2, <2>4, SameOrder DEF Invoke, TypeOK
  <2> QED
    BY <2>3, <2>4
<1>7. ASSUME NEW s \in Shards, Return(s) PROVE AccountedIn(t)' /\ InOrderIn(t)'
  <2>1. batch[s] \in work[s]
    BY <1>3, <1>7 DEF Return, TypeInv, VisitsInStream
  <2>2. CASE t = s
    <3>1. /\ work'[s] = work[s] \ {batch[s]} /\ polled'[s] = polled[s]
          /\ done'[s] = done[s] \cup Span(batch[s]) /\ dlq'[s] = dlq[s]
          /\ pc'[s] = "idle"
      BY <1>3, <1>7 DEF Return, EndInvocation, TypeOK
    <3>2. Apart(work[s]) /\ Pending(s) = Spans(work[s]) /\ Pending(s)' = Spans(work'[s])
      BY <1>3, <2>2 DEF AccountedIn, Apart, Pending, Spans
    <3>3. Pending(s)' = Pending(s) \ Span(batch[s]) /\ Span(batch[s]) \subseteq Pending(s)
      BY <2>1, <3>1, <3>2, TakeOut
    <3>4. Dead(s)' = Dead(s)
      BY <3>1 DEF Dead
    <3>5. AccountedIn(s)'
      BY <1>3, <2>2, <3>1, <3>3, <3>4 DEF AccountedIn
    <3> QED
      BY <2>2, <3>1, <3>5 DEF InOrderIn
  <2>3. CASE t # s
    BY <1>3, <1>7, <2>3, SameAccount, SameOrder DEF Return, EndInvocation, TypeOK
  <2> QED
    BY <2>2, <2>3
<1>8. ASSUME NEW s \in Shards,
             DecodeRaises(s) \/ WriteFails(s) \/ Crash(s)
      PROVE  AccountedIn(t)' /\ InOrderIn(t)'
  <2>1. \E b \in work[s] : FailBatch(s, b)
    BY <1>3, <1>8 DEF DecodeRaises, WriteFails, Crash, TypeInv, VisitsInStream
  <2> QED
    BY <1>4, <2>1
<1>9. ASSUME NEW s \in Shards,
             \/ WriteRaw(s) \/ WriteLate(s) \/ Get(s) \/ GetFails(s)
             \/ Apply(s) \/ Close(s) \/ FinalPut(s) \/ PutFails(s)
      PROVE  AccountedIn(t)' /\ InOrderIn(t)'
  <2>1. /\ polled' = polled /\ work' = work /\ done' = done /\ dlq' = dlq
        /\ batch' = batch
        /\ pc'[t] # "idle" => pc[t] # "idle"
    BY <1>3, <1>9
    DEF WriteRaw, WriteLate, Get, GetFails, Apply, Close, FinalPut, PutFails, TypeOK
  <2> QED
    BY <1>3, <2>1, SameAccount, SameOrder
<1>10. CASE UNCHANGED <<esmVars, lambdaVars>>
  BY <1>3, <1>10, SameAccount, SameOrder
<1> QED
  BY <1>5, <1>6, <1>7, <1>8, <1>9, <1>10
  DEF Next, ShardStep, Produce, TtlDelete, Tick, vars

LEMMA ServiceInvInit == Init => ServiceInv
<1> SUFFICES ASSUME Init, NEW s \in Shards PROVE AccountedIn(s) /\ InOrderIn(s)
  BY TypeInvInit DEF ServiceInv
<1>1. /\ polled[s] = 0 /\ work[s] = {} /\ done[s] = {} /\ dlq[s] = {}
      /\ pc[s] = "idle"
  BY DEF Init
<1>2. Pending(s) = {} /\ Dead(s) = {}
  BY <1>1 DEF Pending, Dead
<1> QED
  BY <1>1, <1>2 DEF AccountedIn, InOrderIn

LEMMA ServiceCorrect == Spec => []ServiceInv
  BY ServiceInvInit, ServiceInvStep, PTL DEF Spec

(* Whatever fails, a record taken from a shard is pending, done or in one  *)
(* message of the dead-letter queue, never lost and never two of them.     *)
THEOREM EveryRecordAccounted == Spec => []Accounted
<1>1. ServiceInv => Accounted
  BY DEF ServiceInv, AccountedIn, Accounted
<1> QED
  BY <1>1, ServiceCorrect, PTL

(* However batches are bisected and retried, the handler only sees a batch *)
(* once everything before it in the shard has been settled.                *)
THEOREM ShardsServedInOrder == Spec => []ServedInOrder
<1>1. ServiceInv => ServedInOrder
  BY DEF ServiceInv, InOrderIn, ServedInOrder
<1> QED
  BY <1>1, ServiceCorrect, PTL

----------------------------------------------------------------------------
(* Without a crash no record counts twice                                  *)

(* The positions a log may hold by now: those of settled batches, and of   *)
(* the current batch those the invocation has been through.  A failing     *)
(* call is harmless because it comes before the first of the latter.       *)
Touched(s) ==
  IF pc[s] \in {"next", "apply"}
    THEN done[s] \cup (Span(batch[s]) \ (left[s] \cup todo[s]))
    ELSE done[s]
AllTouched == [s \in Shards |-> Touched(s)]

Sound(log, T) ==
  /\ IsInjective(log)
  /\ \A k \in DOMAIN log : log[k][2] \in T[log[k][1]]

VisitsApart(s) ==
  /\ left[s] \cup todo[s] \subseteq Span(batch[s])
  /\ left[s] \cap todo[s] = {}
  /\ pc[s] # "apply" => todo[s] = {}

OnceInv ==
  /\ ServiceInv
  /\ \A s \in Shards : VisitsApart(s) /\ Sound(state[s].log, AllTouched)
  /\ \A x \in Sessions :
       Sound(table[x].log, AllTouched) /\ Sound(older[x].log, AllTouched)

LEMMA SoundEmpty == \A T : Sound(EmptyState.log, T)
  BY DEF Sound, IsInjective, EmptyState

LEMMA SoundGrows ==
  ASSUME NEW log \in Seq(Position), NEW T, NEW U,
         \A s \in Shards : T[s] \subseteq U[s], Sound(log, T)
  PROVE  Sound(log, U)
<1>1. \A k \in DOMAIN log : log[k][1] \in Shards
  BY DEF Position
<1> QED
  BY <1>1 DEF Sound

LEMMA SoundAppend ==
  ASSUME NEW log \in Seq(Position), NEW T, NEW U, NEW s \in Shards, NEW i \in Nat,
         \A t \in Shards : T[t] \subseteq U[t], Sound(log, T),
         i \notin T[s], i \in U[s]
  PROVE  Sound(Append(log, <<s, i>>), U)
<1> DEFINE new == Append(log, <<s, i>>)
<1>1. /\ Len(new) = Len(log) + 1 /\ DOMAIN new = 1 .. Len(log) + 1
      /\ DOMAIN log = 1 .. Len(log) /\ Len(log) \in Nat
      /\ \A k \in 1 .. Len(log) : new[k] = log[k]
      /\ new[Len(log) + 1] = <<s, i>>
  OBVIOUS
<1>2. \A k \in DOMAIN log : log[k] # <<s, i>> /\ log[k][2] \in U[log[k][1]]
  <2>1. Sound(log, U)
    BY SoundGrows
  <2> QED
    BY <2>1 DEF Sound
<1> HIDE DEF new
<1>3. IsInjective(new)
  BY <1>1, <1>2 DEF Sound, IsInjective
<1>4. \A k \in DOMAIN new : new[k][2] \in U[new[k][1]]
  BY <1>1, <1>2
<1> QED
  BY <1>3, <1>4 DEF Sound, new

LEMMA LogOf ==
  ASSUME NEW st \in State, NEW t, NEW c
  PROVE  /\ st.log \in Seq(Position)
         /\ Item(st, t).log = st.log
         /\ Item(Closed(st), t).log = st.log
         /\ Item([st EXCEPT !.cart_total = c], t).log = st.log
  BY DEF State, Item, Closed

LEMMA LogOfUpdate ==
  ASSUME NEW st \in State, NEW e, NEW p
  PROVE  Update(st, e, p).log = Append(st.log, p)
  BY DEF State, Update

LEMMA OnceInvInit == Init => OnceInv
<1> SUFFICES ASSUME Init PROVE OnceInv
  OBVIOUS
<1>1. ServiceInv
  BY ServiceInvInit
<1>2. \A s \in Shards : VisitsApart(s) /\ Sound(state[s].log, AllTouched)
  BY SoundEmpty DEF Init, VisitsApart
<1>3. \A x \in Sessions :
        Sound(table[x].log, AllTouched) /\ Sound(older[x].log, AllTouched)
  BY SoundEmpty DEF Init
<1> QED
  BY <1>1, <1>2, <1>3 DEF OnceInv

(* The logs a step may store without having added to them.                 *)
Known ==
  {<< >>} \cup {table[x].log : x \in Sessions} \cup {older[x].log : x \in Sessions}
    \cup {state[s].log : s \in Shards}

LEMMA KnownSound ==
  ASSUME OnceInv, \A t \in Shards : Touched(t) \subseteq Touched(t)', NEW log \in Known
  PROVE  log \in Seq(Position) /\ Sound(log, AllTouched')
<1>1. log \in Seq(Position) /\ Sound(log, AllTouched)
  <2>1. CASE log = << >>
    BY <2>1, SoundEmpty DEF EmptyState
  <2>2. ASSUME NEW x \in Sessions, log = table[x].log \/ log = older[x].log
        PROVE  log \in Seq(Position) /\ Sound(log, AllTouched)
    BY <2>2, LogOf DEF OnceInv, ServiceInv, TypeInv, TypeOK
  <2>3. ASSUME NEW s \in Shards, log = state[s].log
        PROVE  log \in Seq(Position) /\ Sound(log, AllTouched)
    BY <2>3, LogOf DEF OnceInv, ServiceInv, TypeInv, TypeOK
  <2> QED
    BY <2>1, <2>2, <2>3 DEF Known
<1>2. \A t \in Shards : AllTouched[t] \subseteq AllTouched'[t]
  BY DEF AllTouched
<1> QED
  BY <1>1, <1>2, SoundGrows

(* One more event: it has not been touched, and is from now on.            *)
LEMMA NextSound ==
  ASSUME OnceInv, \A t \in Shards : Touched(t) \subseteq Touched(t)',
         NEW log \in Known, NEW s \in Shards, NEW i \in todo[s],
         pc[s] = "apply", i \in Touched(s)'
  PROVE  Sound(Append(log, <<s, i>>), AllTouched')
<1>1. log \in Seq(Position) /\ Sound(log, AllTouched')
  BY KnownSound
<1>2. batch[s] \in work[s] /\ i \in Span(batch[s]) /\ i \in Nat
  BY DEF OnceInv, ServiceInv, TypeInv, TypeOK, VisitsInStream, VisitsApart
<1>3. i \in Pending(s)
  BY <1>2 DEF Pending
<1>4. i \notin Touched(s)
  BY <1>3 DEF Touched, OnceInv, ServiceInv, AccountedIn
<1>5. Sound(log, AllTouched)
  <2>1. CASE log = << >>
    BY <2>1, SoundEmpty DEF EmptyState
  <2> QED
    BY <2>1 DEF Known, OnceInv
<1>6. /\ \A t \in Shards : AllTouched[t] \subseteq AllTouched'[t]
      /\ i \notin AllTouched[s] /\ i \in AllTouched'[s]
  BY <1>4 DEF AllTouched
<1> QED
  BY <1>1, <1>2, <1>5, <1>6, SoundAppend

(* Visits stay apart, and touched positions stay touched.                  *)
LEMMA VisitsStep ==
  ASSUME ~Crashes, TypeInv, \A t \in Shards : VisitsApart(t), [Next]_vars
  PROVE  \A t \in Shards : VisitsApart(t)' /\ Touched(t) \subseteq Touched(t)'
<1> USE DEF esmVars, lambdaVars
<1>1. SUFFICES ASSUME NEW t \in Shards
               PROVE  VisitsApart(t)' /\ Touched(t) \subseteq Touched(t)'
  OBVIOUS
<1>2. TypeOK /\ VisitsApart(t) /\ VisitsInStream(t)
  BY DEF TypeInv
<1>3. CASE /\ pc'[t] = pc[t] /\ batch'[t] = batch[t] /\ left'[t] = left[t]
           /\ todo'[t] = todo[t] /\ done'[t] = done[t]
  BY <1>2, <1>3 DEF VisitsApart, Touched
<1>4. CASE Poll(t)
  BY <1>3, <1>4 DEF Poll
<1>5. CASE Invoke(t)
  <2>1. PICK b \in work[t] :
          batch' = [batch EXCEPT ![t] = b] /\ left' = [left EXCEPT ![t] = OnTime(t, b)]
    BY <1>5 DEF Invoke
  <2>2. OnTime(t, b) \subseteq Span(b)
    BY DEF OnTime, Decoded
  <2> QED
    BY <1>2, <1>5, <2>1, <2>2 DEF Invoke, VisitsApart, Touched, TypeOK
<1>6. CASE DecodeRaises(t) \/ WriteFails(t) \/ Crash(t)
  <2>1. pc[t] \notin {"next", "apply"} /\ done' = done /\ EndInvocation(t)
    BY <1>6 DEF DecodeRaises, WriteFails, Crash, FailBatch
  <2> QED
    BY <1>2, <2>1 DEF EndInvocation, VisitsApart, Touched, TypeOK
<1>7. CASE WriteRaw(t) \/ WriteLate(t)
  BY <1>2, <1>7 DEF WriteRaw, WriteLate, VisitsApart, Touched, TypeOK
<1>8. CASE Get(t)
  <2>1. PICK i \in left[t] : /\ todo' = [todo EXCEPT ![t] = Group(t, i)]
                             /\ left' = [left EXCEPT ![t] = @ \ Group(t, i)]
    BY <1>8 DEF Get
  <2>2. Group(t, i) \subseteq left[t] /\ todo[t] = {}
    BY <1>2, <1>8 DEF Get, Group, VisitsApart
  <2> QED
    BY <1>2, <1>8, <2>1, <2>2 DEF Get, VisitsApart, Touched, TypeOK
<1>9. CASE GetFails(t)
  BY <1>2, <1>9 DEF GetFails, VisitsApart, Touched, TypeOK
<1>10. CASE Apply(t) \/ Close(t)
  <2>1. PICK i \in todo[t] : todo' = [todo EXCEPT ![t] = @ \ {i}]
    BY <1>10 DEF Apply, Close
  <2> QED
    BY <1>2, <1>10, <2>1 DEF Apply, Close, VisitsApart, Touched, TypeOK
<1>11. CASE FinalPut(t) \/ PutFails(t)
  BY <1>2, <1>11 DEF FinalPut, PutFails, VisitsApart, Touched, TypeOK
<1>12. CASE Return(t)
  BY <1>2, <1>12 DEF Return, EndInvocation, VisitsApart, Touched, TypeOK
<1>13. ASSUME NEW s \in Shards, ShardStep(s), s # t
       PROVE  VisitsApart(t)' /\ Touched(t) \subseteq Touched(t)'
  BY <1>2, <1>3, <1>13
  DEF ShardStep, Poll, Invoke, DecodeRaises, WriteRaw, WriteLate, WriteFails, Get,
      GetFails, Apply, Close, FinalPut, PutFails, Return, Crash, FailBatch,
      EndInvocation, TypeOK
<1> QED
  BY <1>3, <1>4, <1>5, <1>6, <1>7, <1>8, <1>9, <1>10, <1>11, <1>12, <1>13
  DEF Next, ShardStep, Produce, TtlDelete, Tick, vars

LEMMA KnownType == TypeOK => Known \subseteq Seq(Position)
<1> SUFFICES ASSUME TypeOK PROVE Known \subseteq Seq(Position)
  OBVIOUS
<1>1. \A st \in State : st.log \in Seq(Position)
  BY DEF State
<1>2. /\ \A x \in Sessions : table[x] \in State /\ older[x] \in State
      /\ \A s \in Shards : state[s] \in State
  BY DEF TypeOK
<1>3. << >> \in Seq(Position)
  OBVIOUS
<1>4. ASSUME NEW log \in Known PROVE log \in Seq(Position)
  <2>1. \/ log = << >>
        \/ \E x \in Sessions : log = table[x].log \/ log = older[x].log
        \/ \E s \in Shards : log = state[s].log
    BY <1>4 DEF Known
  <2> QED
    BY <1>1, <1>2, <1>3, <2>1
<1> QED
  BY <1>4

(* A step stores logs there have been before, or adds the next event of an *)
(* invocation to one of them.                                              *)
Visit(s, i) ==
  /\ pc[s] = "apply" /\ UNCHANGED <<pc, batch, left>>
  /\ todo' = [todo EXCEPT ![s] = @ \ {i}]
Grown(log) ==
  \E s \in Shards : \E i \in todo[s] : \E old \in Known :
    Visit(s, i) /\ log = Append(old, <<s, i>>)

LEMMA LogsStep ==
  ASSUME TypeInv, [Next]_vars
  PROVE  \A log \in Known' : log \in Known \/ Grown(log)
<1> USE DEF esmVars, lambdaVars, storeVars
<1>1. TypeOK
  BY DEF TypeInv
<1>2. /\ << >> \in Known /\ EmptyState.log \in Known
      /\ \A x \in Sessions : table[x].log \in Known /\ older[x].log \in Known
      /\ \A s \in Shards : state[s].log \in Known
  BY DEF Known, EmptyState
<1>3. SUFFICES
        /\ \A x \in Sessions : table'[x].log \in Known /\ older'[x].log \in Known
        /\ \A s \in Shards : state'[s].log \in Known \/ Grown(state'[s].log)
  BY <1>2, <1>3 DEF Known
<1>4. ASSUME NEW x \in Sessions, NEW item, item.log \in Known, PutItem(x, item)
      PROVE  \A y \in Sessions : table'[y].log \in Known /\ older'[y].log \in Known
  BY <1>1, <1>2, <1>4 DEF PutItem, TypeOK
<1>5. ASSUME NEW s \in Shards, Get(s)
      PROVE  \A t \in Shards : state'[t].log \in Known
  <2>1. PICK i \in left[s] : \E item \in ReadOf(Ev(s, i).sid) :
               state' = [state EXCEPT ![s] = item]
    BY <1>5 DEF Get
  <2>2. PICK item \in ReadOf(Ev(s, i).sid) : state' = [state EXCEPT ![s] = item]
    BY <2>1
  <2>3. Ev(s, i).sid \in Sessions
    BY EventAt DEF TypeInv, VisitsInStream, Event
  <2>4. item.log \in Known
    BY <1>2, <2>3 DEF ReadOf
  <2> QED
    BY <1>1, <1>2, <2>2, <2>4 DEF TypeOK
<1>6. ASSUME NEW s \in Shards, NEW i \in todo[s], NEW st \in State, st.log \in Known,
             Visit(s, i), state' = [state EXCEPT ![s] = Update(st, Ev(s, i), <<s, i>>)]
      PROVE  \A t \in Shards : state'[t].log \in Known \/ Grown(state'[t].log)
  <2>1. state'[s] = Update(st, Ev(s, i), <<s, i>>) /\ \A t \in Shards \ {s} : state'[t] = state[t]
    BY <1>1, <1>6 DEF TypeOK
  <2>2. state'[s].log = Append(st.log, <<s, i>>)
    BY <2>1, LogOfUpdate
  <2>3. Grown(state'[s].log)
    BY <1>6, <2>2 DEF Grown
  <2> QED
    BY <1>2, <2>1, <2>3
<1>7. ASSUME NEW s \in Shards, Apply(s)
      PROVE  /\ \A x \in Sessions : table'[x].log \in Known /\ older'[x].log \in Known
             /\ \A t \in Shards : state'[t].log \in Known \/ Grown(state'[t].log)
  <2>1. PICK i \in todo[s] :
               /\ Visit(s, i)
               /\ state' = [state EXCEPT ![s] = Update(@, Ev(s, i), <<s, i>>)]
    BY <1>7 DEF Apply, Visit
  <2>2. /\ state[s] \in State
        /\ state' = [state EXCEPT ![s] = Update(state[s], Ev(s, i), <<s, i>>)]
    BY <1>1, <2>1 DEF TypeOK
  <2>3. table' = table /\ older' = older
    BY <1>7 DEF Apply
  <2> QED
    BY <1>2, <1>6, <2>1, <2>2, <2>3
<1>8. ASSUME NEW s \in Shards, Close(s)
      PROVE  /\ \A x \in Sessions : table'[x].log \in Known /\ older'[x].log \in Known
             /\ \A t \in Shards : state'[t].log \in Known \/ Grown(state'[t].log)
  <2>1. PICK i \in todo[s] :
               /\ Visit(s, i)
               /\ state' = [state EXCEPT ![s] = Update(EmptyState, Ev(s, i), <<s, i>>)]
    BY <1>8 DEF Close, Visit
  <2>2. /\ PutItem(sid[s], Item(Closed(state[s]), now))
        /\ sid[s] \in Sessions /\ state[s] \in State
    BY <1>1, <1>8 DEF Close, TypeOK
  <2>3. Item(Closed(state[s]), now).log = state[s].log
    BY <2>2, LogOf
  <2>4. \A x \in Sessions : table'[x].log \in Known /\ older'[x].log \in Known
    BY <1>2, <1>4, <2>2, <2>3
  <2> QED
    BY <1>2, <1>6, <2>1, <2>2, <2>4, EmptyStateType
<1>9. ASSUME NEW s \in Shards, FinalPut(s)
      PROVE  /\ \A x \in Sessions : table'[x].log \in Known /\ older'[x].log \in Known
             /\ UNCHANGED state
  <2> DEFINE item == Item([state[s] EXCEPT !.cart_total = cart[s]], now)
  <2>1. /\ PutItem(sid[s], item)
        /\ sid[s] \in Sessions /\ state[s] \in State
    BY <1>1, <1>9 DEF FinalPut, TypeOK
  <2>2. item.log = state[s].log
    BY <2>1, LogOf
  <2> HIDE DEF item
  <2> QED
    BY <1>2, <1>4, <1>9, <2>1, <2>2 DEF FinalPut
<1>10. ASSUME NEW s \in Shards, EndInvocation(s)
       PROVE  \A t \in Shards : state'[t].log \in Known
  BY <1>1, <1>2, <1>10 DEF EndInvocation, TypeOK
<1>11. ASSUME NEW s \in Shards, DecodeRaises(s) \/ WriteFails(s) \/ Crash(s) \/ Return(s)
       PROVE  EndInvocation(s) /\ UNCHANGED <<table, older>>
  BY <1>11 DEF DecodeRaises, WriteFails, Crash, Return, FailBatch
<1>12. ASSUME NEW x \in Sessions, TtlDelete(x)
       PROVE  /\ \A y \in Sessions : table'[y].log \in Known /\ older'[y].log \in Known
              /\ UNCHANGED state
  BY <1>2, <1>4, <1>12 DEF TtlDelete
<1>13. ASSUME NEW s \in Shards, ShardStep(s)
       PROVE  /\ \A x \in Sessions : table'[x].log \in Known /\ older'[x].log \in Known
              /\ \A t \in Shards : state'[t].log \in Known \/ Grown(state'[t].log)
  <2>1. CASE \/ Poll(s) \/ Invoke(s) \/ WriteRaw(s) \/ WriteLate(s) \/ GetFails(s) \/ PutFails(s)
    BY <1>2, <2>1 DEF Poll, Invoke, WriteRaw, WriteLate, GetFails, PutFails
  <2>2. CASE Get(s)
    BY <1>2, <1>5, <2>2 DEF Get
  <2>3. CASE DecodeRaises(s) \/ WriteFails(s) \/ Crash(s) \/ Return(s)
    BY <1>2, <1>10, <1>11, <2>3
  <2> QED
    BY <1>2, <1>7, <1>8, <1>9, <1>13, <2>1, <2>2, <2>3 DEF ShardStep
<1> QED
  BY <1>2, <1>12, <1>13 DEF Next, Produce, Tick, vars

LEMMA OnceInvStep ==
  ASSUME ~Crashes, OnceInv, [Next]_vars
  PROVE  OnceInv'
<1>1. ServiceInv /\ TypeInv /\ TypeOK /\ ServiceInv' /\ TypeOK'
  BY ServiceInvStep DEF OnceInv, ServiceInv, TypeInv
<1>2. \A t \in Shards : VisitsApart(t)' /\ Touched(t) \subseteq Touched(t)'
  BY <1>1, VisitsStep DEF OnceInv
<1>3. ASSUME NEW s \in Shards, NEW i \in todo[s], NEW old \in Known, Visit(s, i)
      PROVE  Sound(Append(old, <<s, i>>), AllTouched')
  <2>1. i \in Touched(s)'
    BY <1>1, <1>3 DEF Visit, Touched, OnceInv, VisitsApart, TypeOK
  <2> QED
    BY <1>2, <1>3, <2>1, NextSound DEF Visit
<1>4. \A log \in Known' : Sound(log, AllTouched')
  <2>1. \A log \in Known' : log \in Known \/ Grown(log)
    BY <1>1, LogsStep
  <2>2. \A log \in Known : Sound(log, AllTouched')
    BY <1>2, KnownSound
  <2>3. ASSUME NEW log \in Known', Grown(log) PROVE Sound(log, AllTouched')
    <3>1. PICK s \in Shards : \E i \in todo[s] : \E old \in Known :
                 Visit(s, i) /\ log = Append(old, <<s, i>>)
      BY <2>3 DEF Grown
    <3>2. PICK i \in todo[s], old \in Known :
                 Visit(s, i) /\ log = Append(old, <<s, i>>)
      BY <3>1
    <3> QED
      BY <1>3, <3>2
  <2> QED
    BY <2>1, <2>2, <2>3
<1> QED
  BY <1>1, <1>2, <1>4 DEF OnceInv, Known

(* As long as no invocation is killed, no record counts twice in any       *)
(* session: the only errors that retry a batch come before its first write *)
(* to the table.                                                           *)
THEOREM NoRecordCountedTwice == ASSUME ~Crashes PROVE Spec => []CountedOnce
<1>1. OnceInv => CountedOnce
  BY DEF OnceInv, Sound, CountedOnce
<1>2. OnceInv /\ [Next]_vars => OnceInv'
  BY OnceInvStep
<1> QED
  BY <1>1, <1>2, OnceInvInit, PTL DEF Spec
============================================================================
