---------------------- MODULE SessionizerStoreProofs ----------------------
(***************************************************************************)
(* Theorems about what Sessionizer stores: the raw archive, the expiry of  *)
(* the items, and the order of the events in a session.  The first two     *)
(* hold when invocations are killed at any point; the third holds across   *)
(* batches, retries and bisection as long as none is.  All of them hold    *)
(* for stale reads and for a feed in any order.                            *)
(***************************************************************************)
EXTENDS SessionizerProofs

----------------------------------------------------------------------------
(* The stream only grows                                                   *)

LEMMA EventStays ==
  ASSUME TypeOK, [Next]_vars, NEW s \in Shards, NEW i \in 1 .. Len(stream[s])
  PROVE  /\ i \in 1 .. Len(stream'[s])
         /\ stream'[s][i] = stream[s][i]
         /\ Ev(s, i)' = Ev(s, i)
<1>1. stream[s] \in Seq(Record) /\ stream \in [Shards -> Seq(Record)]
  BY DEF TypeOK
<1>2. CASE UNCHANGED stream
  BY <1>2 DEF Ev
<1>3. ASSUME NEW e \in Events, Produce(e)
      PROVE  i \in 1 .. Len(stream'[s]) /\ stream'[s][i] = stream[s][i]
  <2>1. CASE s = ShardOf[e.user]
    <3>1. stream'[s] = Append(stream[s], [ev |-> e, arrival |-> now])
      BY <1>1, <1>3, <2>1 DEF Produce
    <3> QED
      BY <1>1, <3>1
  <2>2. CASE s # ShardOf[e.user]
    BY <1>1, <1>3, <2>2 DEF Produce
  <2> QED
    BY <2>1, <2>2
<1>4. \/ UNCHANGED stream
      \/ \E e \in Events : Produce(e)
  BY DEF Next, ShardStep, Poll, Invoke, DecodeRaises, WriteRaw, WriteLate, WriteFails,
         Get, GetFails, Apply, Close, FinalPut, PutFails, Return, Crash, FailBatch,
         TtlDelete, Tick, vars
<1> QED
  BY <1>2, <1>3, <1>4 DEF Ev

----------------------------------------------------------------------------
(* The archive                                                             *)

(* A position in a log: on time, and put in the archive.                   *)
Safe(p) ==
  /\ p[2] \in 1 .. Len(stream[p[1]])
  /\ WasIn(p, raw)
  /\ ~Ev(p[1], p[2]).late

(* A position that an invocation has passed over.                          *)
Passed(s, i) ==
  /\ i \in 1 .. Len(stream[s])
  /\ Ev(s, i).kind = "event" =>
       WasIn(<<s, i>>, raw) /\ (Ev(s, i).late => WasIn(<<s, i>>, held))

(* How far the invocation of a shard has brought its batch.                *)
Brought(s) ==
  /\ left[s] \cup todo[s] \subseteq OnTime(s, batch[s])
  /\ pc[s] = "idle" => left[s] = {} /\ todo[s] = {}
  /\ pc[s] \in {"late", "next", "apply"} =>
       \A i \in Decoded(s, batch[s]) : WasIn(<<s, i>>, raw)
  /\ pc[s] \in {"next", "apply"} =>
       \A i \in LateOnes(s, batch[s]) : WasIn(<<s, i>>, held)

LogSafe(log) == \A k \in DOMAIN log : Safe(log[k])

ArchiveInv ==
  /\ TypeInv
  /\ \A s \in Shards : Brought(s) /\ \A i \in done[s] : Passed(s, i)
  /\ \A log \in Known : LogSafe(log)

(* A put adds the events of its batch, and what it replaces had its name,  *)
(* so that the name still stands for it.                                   *)
LEMMA PutObjectAdds ==
  ASSUME NEW objects \in SUBSET Object, NEW s, NEW positions
  PROVE  /\ \A p : WasIn(p, objects) => WasIn(p, PutObject(objects, s, positions))
         /\ \A i \in positions : WasIn(<<s, i>>, PutObject(objects, s, positions))
<1> DEFINE new == [second |-> now, size |-> Cardinality(positions),
                   at |-> {s} \X positions, live |-> TRUE]
           kept(o) == IF SameName(o, new) THEN [o EXCEPT !.live = FALSE] ELSE o
           put == PutObject(objects, s, positions)
<1>1. CASE positions = {}
  BY <1>1 DEF PutObject
<1>2. CASE positions # {}
  <2>1. put = {kept(o) : o \in objects} \cup {new}
    BY <1>2 DEF PutObject
  <2>2. new.live /\ SameName(new, new) /\ \A i \in positions : <<s, i>> \in new.at
    BY DEF SameName
  <2>3. \A o \in objects : kept(o).at = o.at /\ kept(o).second = o.second /\ kept(o).size = o.size
    BY DEF Object
  <2>4. \A o \in objects : ~SameName(o, new) => kept(o) = o
    OBVIOUS
  <2> HIDE DEF new, kept, put
  <2>5. ASSUME NEW p, WasIn(p, objects) PROVE WasIn(p, put)
    <3>1. PICK o \in objects, name \in objects : p \in o.at /\ name.live /\ SameName(o, name)
      BY <2>5 DEF WasIn
    <3>2. kept(o) \in put /\ p \in kept(o).at
      BY <2>1, <2>3, <3>1
    <3>3. CASE SameName(o, new)
      <4>1. SameName(kept(o), new) /\ new \in put
        BY <2>1, <2>3, <3>3 DEF SameName
      <4> QED
        BY <2>2, <3>2, <4>1 DEF WasIn
    <3>4. CASE ~SameName(o, new)
      <4>1. ~SameName(name, new)
        BY <3>1, <3>4 DEF SameName
      <4>2. kept(o) = o /\ kept(name) = name /\ name \in put
        BY <2>1, <2>4, <3>4, <4>1
      <4> QED
        BY <3>1, <3>2, <4>2 DEF WasIn
    <3> QED
      BY <3>3, <3>4
  <2>6. \A i \in positions : WasIn(<<s, i>>, put)
    BY <2>1, <2>2 DEF WasIn
  <2> QED
    BY <2>5, <2>6 DEF put
<1> QED
  BY <1>1, <1>2

(* What was put in the archive is never without an object of its name.     *)
LEMMA ArchiveGrows ==
  ASSUME TypeInv, [Next]_vars
  PROVE  \A p : (WasIn(p, raw) => WasIn(p, raw')) /\ (WasIn(p, held) => WasIn(p, held'))
<1>1. raw \in SUBSET Object /\ held \in SUBSET Object
  BY DEF TypeInv, TypeOK
<1>2. ASSUME NEW s \in Shards, WriteRaw(s) \/ WriteLate(s)
      PROVE  \A p : (WasIn(p, raw) => WasIn(p, raw')) /\ (WasIn(p, held) => WasIn(p, held'))
  BY <1>1, <1>2, PutObjectAdds DEF WriteRaw, WriteLate
<1>3. UNCHANGED <<raw, held>> \/ \E s \in Shards : WriteRaw(s) \/ WriteLate(s)
  BY DEF Next, ShardStep, Poll, Invoke, DecodeRaises, WriteFails, Get, GetFails, Apply,
         Close, FinalPut, PutFails, Return, Crash, Produce, TtlDelete, Tick, vars, storeVars
<1> QED
  BY <1>2, <1>3

LEMMA StaysSafe ==
  ASSUME TypeOK, [Next]_vars,
         \A p : (WasIn(p, raw) => WasIn(p, raw')) /\ (WasIn(p, held) => WasIn(p, held'))
  PROVE  /\ \A log \in Seq(Position) : LogSafe(log) => LogSafe(log)'
         /\ \A s \in Shards : \A i : Passed(s, i) => Passed(s, i)'
<1>1. \A p \in Position : Safe(p) => Safe(p)'
  BY EventStays DEF Safe, WasIn, Position
<1>2. \A s \in Shards : \A i : Passed(s, i) => Passed(s, i)'
  BY EventStays DEF Passed, WasIn
<1>3. ASSUME NEW log \in Seq(Position), LogSafe(log) PROVE LogSafe(log)'
  BY <1>1, <1>3 DEF LogSafe
<1> QED
  BY <1>2, <1>3

LEMMA ArchiveInvInit == Init => ArchiveInv
<1> SUFFICES ASSUME Init PROVE ArchiveInv
  OBVIOUS
<1>1. TypeInv
  BY TypeInvInit
<1>2. \A s \in Shards : Brought(s) /\ \A i \in done[s] : Passed(s, i)
  BY DEF Init, Brought
<1>3. Known \subseteq {<< >>}
  BY DEF Init, Known, EmptyState
<1> QED
  BY <1>1, <1>2, <1>3 DEF ArchiveInv, LogSafe

LEMMA ArchiveInvStep ==
  ASSUME ArchiveInv, [Next]_vars
  PROVE  ArchiveInv'
<1> USE DEF esmVars, lambdaVars, storeVars
<1>1. TypeInv /\ TypeOK /\ TypeInv'
  BY TypeInvStep DEF ArchiveInv, TypeInv
<1>2. \A p : (WasIn(p, raw) => WasIn(p, raw')) /\ (WasIn(p, held) => WasIn(p, held'))
  BY <1>1, ArchiveGrows
<1>3. /\ \A log \in Seq(Position) : LogSafe(log) => LogSafe(log)'
      /\ \A s \in Shards : \A i : Passed(s, i) => Passed(s, i)'
  BY <1>1, <1>2, StaysSafe
<1>4. \A log \in Known : LogSafe(log)'
  BY <1>1, <1>3, KnownType DEF ArchiveInv
(* A log that is not known has grown by an event of the invocation.        *)
<1>5. ASSUME NEW s \in Shards, NEW i \in todo[s], Visit(s, i), NEW log \in Known
      PROVE  LogSafe(Append(log, <<s, i>>))'
  <2>1. i \in OnTime(s, batch[s]) /\ WasIn(<<s, i>>, raw)
    BY <1>5 DEF ArchiveInv, Brought, OnTime, Visit
  <2>2. i \in 1 .. Len(stream[s]) /\ batch[s] \in work[s]
    BY <1>1, <1>5 DEF TypeInv, VisitsInStream, Visit
  <2>3. Safe(<<s, i>>)
    BY <2>1, <2>2 DEF Safe, OnTime
  <2>4. log \in Seq(Position) /\ <<s, i>> \in Position /\ LogSafe(log)
    BY <1>1, <2>2, KnownType, EventAt DEF ArchiveInv
  <2>5. Append(log, <<s, i>>) \in Seq(Position) /\ LogSafe(Append(log, <<s, i>>))
    BY <2>3, <2>4 DEF LogSafe
  <2> QED
    BY <1>3, <2>5
<1>6. \A log \in Known' : LogSafe(log)'
  <2>1. \A log \in Known' : log \in Known \/ Grown(log)
    BY <1>1, LogsStep
  <2>2. \A log : Grown(log) => LogSafe(log)'
    BY <1>5 DEF Grown
  <2> QED
    BY <1>4, <2>1, <2>2
<1>7. ASSUME NEW t \in Shards PROVE Brought(t)'
  <2>1. Brought(t) /\ (pc[t] # "idle" => batch[t] \in work[t])
    BY <1>1 DEF ArchiveInv, TypeInv, VisitsInStream
  <2>2. \A b \in work[t] : \A i \in Span(b) : Ev(t, i)' = Ev(t, i)
    BY <1>1, BatchInStream, EventStays
(* The claims stay if there is no more to visit and the invocation has not *)
(* gone further ...                                                        *)
  <2>3. ASSUME batch'[t] = batch[t],
               left'[t] \cup todo'[t] \subseteq left[t] \cup todo[t],
               \/ pc'[t] = pc[t]
               \/ pc[t] \in {"next", "apply"} /\ pc'[t] \in {"next", "apply"}
        PROVE  Brought(t)'
    <3>1. CASE pc[t] = "idle"
      BY <2>1, <2>3, <3>1 DEF Brought
    <3>2. CASE pc[t] # "idle"
      <4>1. \A i \in Span(batch'[t]) : Ev(t, i)' = Ev(t, i)
        BY <2>1, <2>2, <2>3, <3>2
      <4>2. left'[t] \cup todo'[t] \subseteq OnTime(t, batch[t])'
        BY <2>1, <2>3, <4>1 DEF Brought, OnTime, Decoded
      <4>3. pc'[t] \in {"late", "next", "apply"} =>
              \A i \in Decoded(t, batch[t])' : WasIn(<<t, i>>, raw')
        BY <1>2, <2>1, <2>3, <4>1 DEF Brought, Decoded
      <4>4. pc'[t] \in {"next", "apply"} =>
              \A i \in LateOnes(t, batch[t])' : WasIn(<<t, i>>, held')
        BY <1>2, <2>1, <2>3, <4>1 DEF Brought, LateOnes, Decoded
      <4> QED
        BY <2>3, <3>2, <4>2, <4>3, <4>4 DEF Brought
    <3> QED
      BY <3>1, <3>2
(* ... and of a shard that is idle nothing is claimed.                     *)
  <2>4. ASSUME EndInvocation(t) PROVE Brought(t)'
    BY <1>1, <2>4 DEF EndInvocation, Brought, TypeOK
  <2>5. ASSUME NEW s \in Shards, ShardStep(s), s # t PROVE Brought(t)'
    <3>1. batch'[t] = batch[t] /\ left'[t] = left[t] /\ todo'[t] = todo[t] /\ pc'[t] = pc[t]
      BY <1>1, <2>5
      DEF ShardStep, Poll, Invoke, DecodeRaises, WriteRaw, WriteLate, WriteFails, Get,
          GetFails, Apply, Close, FinalPut, PutFails, Return, Crash, FailBatch,
          EndInvocation, TypeOK
    <3> QED
      BY <2>3, <3>1
  <2>6. CASE DecodeRaises(t) \/ WriteFails(t) \/ Crash(t) \/ Return(t)
    BY <2>4, <2>6 DEF DecodeRaises, WriteFails, Crash, Return, FailBatch
  <2>7. CASE Invoke(t)
    <3>1. PICK b \in work[t] :
            batch' = [batch EXCEPT ![t] = b] /\ left' = [left EXCEPT ![t] = OnTime(t, b)]
      BY <2>7 DEF Invoke
    <3>2. /\ batch'[t] = b /\ left'[t] = OnTime(t, b) /\ todo'[t] = {}
          /\ pc'[t] = "raw"
      BY <1>1, <2>1, <2>7, <3>1 DEF Invoke, Brought, TypeOK
    <3>3. \A i \in Span(b) : Ev(t, i)' = Ev(t, i)
      BY <2>2
    <3> QED
      BY <3>2, <3>3 DEF Brought, OnTime, Decoded
  <2>8. CASE WriteRaw(t)
    <3>1. /\ raw' = PutObject(raw, t, Decoded(t, batch[t]))
          /\ batch' = batch /\ left' = left /\ todo' = todo /\ pc[t] = "raw"
          /\ pc'[t] = IF LateOnes(t, batch[t]) = {} THEN "next" ELSE "late"
      BY <1>1, <2>8 DEF WriteRaw, TypeOK
    <3>2. \A i \in Decoded(t, batch[t]) : WasIn(<<t, i>>, raw')
      BY <1>1, <3>1, PutObjectAdds DEF TypeOK
    <3>3. \A i \in Span(batch'[t]) : Ev(t, i)' = Ev(t, i)
      BY <2>1, <2>2, <3>1
    <3> QED
      BY <2>1, <3>1, <3>2, <3>3 DEF Brought, OnTime, LateOnes, Decoded
  <2>9. CASE WriteLate(t)
    <3>1. /\ held' = PutObject(held, t, LateOnes(t, batch[t]))
          /\ batch' = batch /\ left' = left /\ todo' = todo /\ raw' = raw
          /\ pc[t] = "late" /\ pc'[t] = "next"
      BY <1>1, <2>9 DEF WriteLate, TypeOK
    <3>2. \A i \in LateOnes(t, batch[t]) : WasIn(<<t, i>>, held')
      BY <1>1, <3>1, PutObjectAdds DEF TypeOK
    <3>3. \A i \in Span(batch'[t]) : Ev(t, i)' = Ev(t, i)
      BY <2>1, <2>2, <3>1
    <3> QED
      BY <2>1, <3>1, <3>2, <3>3 DEF Brought, OnTime, LateOnes, Decoded
  <2>10. CASE \/ Poll(t) \/ Get(t) \/ GetFails(t) \/ Apply(t) \/ Close(t) \/ FinalPut(t)
              \/ PutFails(t)
    <3>1. CASE Poll(t)
      BY <2>3, <3>1 DEF Poll
    <3>2. CASE Get(t)
      <4>1. PICK i \in left[t] : /\ todo' = [todo EXCEPT ![t] = Group(t, i)]
                                 /\ left' = [left EXCEPT ![t] = @ \ Group(t, i)]
        BY <3>2 DEF Get, IsFirstOfGroup
      <4>2. todo'[t] = Group(t, i) /\ left'[t] = left[t] \ Group(t, i)
        BY <1>1, <4>1 DEF TypeOK
      <4>3. left'[t] \cup todo'[t] \subseteq left[t] \cup todo[t]
        BY <4>2 DEF Group
      <4>4. batch'[t] = batch[t] /\ pc[t] = "next" /\ pc'[t] = "apply"
        BY <1>1, <3>2 DEF Get, TypeOK
      <4> QED
        BY <2>3, <4>3, <4>4
    <3>3. CASE GetFails(t)
      <4>1. PICK i \in left[t] : left' = [left EXCEPT ![t] = @ \ Group(t, i)]
        BY <3>3 DEF GetFails, IsFirstOfGroup
      <4>2. left'[t] \subseteq left[t]
        BY <1>1, <4>1 DEF TypeOK
      <4>3. batch'[t] = batch[t] /\ pc'[t] = pc[t] /\ todo'[t] = todo[t]
        BY <3>3 DEF GetFails
      <4> QED
        BY <2>3, <4>2, <4>3
    <3>4. CASE Apply(t) \/ Close(t)
      <4>1. PICK i \in todo[t] : todo' = [todo EXCEPT ![t] = @ \ {i}]
        BY <3>4 DEF Apply, Close
      <4>2. todo'[t] \subseteq todo[t]
        BY <1>1, <4>1 DEF TypeOK
      <4>3. batch'[t] = batch[t] /\ pc'[t] = pc[t] /\ left'[t] = left[t]
        BY <3>4 DEF Apply, Close
      <4> QED
        BY <2>3, <4>2, <4>3
    <3>5. CASE FinalPut(t) \/ PutFails(t)
      <4>1. batch'[t] = batch[t] /\ left'[t] = left[t] /\ todo'[t] \subseteq todo[t]
        BY <1>1, <3>5 DEF FinalPut, PutFails, TypeOK
      <4>2. pc[t] = "apply" /\ pc'[t] = "next"
        BY <1>1, <3>5 DEF FinalPut, PutFails, TypeOK
      <4> QED
        BY <2>3, <4>1, <4>2
    <3> QED
      BY <2>10, <3>1, <3>2, <3>3, <3>4, <3>5
  <2>11. CASE UNCHANGED <<batch, left, todo, pc>>
    BY <2>3, <2>11
  <2> QED
    BY <2>5, <2>6, <2>7, <2>8, <2>9, <2>10, <2>11
    DEF Next, ShardStep, Produce, TtlDelete, Tick, vars
<1>8. ASSUME NEW t \in Shards, NEW i \in done'[t] PROVE Passed(t, i)'
  <2>1. CASE i \in done[t]
    BY <1>3, <2>1 DEF ArchiveInv
  <2>2. CASE i \notin done[t]
    <3>1. Return(t)
      BY <1>1, <1>8, <2>2
      DEF Next, ShardStep, Poll, Invoke, DecodeRaises, WriteRaw, WriteLate, WriteFails, Get,
          GetFails, Apply, Close, FinalPut, PutFails, Return, Crash, FailBatch, Produce,
          TtlDelete, Tick, vars, TypeOK
    <3>2. /\ pc[t] = "next" /\ batch[t] \in work[t]
          /\ i \in Span(batch[t])
      BY <1>1, <1>8, <2>2, <3>1 DEF Return, TypeInv, VisitsInStream, TypeOK
    <3>3. i \in 1 .. Len(stream[t])
      BY <1>1, <3>2, BatchInStream
    <3>4. Passed(t, i)
      BY <3>2, <3>3 DEF ArchiveInv, Brought, Passed, Decoded, LateOnes
    <3> QED
      BY <1>3, <3>4
  <2> QED
    BY <2>1, <2>2
<1> QED
  BY <1>1, <1>2, <1>6, <1>7, <1>8 DEF ArchiveInv

(* Whatever a stored session was updated with, and whatever a successful   *)
(* invocation passed over, is in the raw archive (and a late event in the  *)
(* late archive too): handler writes both before it updates any session,   *)
(* so neither a kill between two steps, a stale read nor a refused write   *)
(* leaves an event in the table alone.  It is still there, unless another  *)
(* invocation has put an object of the same name: written in the same      *)
(* second with the same number of events.                                  *)
THEOREM ArchivedFirst == Spec => []Archived
<1>1. ArchiveInv => Archived
  <2> SUFFICES ASSUME ArchiveInv PROVE Archived
    OBVIOUS
  <2>1. ASSUME NEW x \in Sessions, NEW p \in Range(table[x].log)
        PROVE  WasIn(p, raw) /\ ~Ev(p[1], p[2]).late
    BY <2>1 DEF ArchiveInv, Known, LogSafe, Safe, Range
  <2>2. ASSUME NEW s \in Shards, NEW i \in done[s], Ev(s, i).kind = "event"
        PROVE  WasIn(<<s, i>>, raw) /\ (Ev(s, i).late => WasIn(<<s, i>>, held))
    BY <2>2 DEF ArchiveInv, Passed
  <2> QED
    BY <2>1, <2>2 DEF Archived
<1>2. ArchiveInv /\ [Next]_vars => ArchiveInv'
  BY ArchiveInvStep
<1> QED
  BY <1>1, <1>2, ArchiveInvInit, PTL DEF Spec

----------------------------------------------------------------------------
(* The expiry                                                              *)

(* A session that is stored lives long enough; one that an invocation has  *)
(* in hand does, or gets its expiry when it is stored.                     *)
Begun(st) == st.log # << >> /\ st.log[1][2] \in 1 .. Len(stream[st.log[1][1]])
LongEnough(st) == st.expires_at >= ArrivalOf(st.log[1]) + TtlTicks
Lives(st) == st = EmptyState \/ (Begun(st) /\ LongEnough(st))
InHand(st) == st = EmptyState \/ (Begun(st) /\ (st.expires_at = 0 \/ LongEnough(st)))

ArrivalsPast == \A s \in Shards : \A i \in 1 .. Len(stream[s]) : stream[s][i].arrival <= now

LifeInv ==
  /\ TypeInv
  /\ ArrivalsPast
  /\ \A x \in Sessions : Lives(table[x]) /\ Lives(older[x])
  /\ \A s \in Shards : /\ InHand(state[s])
                       /\ pc[s] = "apply" => todo[s] # {} \/ state[s] # EmptyState

LEMMA LivesStays ==
  ASSUME TypeOK, [Next]_vars, NEW st \in State
  PROVE  /\ Lives(st) => Lives(st)'
         /\ InHand(st) => InHand(st)'
<1>1. CASE Begun(st)
  <2>1. st.log \in Seq(Position) /\ st.log # << >>
    BY <1>1 DEF Begun, State
  <2>2. st.log[1] \in Position
    BY <2>1
  <2>3. st.log[1][1] \in Shards
    BY <2>2 DEF Position
  <2>4. /\ st.log[1][2] \in 1 .. Len(stream'[st.log[1][1]])
        /\ stream'[st.log[1][1]][st.log[1][2]] = stream[st.log[1][1]][st.log[1][2]]
    BY <1>1, <2>3, EventStays DEF Begun
  <2> QED
    BY <2>1, <2>4 DEF Lives, InHand, Begun, LongEnough, ArrivalOf, EmptyState
<1>2. CASE ~Begun(st)
  BY <1>2 DEF Lives, InHand, EmptyState
<1> QED
  BY <1>1, <1>2

LEMMA ArrivalsStep ==
  ASSUME TypeOK, ArrivalsPast, [Next]_vars
  PROVE  ArrivalsPast'
<1>1. now \in Nat /\ stream \in [Shards -> Seq(Record)]
  BY DEF TypeOK
<1>2. ASSUME NEW s \in Shards, NEW i \in 1 .. Len(stream[s])
      PROVE  stream[s][i].arrival \in Nat
  <2>1. stream[s] \in Seq(Record)
    BY <1>1
  <2>2. stream[s][i] \in Record
    BY <2>1
  <2> QED
    BY <2>2 DEF Record
<1>3. CASE stream' = stream /\ now' \in {now, now + 1}
  BY <1>1, <1>2, <1>3 DEF ArrivalsPast
<1>4. ASSUME NEW e \in Events, Produce(e) PROVE ArrivalsPast'
  <2>1. SUFFICES ASSUME NEW s \in Shards, NEW i \in 1 .. Len(stream'[s])
                 PROVE  stream'[s][i].arrival <= now
    BY <1>4 DEF Produce, ArrivalsPast, storeVars
  <2>2. stream[s] \in Seq(Record)
    BY <1>1
  <2>3. CASE s = ShardOf[e.user]
    <3>1. stream'[s] = Append(stream[s], [ev |-> e, arrival |-> now])
      BY <1>1, <1>4, <2>3 DEF Produce
    <3>2. CASE i \in 1 .. Len(stream[s])
      BY <2>2, <3>1, <3>2 DEF ArrivalsPast
    <3>3. CASE i = Len(stream[s]) + 1
      <4>1. stream'[s][i] = [ev |-> e, arrival |-> now]
        BY <2>2, <3>1, <3>3
      <4> QED
        BY <1>1, <4>1
    <3> QED
      BY <2>2, <3>1, <3>2, <3>3
  <2>4. CASE s # ShardOf[e.user]
    <3>1. stream'[s] = stream[s]
      BY <1>1, <1>4, <2>4 DEF Produce
    <3> QED
      BY <3>1 DEF ArrivalsPast
  <2> QED
    BY <2>3, <2>4
<1>5. \/ stream' = stream /\ now' \in {now, now + 1}
      \/ \E e \in Events : Produce(e)
  BY DEF Next, ShardStep, Poll, Invoke, DecodeRaises, WriteRaw, WriteLate, WriteFails,
         Get, GetFails, Apply, Close, FinalPut, PutFails, Return, Crash, FailBatch,
         TtlDelete, Tick, vars, storeVars
<1> QED
  BY <1>3, <1>4, <1>5

(* put_session stores a session that lives long enough.                    *)
LEMMA ItemLives ==
  ASSUME TypeOK, ArrivalsPast, NEW st \in State, InHand(st), st # EmptyState
  PROVE  /\ Lives(Item(Closed(st), now))
         /\ \A c \in Nat : Lives(Item([st EXCEPT !.cart_total = c], now))
<1> DEFINE due == IF st.expires_at = 0 THEN now + TtlTicks ELSE st.expires_at
<1>1. Begun(st) /\ st.log \in Seq(Position) /\ st.log # << >>
  BY DEF InHand, Begun, State
<1>2. st.log[1] \in Position
  BY <1>1
<1>3. st.log[1][1] \in Shards /\ st.log[1][2] \in 1 .. Len(stream[st.log[1][1]])
  BY <1>1, <1>2 DEF Begun, Position
<1>4. ArrivalOf(st.log[1]) <= now /\ ArrivalOf(st.log[1]) \in Nat /\ now \in Nat
  <2>1. stream[st.log[1][1]] \in Seq(Record)
    BY <1>3 DEF TypeOK
  <2>2. stream[st.log[1][1]][st.log[1][2]] \in Record
    BY <1>3, <2>1
  <2> QED
    BY <1>3, <2>2 DEF ArrivalsPast, ArrivalOf, Record, TypeOK
<1>5. TtlTicks \in Nat /\ st.expires_at \in Nat
  BY LogicAssumption DEF State
<1>6. due >= ArrivalOf(st.log[1]) + TtlTicks
  BY <1>4, <1>5 DEF InHand, LongEnough
<1>7. ASSUME NEW item, item.log = st.log, item.expires_at = due PROVE Lives(item)
  BY <1>1, <1>6, <1>7 DEF Lives, Begun, LongEnough
<1>8. Item(Closed(st), now).log = st.log /\ Item(Closed(st), now).expires_at = due
  BY DEF Item, Closed, State
<1>9. ASSUME NEW c \in Nat
      PROVE  LET item == Item([st EXCEPT !.cart_total = c], now)
             IN  item.log = st.log /\ item.expires_at = due
  BY DEF Item, State
<1> HIDE DEF due
<1> QED
  BY <1>7, <1>8, <1>9

(* An update begins a session with the event's position, or adds it.       *)
LEMMA UpdateInHand ==
  ASSUME TypeOK, NEW st \in State, InHand(st),
         NEW s \in Shards, NEW i \in 1 .. Len(stream[s]), NEW e
  PROVE  /\ InHand(Update(st, e, <<s, i>>))
         /\ Update(st, e, <<s, i>>) # EmptyState
<1> DEFINE new == Update(st, e, <<s, i>>)
<1>1. new.log = Append(st.log, <<s, i>>) /\ new.expires_at = st.expires_at
  BY DEF Update, State
<1>2. st.log \in Seq(Position) /\ <<s, i>> \in Position
  BY EventAt, LogOf
<1>3. new.log # << >>
  BY <1>1, <1>2
<1>4. CASE st = EmptyState
  <2>1. new.log[1] = <<s, i>> /\ new.expires_at = 0
    BY <1>1, <1>4 DEF EmptyState
  <2> QED
    BY <1>3, <2>1 DEF InHand, Begun, EmptyState
<1>5. CASE st # EmptyState
  <2>1. new.log[1] = st.log[1]
    BY <1>1, <1>2, <1>5 DEF InHand, Begun
  <2> QED
    BY <1>1, <1>3, <1>5, <2>1 DEF InHand, Begun, LongEnough, EmptyState
<1> QED
  BY <1>4, <1>5

LEMMA LifeInvInit == Init => LifeInv
<1> SUFFICES ASSUME Init PROVE LifeInv
  OBVIOUS
<1>1. TypeInv
  BY TypeInvInit
<1>2. \A s \in Shards : 1 .. Len(stream[s]) = {}
  BY DEF Init
<1> QED
  BY <1>1, <1>2 DEF Init, LifeInv, ArrivalsPast, Lives, InHand

LEMMA LifeInvStep == LifeInv /\ [Next]_vars => LifeInv'
<1> SUFFICES ASSUME LifeInv, [Next]_vars PROVE LifeInv'
  OBVIOUS
<1> USE DEF esmVars, lambdaVars, storeVars
<1>1. TypeInv /\ TypeOK /\ TypeInv' /\ ArrivalsPast
  BY TypeInvStep DEF LifeInv, TypeInv
<1>2. ArrivalsPast'
  BY <1>1, ArrivalsStep
<1>3. \A st \in State : (Lives(st) => Lives(st)') /\ (InHand(st) => InHand(st)')
  BY <1>1, LivesStays
<1>4. /\ EmptyState \in State /\ Lives(EmptyState)
      /\ \A x \in Sessions : /\ table[x] \in State /\ Lives(table[x])
                             /\ older[x] \in State /\ Lives(older[x])
      /\ \A s \in Shards : state[s] \in State /\ InHand(state[s])
  BY <1>1, EmptyStateType DEF LifeInv, TypeOK, Lives
<1>5. \A st \in State : Lives(st) => InHand(st)
  BY DEF Lives, InHand
<1> DEFINE TableLives == \A x \in Sessions : Lives(table[x])' /\ Lives(older[x])'
           HandOf(t) == /\ InHand(state[t])'
                        /\ pc'[t] = "apply" => todo'[t] # {} \/ state'[t] # EmptyState
<1>6. ASSUME NEW x \in Sessions, NEW item \in State, Lives(item), PutItem(x, item)
      PROVE  TableLives
  <2>1. \A y \in Sessions : /\ table'[y] \in {table[y], item}
                            /\ older'[y] \in {older[y], table[y]}
    BY <1>1, <1>6 DEF PutItem, TypeOK
  <2> QED
    BY <1>3, <1>4, <1>6, <2>1 DEF Lives, Begun, LongEnough, ArrivalOf
<1>7. ASSUME UNCHANGED <<table, older>> PROVE TableLives
  BY <1>3, <1>4, <1>7
<1>8. ASSUME NEW t \in Shards, state'[t] = state[t],
             pc'[t] = "apply" => pc[t] = "apply" /\ todo'[t] = todo[t]
      PROVE  HandOf(t)
  BY <1>3, <1>4, <1>8 DEF LifeInv
<1>9. ASSUME NEW s \in Shards, Get(s) PROVE HandOf(s)
  <2>1. PICK i \in left[s] : \E item \in ReadOf(Ev(s, i).sid) :
               /\ state' = [state EXCEPT ![s] = item]
               /\ todo' = [todo EXCEPT ![s] = Group(s, i)]
    BY <1>9 DEF Get
  <2>2. PICK item \in ReadOf(Ev(s, i).sid) : state' = [state EXCEPT ![s] = item]
    BY <2>1
  <2>3. Ev(s, i).sid \in Sessions
    BY <1>1, <1>9, EventAt DEF TypeInv, VisitsInStream, Event, Get
  <2>4. item \in State /\ Lives(item)
    BY <1>4, <2>3 DEF ReadOf
  <2>5. state'[s] = item /\ todo'[s] = Group(s, i) /\ i \in Group(s, i)
    BY <1>1, <2>1, <2>2 DEF TypeOK, Group
  <2> QED
    BY <1>3, <1>5, <2>4, <2>5
<1>10. ASSUME NEW s \in Shards, NEW i \in todo[s], NEW st \in State, InHand(st),
              state' = [state EXCEPT ![s] = Update(st, Ev(s, i), <<s, i>>)]
       PROVE  HandOf(s)
  <2>1. i \in 1 .. Len(stream[s]) /\ Ev(s, i) \in Event /\ <<s, i>> \in Position
    BY <1>1, EventAt DEF TypeInv, VisitsInStream
  <2>2. state'[s] = Update(st, Ev(s, i), <<s, i>>) /\ state'[s] \in State
    BY <1>1, <1>10, <2>1, UpdateType DEF TypeOK
  <2>3. InHand(state'[s]) /\ state'[s] # EmptyState
    BY <1>1, <1>10, <2>1, <2>2, UpdateInHand
  <2>4. \A st2 \in State : InHand(st2) => InHand(st2)'
    BY <1>3
  <2> QED
    BY <2>2, <2>3, <2>4 DEF InHand, Begun, LongEnough, ArrivalOf
<1>11. ASSUME NEW s \in Shards, Apply(s) PROVE HandOf(s) /\ TableLives
  <2>1. PICK i \in todo[s] : state' = [state EXCEPT ![s] = Update(@, Ev(s, i), <<s, i>>)]
    BY <1>11 DEF Apply
  <2>2. state' = [state EXCEPT ![s] = Update(state[s], Ev(s, i), <<s, i>>)]
    BY <1>1, <2>1 DEF TypeOK
  <2> QED
    BY <1>4, <1>7, <1>10, <1>11, <2>2 DEF Apply
<1>12. ASSUME NEW s \in Shards, Close(s) PROVE HandOf(s) /\ TableLives
  <2>1. PICK i \in todo[s] :
               /\ IsNewSession(state[s], Ev(s, i))
               /\ state' = [state EXCEPT ![s] = Update(EmptyState, Ev(s, i), <<s, i>>)]
    BY <1>12 DEF Close
  <2>2. HandOf(s)
    BY <1>4, <1>5, <1>10, <2>1
  <2>3. /\ PutItem(sid[s], Item(Closed(state[s]), now)) /\ sid[s] \in Sessions
        /\ state[s] # EmptyState /\ now \in Nat
    BY <1>1, <1>12, <2>1 DEF Close, TypeOK, IsNewSession
  <2>4. Item(Closed(state[s]), now) \in State /\ Lives(Item(Closed(state[s]), now))
    BY <1>1, <1>4, <2>3, ItemType, ItemLives
  <2> QED
    BY <1>6, <2>2, <2>3, <2>4
<1>13. ASSUME NEW s \in Shards, FinalPut(s) PROVE TableLives
  <2> DEFINE item == Item([state[s] EXCEPT !.cart_total = cart[s]], now)
  <2>1. /\ PutItem(sid[s], item) /\ sid[s] \in Sessions
        /\ state[s] # EmptyState /\ now \in Nat /\ cart[s] \in Nat
    BY <1>1, <1>13 DEF FinalPut, TypeOK, LifeInv
  <2>2. item \in State /\ Lives(item)
    BY <1>1, <1>4, <2>1, ItemType, ItemLives
  <2> HIDE DEF item
  <2> QED
    BY <1>6, <2>1, <2>2
<1>14. ASSUME NEW s \in Shards, EndInvocation(s) PROVE HandOf(s)
  <2>1. state'[s] = EmptyState /\ pc'[s] = "idle"
    BY <1>1, <1>14 DEF EndInvocation, TypeOK
  <2> QED
    BY <2>1 DEF InHand
<1>15. ASSUME NEW s \in Shards, ShardStep(s) PROVE HandOf(s) /\ TableLives
  <2>1. CASE Poll(s) \/ Invoke(s) \/ WriteRaw(s) \/ WriteLate(s) \/ GetFails(s) \/ PutFails(s)
    <3>1. /\ state'[s] = state[s] /\ (pc'[s] = "apply" => pc[s] = "apply" /\ todo'[s] = todo[s])
          /\ UNCHANGED <<table, older>>
      BY <1>1, <2>1
      DEF Poll, Invoke, WriteRaw, WriteLate, GetFails, PutFails, TypeOK
    <3> QED
      BY <1>7, <1>8, <3>1
  <2>2. CASE Get(s)
    BY <1>7, <1>9, <2>2 DEF Get
  <2>3. CASE DecodeRaises(s) \/ WriteFails(s) \/ Crash(s) \/ Return(s)
    <3>1. EndInvocation(s) /\ UNCHANGED <<table, older>>
      BY <2>3 DEF DecodeRaises, WriteFails, Crash, Return, FailBatch
    <3> QED
      BY <1>7, <1>14, <3>1
  <2>4. CASE FinalPut(s)
    <3>1. state'[s] = state[s] /\ pc'[s] = "next"
      BY <1>1, <2>4 DEF FinalPut, TypeOK
    <3> QED
      BY <1>8, <1>13, <2>4, <3>1
  <2> QED
    BY <1>11, <1>12, <1>15, <2>1, <2>2, <2>3, <2>4 DEF ShardStep
<1>16. ASSUME NEW s \in Shards, ShardStep(s), NEW t \in Shards, t # s PROVE HandOf(t)
  <2>1. state'[t] = state[t] /\ todo'[t] = todo[t] /\ pc'[t] = pc[t]
    BY <1>1, <1>16
    DEF ShardStep, Poll, Invoke, DecodeRaises, WriteRaw, WriteLate, WriteFails, Get,
        GetFails, Apply, Close, FinalPut, PutFails, Return, Crash, FailBatch,
        EndInvocation, TypeOK
  <2> QED
    BY <1>8, <2>1
<1>17. ASSUME NEW x \in Sessions, TtlDelete(x) PROVE TableLives
  BY <1>4, <1>6, <1>17 DEF TtlDelete
<1>18. TableLives /\ \A t \in Shards : HandOf(t)
  <2>1. CASE \E s \in Shards : ShardStep(s)
    BY <1>15, <1>16, <2>1
  <2>2. CASE UNCHANGED lambdaVars
    <3>1. \A t \in Shards : HandOf(t)
      BY <1>8, <2>2
    <3>2. UNCHANGED <<table, older>> \/ (\E x \in Sessions : TtlDelete(x)) \/ (\E s \in Shards : ShardStep(s))
      BY DEF Next, Produce, Tick, vars
    <3> QED
      BY <1>7, <1>15, <1>17, <3>1, <3>2
  <2> QED
    BY <2>1, <2>2 DEF Next, Produce, TtlDelete, Tick, vars
<1> QED
  BY <1>1, <1>2, <1>18 DEF LifeInv

(* An item is not due to expire before ttl_hours have passed since the     *)
(* first event of its session arrived, whatever is killed, read stale or   *)
(* retried: an item that is read keeps the expiry of its first write, and  *)
(* the session begun at a boundary, which is stored under the same key,    *)
(* starts without one.                                                     *)
THEOREM ItemsLiveLongEnough == Spec => []LivesFromFirstEvent
<1>1. LifeInv => LivesFromFirstEvent
  BY DEF LifeInv, Lives, LongEnough, LivesFromFirstEvent
<1> QED
  BY <1>1, LifeInvInit, LifeInvStep, PTL DEF Spec

----------------------------------------------------------------------------
(* Event order                                                             *)

(* The positions that no invocation visits from now on.                    *)
Past(s) == Touched(s) \cup Dead(s)

InBatch(s, i, j) == i \in Span(batch[s]) /\ j \in Span(batch[s])

(* Two records of a shard are in order if the batch was sorted so, or if   *)
(* they came in different batches, as the stream has them.                 *)
InOrder(s, i, j) ==
  \/ Precedes(s, i, j)
  \/ i < j /\ ~InBatch(s, i, j)

(* The log of a session: on-time records of that session, those of a shard *)
(* in order, and none of the session's records that are still to come      *)
(* belongs before one of them.                                             *)
OfSession(log, x) ==
  \A k \in DOMAIN log :
    /\ log[k][2] \in 1 .. Len(stream[log[k][1]])
    /\ SidOf(log[k]) = x /\ ~Ev(log[k][1], log[k][2]).late
LogInOrder(log) ==
  \A k, m \in DOMAIN log :
    k < m /\ log[k][1] = log[m][1] => InOrder(log[k][1], log[k][2], log[m][2])
Foremost(log, x) ==
  \A k \in DOMAIN log : \A j \in 1 .. Len(stream[log[k][1]]) :
    Ev(log[k][1], j).sid = x /\ j \notin Past(log[k][1]) =>
      IF InBatch(log[k][1], log[k][2], j)
        THEN Precedes(log[k][1], log[k][2], j)
        ELSE log[k][2] < j

Ordered(log, x) == OfSession(log, x) /\ LogInOrder(log) /\ Foremost(log, x)

GoodLogs ==
  [x \in Sessions |->
     {log \in Seq(Position) : Sound(log, AllTouched) /\ Ordered(log, x)}]

(* The visits of an invocation: the session in hand, and the others.       *)
HandInv(s) ==
  /\ pc[s] = "idle" => batch[s] = NoBatch
  /\ \A i \in left[s] \cup todo[s] : ~Ev(s, i).late
  /\ pc[s] = "apply" =>
       /\ state[s].log \in GoodLogs[sid[s]]
       /\ \A i \in todo[s] : Ev(s, i).sid = sid[s]
       /\ \A i \in left[s] : Ev(s, i).sid # sid[s]

OrderInv ==
  /\ OnceInv
  /\ \A s \in Shards : HandInv(s)
  /\ \A x \in Sessions : table[x].log \in GoodLogs[x] /\ older[x].log \in GoodLogs[x]

LEMMA EmptyIsGood == EmptyState.log = << >> /\ \A x \in Sessions : << >> \in GoodLogs[x]
<1>1. EmptyState.log = << >> /\ << >> \in Seq(Position)
  BY DEF EmptyState
<1>2. \A x : Ordered(<< >>, x)
  BY DEF Ordered, OfSession, LogInOrder, Foremost
<1> QED
  BY <1>1, <1>2, SoundEmpty DEF GoodLogs

LEMMA PastGrows ==
  ASSUME ~Crashes, OnceInv, [Next]_vars
  PROVE  \A t \in Shards : Past(t) \subseteq Past(t)'
<1>1. TypeInv /\ TypeOK /\ \A t \in Shards : VisitsApart(t)
  BY DEF OnceInv, ServiceInv, TypeInv
<1>2. \A t \in Shards : Touched(t) \subseteq Touched(t)'
  BY <1>1, VisitsStep
<1>3. \A t \in Shards : dlq[t] \subseteq dlq'[t]
  <2>1. ASSUME NEW s \in Shards, NEW b, FailBatch(s, b)
        PROVE  \A t \in Shards : dlq[t] \subseteq dlq'[t]
    BY <1>1, <2>1 DEF FailBatch, GiveUp, RetryWhole, Bisect, TypeOK
  <2>2. dlq' = dlq \/ \E s \in Shards : \E b : FailBatch(s, b)
    BY DEF Next, ShardStep, Poll, Invoke, DecodeRaises, WriteRaw, WriteLate, WriteFails,
           Get, GetFails, Apply, Close, FinalPut, PutFails, Return, Crash, Produce,
           TtlDelete, Tick, vars, esmVars
  <2> QED
    BY <2>1, <2>2
<1> QED
  BY <1>2, <1>3 DEF Past, Dead

(* A new batch holds no record that has been visited, and of the old one   *)
(* all records have been visited for good, or none has.                    *)
LEMMA BatchStep ==
  ASSUME ~Crashes, OnceInv, \A t \in Shards : HandInv(t), [Next]_vars, NEW s \in Shards
  PROVE  \/ UNCHANGED batch[s]
         \/ /\ UNCHANGED stream
            /\ \A i \in Touched(s) :
                 /\ i \notin Span(batch[s])'
                 /\ \A j : j \notin Past(s)' => ~InBatch(s, i, j)
<1> USE DEF esmVars, lambdaVars, storeVars
<1>1. TypeInv /\ TypeOK /\ AccountedIn(s) /\ HandInv(s) /\ VisitsInStream(s)
  BY DEF OnceInv, ServiceInv, TypeInv
<1>2. Span(NoBatch) = {}
  BY DEF Span, NoBatch
<1>3. pc[s] \notin {"next", "apply"} =>
        \A b \in work[s] : \A i \in Touched(s) : i \notin Span(b)
  BY <1>1 DEF Touched, AccountedIn, Pending
<1>4. CASE Invoke(s)
  <2>1. PICK b \in work[s] : batch' = [batch EXCEPT ![s] = b]
    BY <1>4 DEF Invoke
  <2>2. batch'[s] = b /\ batch[s] = NoBatch /\ pc[s] = "idle" /\ UNCHANGED stream
    BY <1>1, <1>4, <2>1 DEF Invoke, HandInv, TypeOK
  <2> QED
    BY <1>2, <1>3, <2>2 DEF InBatch
<1>5. CASE DecodeRaises(s) \/ WriteFails(s)
  <2>1. EndInvocation(s) /\ pc[s] \in {"idle", "raw", "late"} /\ UNCHANGED stream
    BY <1>5 DEF DecodeRaises, WriteFails, FailBatch
  <2>2. batch'[s] = NoBatch
    BY <1>1, <2>1 DEF EndInvocation, TypeOK
  <2>3. batch[s] = NoBatch \/ batch[s] \in work[s]
    BY <1>1, <2>1 DEF HandInv, VisitsInStream
  <2> QED
    BY <1>2, <1>3, <2>1, <2>2, <2>3 DEF InBatch
<1>6. CASE Return(s)
  <2>1. /\ batch'[s] = NoBatch /\ Span(batch[s]) \subseteq done'[s] /\ UNCHANGED stream
    BY <1>1, <1>6 DEF Return, EndInvocation, TypeOK
  <2>2. done'[s] \subseteq Past(s)'
    BY DEF Past, Touched
  <2> QED
    BY <1>2, <2>1, <2>2 DEF InBatch
<1>7. CASE \/ Poll(s) \/ WriteRaw(s) \/ WriteLate(s) \/ Get(s) \/ GetFails(s)
           \/ Apply(s) \/ Close(s) \/ FinalPut(s) \/ PutFails(s)
  BY <1>7
  DEF Poll, WriteRaw, WriteLate, Get, GetFails, Apply, Close, FinalPut, PutFails
<1>8. ASSUME NEW t \in Shards, ShardStep(t), t # s PROVE UNCHANGED batch[s]
  BY <1>1, <1>8
  DEF ShardStep, Poll, Invoke, DecodeRaises, WriteRaw, WriteLate, WriteFails, Get,
      GetFails, Apply, Close, FinalPut, PutFails, Return, Crash, FailBatch,
      EndInvocation, TypeOK
<1>9. \/ UNCHANGED batch
      \/ \E t \in Shards : ShardStep(t)
  BY DEF Next, Produce, TtlDelete, Tick, vars
<1>10. ~Crash(s)
  BY DEF Crash
<1> QED
  BY <1>4, <1>5, <1>6, <1>7, <1>8, <1>9, <1>10 DEF ShardStep

(* What is in order stays so.                                              *)
LEMMA OrderedStays ==
  ASSUME ~Crashes, OnceInv, \A t \in Shards : HandInv(t), [Next]_vars,
         NEW log \in Seq(Position), NEW x, Sound(log, AllTouched), Ordered(log, x)
  PROVE  Ordered(log, x)'
<1>1. TypeOK /\ TypeInv /\ \A t \in Shards : Past(t) \subseteq Past(t)'
  BY PastGrows DEF OnceInv, ServiceInv, TypeInv
<1>2. ASSUME NEW k \in DOMAIN log
      PROVE  /\ log[k][1] \in Shards /\ log[k][2] \in 1 .. Len(stream[log[k][1]])
             /\ log[k][2] \in 1 .. Len(stream'[log[k][1]])
             /\ Ev(log[k][1], log[k][2])' = Ev(log[k][1], log[k][2])
             /\ SidOf(log[k]) = x /\ ~Ev(log[k][1], log[k][2]).late
             /\ log[k][2] \in Touched(log[k][1])
  <2>1. log[k] \in Position
    OBVIOUS
  <2>2. log[k][1] \in Shards
    BY <2>1 DEF Position
  <2> QED
    BY <1>1, <2>2, EventStays DEF Ordered, OfSession, Sound, AllTouched
<1>3. OfSession(log, x)'
  BY <1>2 DEF OfSession, SidOf
<1>4. ASSUME NEW s \in Shards
      PROVE  \/ batch'[s] = batch[s] /\ (stream' = stream \/ batch' = batch)
             \/ /\ stream' = stream
                /\ \A i \in Touched(s) :
                     /\ i \notin Span(batch'[s])
                     /\ \A j : j \notin Past(s)' => ~InBatch(s, i, j)
  <2>1. stream' = stream \/ batch' = batch
    BY DEF Next, ShardStep, Poll, Invoke, DecodeRaises, WriteRaw, WriteLate, WriteFails,
           Get, GetFails, Apply, Close, FinalPut, PutFails, Return, Crash, FailBatch,
           Produce, TtlDelete, Tick, vars, lambdaVars
  <2> QED
    BY <2>1, BatchStep DEF Span
<1>5. ASSUME NEW k \in DOMAIN log, NEW m \in DOMAIN log, k < m, log[k][1] = log[m][1]
      PROVE  InOrder(log[k][1], log[k][2], log[m][2])'
  <2> DEFINE s == log[k][1]
             p == log[k][2]
             q == log[m][2]
  <2>1. /\ s \in Shards /\ Ev(s, p)' = Ev(s, p) /\ Ev(s, q)' = Ev(s, q)
        /\ p \in Touched(s) /\ InOrder(s, p, q)
    BY <1>2, <1>5 DEF Ordered, LogInOrder
  <2> HIDE DEF s, p, q
  <2>2. CASE Precedes(s, p, q)
    <3>1. Precedes(s, p, q)'
      BY <2>1, <2>2 DEF Precedes
    <3> QED
      BY <3>1 DEF InOrder, s, p, q
  <2>3. CASE p < q /\ ~InBatch(s, p, q)
    <3>1. ~(p \in Span(batch'[s]) /\ q \in Span(batch'[s]))
      BY <1>4, <2>1, <2>3 DEF InBatch
    <3> QED
      BY <1>5, <2>3, <3>1 DEF InOrder, InBatch, Span, s, p, q
  <2> QED
    BY <2>1, <2>2, <2>3 DEF InOrder
<1>6. ASSUME NEW k \in DOMAIN log, NEW j \in 1 .. Len(stream'[log[k][1]]),
             Ev(log[k][1], j)'.sid = x, j \notin Past(log[k][1])'
      PROVE  IF InBatch(log[k][1], log[k][2], j)'
               THEN Precedes(log[k][1], log[k][2], j)'
               ELSE log[k][2] < j
  <2> DEFINE s == log[k][1]
             p == log[k][2]
  <2>1. /\ s \in Shards /\ stream[s] \in Seq(Record) /\ p \in Touched(s)
        /\ p \in 1 .. Len(stream[s]) /\ Ev(s, p)' = Ev(s, p)
    BY <1>1, <1>2 DEF TypeOK
  <2>2. j \in 1 .. Len(stream[s]) =>
          IF InBatch(s, p, j) THEN Precedes(s, p, j) ELSE p < j
    <3>1. ASSUME j \in 1 .. Len(stream[s])
          PROVE  Ev(s, j).sid = x /\ j \notin Past(s)
      BY <1>1, <1>6, <2>1, <3>1, EventStays
    <3> QED
      BY <3>1 DEF Ordered, Foremost
  <2>3. j \in 1 .. Len(stream'[s]) /\ j \notin Past(s)'
    BY <1>6
  <2> HIDE DEF s, p
  <2>4. CASE j \in 1 .. Len(stream[s])
    <3>1. Ev(s, j)' = Ev(s, j)
      BY <1>1, <2>1, <2>4, EventStays
    <3>2. CASE batch'[s] = batch[s]
      <4>1. IF p \in Span(batch'[s]) /\ j \in Span(batch'[s])
              THEN Precedes(s, p, j)' ELSE p < j
        BY <2>1, <2>2, <2>4, <3>1, <3>2 DEF InBatch, Precedes
      <4> QED
        BY <4>1 DEF InBatch, Span, s, p
    <3>3. CASE batch'[s] # batch[s]
      <4>1. p \notin Span(batch'[s]) /\ ~InBatch(s, p, j)
        BY <1>4, <2>1, <2>3, <3>3
      <4>2. p < j
        BY <2>2, <2>4, <4>1
      <4> QED
        BY <4>1, <4>2 DEF InBatch, Span, s, p
    <3> QED
      BY <3>2, <3>3
  <2>5. CASE j \notin 1 .. Len(stream[s])
    <3>1. p < j /\ stream' # stream
      BY <2>1, <2>3, <2>5
    <3>2. batch' = batch
      BY <1>4, <2>1, <3>1
    <3>3. j \notin Span(batch[s])
      <4>1. CASE pc[s] = "idle"
        BY <2>1, <4>1 DEF HandInv, Span, NoBatch
      <4>2. CASE pc[s] # "idle"
        <5>1. batch[s] \in work[s]
          BY <1>1, <2>1, <4>2 DEF TypeInv, VisitsInStream
        <5>2. Span(batch[s]) \subseteq 1 .. Len(stream[s])
          BY <1>1, <2>1, <5>1, BatchInStream
        <5> QED
          BY <2>5, <5>2
      <4> QED
        BY <4>1, <4>2
    <3> QED
      BY <3>1, <3>2, <3>3 DEF InBatch, s, p
  <2> QED
    BY <2>4, <2>5
<1> QED
  BY <1>3, <1>5, <1>6 DEF Ordered, LogInOrder, Foremost

LEMMA GoodStays ==
  ASSUME ~Crashes, OnceInv, \A t \in Shards : HandInv(t), [Next]_vars,
         NEW x \in Sessions
  PROVE  GoodLogs[x] \subseteq GoodLogs'[x]
<1> SUFFICES ASSUME NEW log \in GoodLogs[x] PROVE log \in GoodLogs'[x]
  OBVIOUS
<1>1. log \in Seq(Position) /\ Sound(log, AllTouched) /\ Ordered(log, x)
  BY DEF GoodLogs
<1>2. \A t \in Shards : AllTouched[t] \subseteq AllTouched'[t]
  BY VisitsStep DEF OnceInv, ServiceInv, AllTouched
<1>3. Sound(log, AllTouched')
  BY <1>1, <1>2, SoundGrows
<1>4. Sound(log, AllTouched)'
  BY <1>3 DEF Sound
<1>5. Ordered(log, x)'
  BY <1>1, OrderedStays
<1> QED
  BY <1>1, <1>4, <1>5 DEF GoodLogs

(* The visit of the next record keeps a log in order: of the session's     *)
(* records that are still to come it is the first, for the batch is sorted *)
(* by event time and the shard is served in order.                         *)
LEMMA NextOrdered ==
  ASSUME ~Crashes, OrderInv, [Next]_vars,
         NEW s \in Shards, NEW i \in todo[s], Visit(s, i), IsNext(s, i),
         NEW x \in Sessions, x = sid[s], NEW log \in GoodLogs[x]
  PROVE  Append(log, <<s, i>>) \in GoodLogs'[x]
<1>0. log \in Seq(Position) /\ Sound(log, AllTouched) /\ Ordered(log, x)
  BY DEF GoodLogs
<1>1. /\ TypeOK /\ OnceInv /\ ServiceInv /\ TypeInv
      /\ VisitsApart(s) /\ HandInv(s) /\ AccountedIn(s) /\ InOrderIn(s)
      /\ pc[s] = "apply"
  BY DEF OrderInv, OnceInv, ServiceInv, TypeInv, Visit
<1>2. \A t \in Shards : Past(t) \subseteq Past(t)'
  BY <1>1, PastGrows
<1>3. /\ batch[s] \in work[s] /\ i \in Span(batch[s]) /\ i \in 1 .. Len(stream[s])
      /\ Ev(s, i).sid = x /\ ~Ev(s, i).late /\ batch[s] \in Batch
  BY <1>1, BatchInStream DEF TypeInv, VisitsInStream, VisitsApart, HandInv
<1>4. i \notin Past(s)
  <2>1. i \in Pending(s) /\ i \notin done[s] /\ i \notin Dead(s)
    BY <1>1, <1>3 DEF Pending, AccountedIn
  <2> QED
    BY <1>1, <2>1 DEF Past, Touched
<1>5. i \in Past(s)' /\ batch' = batch
  BY <1>1, <1>3 DEF Visit, Past, Touched, VisitsApart, TypeOK
<1>6. ASSUME NEW k \in DOMAIN log, log[k][1] = s PROVE InOrder(s, log[k][2], i)
  BY <1>0, <1>3, <1>4, <1>6 DEF Ordered, Foremost, InOrder
<1>7. ASSUME NEW j \in 1 .. Len(stream'[s]), Ev(s, j)'.sid = x, j \notin Past(s)'
      PROVE  IF InBatch(s, i, j) THEN Precedes(s, i, j)' ELSE i < j
  <2>1. stream[s] \in Seq(Record) /\ j \in Nat /\ i \in Nat
    BY <1>1, <1>3 DEF TypeOK
  <2>2. j \in Span(batch[s]) => j \in 1 .. Len(stream[s])
    BY <1>1, <1>3, BatchInStream
  <2>3. CASE j \notin 1 .. Len(stream[s])
    BY <1>3, <1>7, <2>1, <2>2, <2>3 DEF InBatch
  <2>4. CASE j \in 1 .. Len(stream[s])
    <3>1. Ev(s, j).sid = x /\ j \notin Past(s) /\ j # i
      BY <1>1, <1>2, <1>5, <1>7, <2>4, EventStays
    <3>2. CASE j \in Span(batch[s])
      <4>1. j \in todo[s]
        BY <1>1, <3>1, <3>2 DEF Past, Touched, HandInv
      <4>2. Precedes(s, i, j)
        BY <4>1 DEF IsNext
      <4>3. Precedes(s, i, j)'
        BY <1>1, <1>3, <2>4, <4>2, EventStays DEF Precedes
      <4> QED
        BY <1>3, <3>2, <4>3 DEF InBatch
    <3>3. CASE j \notin Span(batch[s])
      <4>1. j \notin 1 .. (batch[s].lo - 1)
        BY <1>1, <3>1 DEF InOrderIn, Past, Touched
      <4> QED
        BY <1>3, <2>1, <2>4, <3>3, <4>1 DEF Span, Batch, InBatch
    <3> QED
      BY <3>2, <3>3
  <2> QED
    BY <2>3, <2>4
<1>8. Ordered(log, x)'
  BY <1>0, <1>1, OrderedStays DEF OrderInv
<1>9. i \in 1 .. Len(stream'[s]) /\ Ev(s, i)' = Ev(s, i)
  BY <1>1, <1>3, EventStays
<1> DEFINE new == Append(log, <<s, i>>)
<1>10. /\ DOMAIN new = 1 .. Len(log) + 1 /\ DOMAIN log = 1 .. Len(log)
       /\ Len(log) \in Nat /\ \A k \in 1 .. Len(log) : new[k] = log[k]
       /\ new[Len(log) + 1] = <<s, i>>
  BY <1>0
<1> HIDE DEF new
<1>11. OfSession(new, x)'
  BY <1>3, <1>8, <1>9, <1>10 DEF Ordered, OfSession, SidOf
<1>12. ASSUME NEW k \in DOMAIN log, log[k][1] = s PROVE InOrder(s, log[k][2], i)'
  <2>1. log[k] \in Position /\ log[k][2] \in 1 .. Len(stream[s])
    BY <1>0, <1>12 DEF Ordered, OfSession
  <2>2. Ev(s, log[k][2])' = Ev(s, log[k][2])
    BY <1>1, <2>1, EventStays
  <2>3. InOrder(s, log[k][2], i) /\ Span(batch[s])' = Span(batch[s])
    BY <1>5, <1>6, <1>12 DEF Span
  <2> QED
    BY <1>9, <2>2, <2>3 DEF InOrder, InBatch, Precedes
<1>13. LogInOrder(new)'
  <2>1. ASSUME NEW k \in DOMAIN new, NEW m \in DOMAIN new, k < m, new[k][1] = new[m][1]
        PROVE  InOrder(new[k][1], new[k][2], new[m][2])'
    <3>1. CASE m = Len(log) + 1
      <4>1. k \in DOMAIN log /\ new[k] = log[k] /\ log[k][1] = s /\ new[m] = <<s, i>>
        BY <1>10, <2>1, <3>1
      <4> QED
        BY <1>12, <4>1 DEF InOrder, InBatch, Precedes, Ev
    <3>2. CASE m # Len(log) + 1
      <4>1. k \in DOMAIN log /\ m \in DOMAIN log /\ new[k] = log[k] /\ new[m] = log[m]
        BY <1>10, <2>1, <3>2
      <4> QED
        BY <1>8, <2>1, <4>1 DEF Ordered, LogInOrder
    <3> QED
      BY <3>1, <3>2
  <2> QED
    BY <2>1 DEF LogInOrder
<1>14. Foremost(new, x)'
  <2>1. ASSUME NEW k \in DOMAIN new, NEW j \in 1 .. Len(stream'[new[k][1]]),
               Ev(new[k][1], j)'.sid = x, j \notin Past(new[k][1])'
        PROVE  IF InBatch(new[k][1], new[k][2], j)'
                 THEN Precedes(new[k][1], new[k][2], j)'
                 ELSE new[k][2] < j
    <3>1. CASE k = Len(log) + 1
      <4>1. new[k] = <<s, i>>
        BY <1>10, <3>1
      <4>2. InBatch(s, i, j)' <=> InBatch(s, i, j)
        BY <1>5 DEF InBatch
      <4> QED
        BY <1>7, <2>1, <4>1, <4>2
    <3>2. CASE k # Len(log) + 1
      <4>1. k \in DOMAIN log /\ new[k] = log[k]
        BY <1>10, <3>2
      <4> QED
        BY <1>8, <2>1, <4>1 DEF Ordered, Foremost
    <3> QED
      BY <3>1, <3>2
  <2> QED
    BY <2>1 DEF Foremost
<1>15. Sound(new, AllTouched)'
  <2>1. /\ \A t \in Shards : AllTouched[t] \subseteq AllTouched'[t]
        /\ i \notin AllTouched[s] /\ i \in AllTouched'[s] /\ i \in Nat
    BY <1>1, <1>3, <1>4, VisitsStep
    DEF OnceInv, AllTouched, Past, Visit, Touched, VisitsApart, TypeOK
  <2>2. Sound(new, AllTouched')
    BY <1>0, <2>1, SoundAppend DEF new
  <2> QED
    BY <2>2 DEF Sound
<1>16. new \in Seq(Position)
  BY <1>0, <1>1, <1>3, EventAt DEF new
<1> QED
  BY <1>11, <1>13, <1>14, <1>15, <1>16 DEF Ordered, GoodLogs, new

LEMMA OrderInvInit == Init => OrderInv
<1> SUFFICES ASSUME Init PROVE OrderInv
  OBVIOUS
<1>1. OnceInv
  BY OnceInvInit
<1>2. \A s \in Shards : HandInv(s)
  BY DEF Init, HandInv
<1>3. \A x \in Sessions : table[x].log \in GoodLogs[x] /\ older[x].log \in GoodLogs[x]
  BY EmptyIsGood DEF Init
<1> QED
  BY <1>1, <1>2, <1>3 DEF OrderInv

LEMMA OrderInvStep ==
  ASSUME ~Crashes, OrderInv, [Next]_vars
  PROVE  OrderInv'
<1> USE DEF esmVars, lambdaVars, storeVars
<1>1. /\ TypeOK /\ OnceInv /\ TypeInv /\ OnceInv' /\ TypeOK'
      /\ \A t \in Shards : VisitsInStream(t) /\ HandInv(t)
  BY OnceInvStep DEF OrderInv, OnceInv, ServiceInv, TypeInv
<1>2. \A x \in Sessions : GoodLogs[x] \subseteq GoodLogs'[x]
  BY <1>1, GoodStays
<1>3. /\ \A x \in Sessions : table[x].log \in GoodLogs[x] /\ older[x].log \in GoodLogs[x]
      /\ \A s \in Shards : state[s] \in State /\ sid[s] \in Sessions
      /\ EmptyState.log = << >> /\ \A x \in Sessions : << >> \in GoodLogs[x]
  BY <1>1, EmptyIsGood DEF OrderInv, TypeOK
<1> DEFINE TableOrdered ==
             \A x \in Sessions : table'[x].log \in GoodLogs'[x] /\ older'[x].log \in GoodLogs'[x]
(* What a put stores, and what it moves.                                   *)
<1>4. ASSUME NEW x \in Sessions, NEW item, item.log \in GoodLogs[x], PutItem(x, item)
      PROVE  TableOrdered
  BY <1>1, <1>2, <1>3, <1>4 DEF PutItem, TypeOK
<1>5. ASSUME UNCHANGED <<table, older>> PROVE TableOrdered
  BY <1>2, <1>3, <1>5
(* Of the visits: fewer than before, of a session in hand as before.       *)
<1>6. ASSUME NEW t \in Shards, left'[t] \cup todo'[t] \subseteq left[t] \cup todo[t],
             pc'[t] = "idle" => batch'[t] = NoBatch,
             pc'[t] = "apply" => /\ pc[t] = "apply" /\ state'[t] = state[t] /\ sid'[t] = sid[t]
                                 /\ left'[t] \subseteq left[t] /\ todo'[t] \subseteq todo[t]
      PROVE  HandInv(t)'
  <2>1. \A i \in left[t] \cup todo[t] : Ev(t, i)' = Ev(t, i)
    BY <1>1, EventStays DEF VisitsInStream
  <2>2. \A i \in left'[t] \cup todo'[t] : ~Ev(t, i)'.late
    BY <1>1, <1>6, <2>1 DEF HandInv
  <2>3. ASSUME pc'[t] = "apply"
        PROVE  /\ \A i \in todo'[t] : Ev(t, i)'.sid = sid'[t]
               /\ \A i \in left'[t] : Ev(t, i)'.sid # sid'[t]
               /\ state'[t].log \in GoodLogs'[sid'[t]]
    BY <1>1, <1>2, <1>3, <1>6, <2>1, <2>3 DEF HandInv
  <2> QED
    BY <1>6, <2>2, <2>3 DEF HandInv
<1>7. ASSUME NEW s \in Shards, Get(s) PROVE HandInv(s)'
  <2>1. PICK i \in left[s] : \E item \in ReadOf(Ev(s, i).sid) :
               /\ todo' = [todo EXCEPT ![s] = Group(s, i)]
               /\ left' = [left EXCEPT ![s] = @ \ Group(s, i)]
               /\ sid' = [sid EXCEPT ![s] = Ev(s, i).sid]
               /\ state' = [state EXCEPT ![s] = item]
    BY <1>7 DEF Get
  <2>2. PICK item \in ReadOf(Ev(s, i).sid) : state' = [state EXCEPT ![s] = item]
    BY <2>1
  <2>3. PICK x \in Sessions : x = Ev(s, i).sid
    BY <1>1, EventAt DEF VisitsInStream, Event
  <2>4. item.log \in GoodLogs'[x]
    BY <1>2, <1>3, <2>2, <2>3 DEF ReadOf
  <2>5. /\ todo'[s] = {j \in left[s] : Ev(s, j).sid = x}
        /\ left'[s] = {j \in left[s] : Ev(s, j).sid # x}
        /\ sid'[s] = x /\ state'[s] = item /\ pc'[s] = "apply"
    BY <1>1, <1>7, <2>1, <2>2, <2>3 DEF Get, TypeOK, Group
  <2>6. \A j \in left[s] : Ev(s, j)' = Ev(s, j) /\ ~Ev(s, j).late
    BY <1>1, EventStays DEF VisitsInStream, HandInv
  <2> QED
    BY <2>4, <2>5, <2>6 DEF HandInv
<1>8. ASSUME NEW s \in Shards, NEW i \in todo[s], Visit(s, i), IsNext(s, i),
             sid' = sid, NEW st \in State, st.log = << >> \/ st = state[s],
             state' = [state EXCEPT ![s] = Update(st, Ev(s, i), <<s, i>>)]
      PROVE  HandInv(s)'
  <2>1. PICK x \in Sessions : x = sid[s]
    BY <1>3
  <2>2. st.log \in GoodLogs[x]
    BY <1>1, <1>3, <1>8, <2>1 DEF HandInv, Visit
  <2>3. Append(st.log, <<s, i>>) \in GoodLogs'[x]
    BY <1>8, <2>1, <2>2, NextOrdered
  <2>4. state'[s].log = Append(st.log, <<s, i>>) /\ sid'[s] = x
    BY <1>1, <1>8, <2>1, LogOfUpdate DEF TypeOK
  <2>5. \A j \in left[s] \cup todo[s] : Ev(s, j)' = Ev(s, j)
    BY <1>1, EventStays DEF VisitsInStream
  <2>6. left'[s] = left[s] /\ todo'[s] \subseteq todo[s] /\ pc[s] = "apply" /\ pc'[s] = "apply"
    BY <1>1, <1>8 DEF Visit, TypeOK
  <2> QED
    BY <1>1, <2>1, <2>3, <2>4, <2>5, <2>6 DEF HandInv
<1>9. ASSUME NEW s \in Shards, Apply(s) PROVE HandInv(s)' /\ TableOrdered
  <2>1. PICK i \in todo[s] :
               /\ Visit(s, i) /\ IsNext(s, i)
               /\ state' = [state EXCEPT ![s] = Update(@, Ev(s, i), <<s, i>>)]
    BY <1>9 DEF Apply, Visit
  <2>2. state' = [state EXCEPT ![s] = Update(state[s], Ev(s, i), <<s, i>>)] /\ sid' = sid
    BY <1>1, <1>9, <2>1 DEF Apply, TypeOK
  <2> QED
    BY <1>3, <1>5, <1>8, <1>9, <2>1, <2>2 DEF Apply
<1>10. ASSUME NEW s \in Shards, Close(s) PROVE HandInv(s)' /\ TableOrdered
  <2>1. PICK i \in todo[s] :
               /\ Visit(s, i) /\ IsNext(s, i)
               /\ state' = [state EXCEPT ![s] = Update(EmptyState, Ev(s, i), <<s, i>>)]
    BY <1>10 DEF Close, Visit
  <2>2. HandInv(s)'
    BY <1>3, <1>8, <1>10, <2>1, EmptyStateType DEF Close
  <2>3. /\ PutItem(sid[s], Item(Closed(state[s]), now))
        /\ state[s].log \in GoodLogs[sid[s]]
    BY <1>1, <1>10 DEF Close, HandInv
  <2>4. Item(Closed(state[s]), now).log = state[s].log
    BY <1>3, LogOf
  <2> QED
    BY <1>3, <1>4, <2>2, <2>3, <2>4
<1>11. ASSUME NEW s \in Shards, FinalPut(s) PROVE TableOrdered
  <2> DEFINE item == Item([state[s] EXCEPT !.cart_total = cart[s]], now)
  <2>1. PutItem(sid[s], item) /\ state[s].log \in GoodLogs[sid[s]]
    BY <1>1, <1>11 DEF FinalPut, HandInv
  <2>2. item.log = state[s].log
    BY <1>3, LogOf
  <2> HIDE DEF item
  <2> QED
    BY <1>3, <1>4, <2>1, <2>2
<1>12. ASSUME NEW s \in Shards, ShardStep(s) PROVE HandInv(s)' /\ TableOrdered
  <2>1. CASE Invoke(s)
    <3>1. PICK b \in work[s] : left' = [left EXCEPT ![s] = OnTime(s, b)]
      BY <2>1 DEF Invoke
    <3>2. /\ left'[s] = OnTime(s, b) /\ todo'[s] = {} /\ pc'[s] = "raw"
          /\ stream' = stream
      BY <1>1, <2>1, <3>1 DEF Invoke, TypeOK, OnceInv, VisitsApart
    <3>3. HandInv(s)'
      BY <3>2 DEF HandInv, OnTime, Ev
    <3> QED
      BY <1>5, <2>1, <3>3 DEF Invoke
  <2>2. CASE Poll(s) \/ WriteRaw(s) \/ WriteLate(s) \/ PutFails(s)
    <3>1. /\ left'[s] = left[s] /\ todo'[s] \subseteq todo[s]
          /\ state'[s] = state[s] /\ sid'[s] = sid[s] /\ UNCHANGED <<table, older>>
          /\ pc'[s] = "apply" => pc[s] = "apply"
          /\ pc'[s] = "idle" => pc[s] = "idle" /\ batch'[s] = batch[s]
      BY <1>1, <2>2 DEF Poll, WriteRaw, WriteLate, PutFails, TypeOK
    <3>2. pc'[s] = "idle" => batch'[s] = NoBatch
      BY <1>1, <3>1 DEF HandInv
    <3> QED
      BY <1>5, <1>6, <3>1, <3>2
  <2>3. CASE GetFails(s)
    <3>1. PICK i \in left[s] : left' = [left EXCEPT ![s] = @ \ Group(s, i)]
      BY <2>3 DEF GetFails
    <3>2. left'[s] \subseteq left[s] /\ todo'[s] = todo[s] /\ pc'[s] = "next"
      BY <1>1, <2>3, <3>1 DEF GetFails, TypeOK
    <3> QED
      BY <1>5, <1>6, <2>3, <3>2 DEF GetFails
  <2>4. CASE Get(s)
    BY <1>5, <1>7, <2>4 DEF Get
  <2>5. CASE DecodeRaises(s) \/ WriteFails(s) \/ Crash(s) \/ Return(s)
    <3>1. EndInvocation(s) /\ UNCHANGED <<table, older>>
      BY <2>5 DEF DecodeRaises, WriteFails, Crash, Return, FailBatch
    <3>2. left'[s] = {} /\ todo'[s] = {} /\ pc'[s] = "idle" /\ batch'[s] = NoBatch
      BY <1>1, <3>1 DEF EndInvocation, TypeOK
    <3> QED
      BY <1>5, <1>6, <3>1, <3>2
  <2>6. CASE FinalPut(s)
    <3>1. left'[s] = left[s] /\ todo'[s] = todo[s] /\ pc'[s] = "next"
      BY <1>1, <2>6 DEF FinalPut, TypeOK
    <3> QED
      BY <1>6, <1>11, <2>6, <3>1
  <2> QED
    BY <1>9, <1>10, <1>12, <2>1, <2>2, <2>3, <2>4, <2>5, <2>6 DEF ShardStep
<1>13. ASSUME NEW s \in Shards, ShardStep(s), NEW t \in Shards, t # s PROVE HandInv(t)'
  <2>1. /\ left'[t] = left[t] /\ todo'[t] = todo[t] /\ pc'[t] = pc[t]
        /\ state'[t] = state[t] /\ sid'[t] = sid[t] /\ batch'[t] = batch[t]
    BY <1>1, <1>13
    DEF ShardStep, Poll, Invoke, DecodeRaises, WriteRaw, WriteLate, WriteFails, Get,
        GetFails, Apply, Close, FinalPut, PutFails, Return, Crash, FailBatch,
        EndInvocation, TypeOK
  <2>2. pc'[t] = "idle" => batch'[t] = NoBatch
    BY <1>1, <2>1 DEF HandInv
  <2> QED
    BY <1>6, <2>1, <2>2
<1>14. ASSUME NEW x \in Sessions, TtlDelete(x) PROVE TableOrdered
  BY <1>3, <1>4, <1>14 DEF TtlDelete
<1>15. CASE \E s \in Shards : ShardStep(s)
  BY <1>1, <1>12, <1>13, <1>15 DEF OrderInv
<1>16. CASE UNCHANGED lambdaVars /\ TableOrdered
  <2>1. \A t \in Shards : pc'[t] = "idle" => batch'[t] = NoBatch
    BY <1>1, <1>16 DEF HandInv
  <2>2. \A t \in Shards : HandInv(t)'
    BY <1>6, <1>16, <2>1
  <2> QED
    BY <1>1, <1>16, <2>2 DEF OrderInv
<1>17. \/ \E s \in Shards : ShardStep(s)
       \/ UNCHANGED lambdaVars /\ TableOrdered
  <2>1. \/ \E s \in Shards : ShardStep(s)
        \/ UNCHANGED lambdaVars /\ \/ UNCHANGED <<table, older>>
                                   \/ \E x \in Sessions : TtlDelete(x)
    BY DEF Next, Produce, TtlDelete, Tick, vars
  <2> QED
    BY <1>5, <1>14, <2>1
<1> QED
  BY <1>15, <1>16, <1>17

(* For any feed in any order, two events of one shard stand in a session   *)
(* in the order of their times, or as the shard delivered them in two      *)
(* batches, and of the batch in the handler always in the order of their   *)
(* times: a batch is sorted, a shard is served in order through retries    *)
(* and bisection, and a swallowed error or a stale read leaves events out  *)
(* but brings none back.  Assumed: no invocation is killed.                *)
THEOREM SessionsInEventOrder == ASSUME ~Crashes PROVE Spec => []InEventOrder
<1>1. OrderInv => InEventOrder
  <2> SUFFICES ASSUME OrderInv, NEW x \in Sessions,
                      NEW k \in DOMAIN table[x].log, NEW m \in DOMAIN table[x].log, k < m,
                      TimeOf(table[x].log[k]) > TimeOf(table[x].log[m]),
                      table[x].log[k][1] = table[x].log[m][1]
               PROVE  LET s == table[x].log[k][1]
                          i == table[x].log[k][2]
                          j == table[x].log[m][2]
                      IN  i < j /\ ~InBatch(s, i, j)
    BY DEF InEventOrder, InBatch
  <2> DEFINE log == table[x].log
             p == log[k]
             q == log[m]
  <2>1. /\ TypeOK /\ log \in Seq(Position) /\ OfSession(log, x)
        /\ InOrder(p[1], p[2], q[2])
    BY DEF OrderInv, OnceInv, ServiceInv, TypeInv, GoodLogs, Ordered, LogInOrder
  <2>2. p \in Position /\ q \in Position
    BY <2>1
  <2>3. /\ p[1] \in Shards /\ q[1] = p[1]
        /\ p[2] \in 1 .. Len(stream[p[1]]) /\ q[2] \in 1 .. Len(stream[p[1]])
        /\ TimeOf(p) > TimeOf(q)
    BY <2>1, <2>2 DEF OfSession, Position
  <2> HIDE DEF p, q
  <2>4. Ev(p[1], p[2]).time \in Nat /\ Ev(p[1], q[2]).time \in Nat
    BY <2>1, <2>3, EventAt DEF Event
  <2>5. ~Precedes(p[1], p[2], q[2])
    BY <2>3, <2>4 DEF Precedes, TimeOf
  <2>6. p[2] < q[2] /\ ~InBatch(p[1], p[2], q[2])
    BY <2>1, <2>5 DEF InOrder
  <2> QED
    BY <2>6 DEF p, q
<1>2. OrderInv /\ [Next]_vars => OrderInv'
  BY OrderInvStep
<1> QED
  BY <1>1, <1>2, OrderInvInit, PTL DEF Spec
=============================================================================
