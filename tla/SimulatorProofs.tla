-------------------------- MODULE SimulatorProofs --------------------------
(***************************************************************************)
(* Theorems about Simulator, for every feed, batch limit, set of delays    *)
(* and duration, and every interleaving with the background thread.        *)
(***************************************************************************)
EXTENDS Simulator, FiniteSetTheorems, TLAPS

(* Two listings of events, one after the other.                            *)
LEMMA Concatenated ==
  ASSUME NEW s \in Seq(Ids), NEW t \in Seq(Ids)
  PROVE  /\ s \o t \in Seq(Ids)
         /\ Range(s \o t) = Range(s) \cup Range(t)
         /\ IsInjective(s \o t) <=> /\ IsInjective(s) /\ IsInjective(t)
                                    /\ Range(s) \cap Range(t) = {}
<1> DEFINE u == s \o t
<1>1. /\ u \in Seq(Ids)
      /\ DOMAIN s = 1 .. Len(s) /\ DOMAIN t = 1 .. Len(t)
      /\ DOMAIN u = 1 .. (Len(s) + Len(t))
      /\ Len(s) \in Nat /\ Len(t) \in Nat
      /\ \A i \in 1 .. Len(s) : i \in DOMAIN u /\ u[i] = s[i]
      /\ \A j \in 1 .. Len(t) : Len(s) + j \in DOMAIN u /\ u[Len(s) + j] = t[j]
  OBVIOUS
<1>2. \A k \in DOMAIN u : k \in 1 .. Len(s) \/ \E j \in 1 .. Len(t) : k = Len(s) + j
  <2>1. TAKE k \in DOMAIN u
  <2>2. k \notin 1 .. Len(s) => k - Len(s) \in 1 .. Len(t) /\ k = Len(s) + (k - Len(s))
    BY <1>1
  <2> QED
    BY <2>2
<1> HIDE DEF u
<1>3. Range(u) = Range(s) \cup Range(t)
  <2>1. ASSUME NEW x \in Range(u) PROVE x \in Range(s) \cup Range(t)
    <3>1. PICK k \in DOMAIN u : x = u[k]
      BY DEF Range
    <3>2. CASE k \in 1 .. Len(s)
      BY <1>1, <3>1, <3>2 DEF Range
    <3>3. CASE k \notin 1 .. Len(s)
      <4>1. PICK j \in 1 .. Len(t) : k = Len(s) + j
        BY <1>2, <3>3
      <4> QED
        BY <1>1, <3>1, <4>1 DEF Range
    <3> QED
      BY <3>2, <3>3
  <2>2. ASSUME NEW x \in Range(s) PROVE x \in Range(u)
    <3>1. PICK i \in 1 .. Len(s) : x = s[i]
      BY <1>1 DEF Range
    <3> QED
      BY <1>1, <3>1 DEF Range
  <2>3. ASSUME NEW x \in Range(t) PROVE x \in Range(u)
    <3>1. PICK j \in 1 .. Len(t) : x = t[j]
      BY <1>1 DEF Range
    <3>2. x = u[Len(s) + j] /\ Len(s) + j \in DOMAIN u
      BY <1>1, <3>1
    <3> QED
      BY <3>2 DEF Range
  <2> QED
    BY <2>1, <2>2, <2>3
<1>4. ASSUME IsInjective(u)
      PROVE  IsInjective(s) /\ IsInjective(t) /\ Range(s) \cap Range(t) = {}
  <2>1. IsInjective(s)
    BY <1>1, <1>4 DEF IsInjective
  <2>2. ASSUME NEW i \in DOMAIN t, NEW j \in DOMAIN t, t[i] = t[j] PROVE i = j
    <3>1. Len(s) + i = Len(s) + j
      BY <1>1, <1>4, <2>2 DEF IsInjective
    <3> QED
      BY <1>1, <3>1
  <2>3. ASSUME NEW i \in DOMAIN s, NEW j \in DOMAIN t, s[i] = t[j] PROVE FALSE
    <3>1. i = Len(s) + j
      BY <1>1, <1>4, <2>3 DEF IsInjective
    <3> QED
      BY <1>1, <3>1
  <2> QED
    BY <2>1, <2>2, <2>3 DEF IsInjective, Range
<1>5. ASSUME IsInjective(s), IsInjective(t), Range(s) \cap Range(t) = {}
      PROVE  IsInjective(u)
  <2> SUFFICES ASSUME NEW i \in DOMAIN u, NEW j \in DOMAIN u, u[i] = u[j] PROVE i = j
    BY DEF IsInjective
  <2>1. CASE i \in 1 .. Len(s) /\ j \in 1 .. Len(s)
    BY <1>1, <1>5, <2>1 DEF IsInjective
  <2>2. CASE i \in 1 .. Len(s) /\ j \notin 1 .. Len(s)
    <3>1. PICK b \in 1 .. Len(t) : j = Len(s) + b
      BY <1>2, <2>2
    <3>2. u[i] \in Range(s) /\ u[j] \in Range(t)
      BY <1>1, <2>2, <3>1 DEF Range
    <3> QED
      BY <1>5, <3>2
  <2>3. CASE i \notin 1 .. Len(s) /\ j \in 1 .. Len(s)
    <3>1. PICK a \in 1 .. Len(t) : i = Len(s) + a
      BY <1>2, <2>3
    <3>2. u[i] \in Range(t) /\ u[j] \in Range(s)
      BY <1>1, <2>3, <3>1 DEF Range
    <3> QED
      BY <1>5, <3>2
  <2>4. CASE i \notin 1 .. Len(s) /\ j \notin 1 .. Len(s)
    <3>1. PICK a \in 1 .. Len(t), b \in 1 .. Len(t) : i = Len(s) + a /\ j = Len(s) + b
      BY <1>2, <2>4
    <3>2. t[a] = t[b]
      BY <1>1, <3>1
    <3> QED
      BY <1>1, <1>5, <3>1, <3>2 DEF IsInjective
  <2> QED
    BY <2>1, <2>2, <2>3, <2>4
<1> QED
  BY <1>1, <1>3, <1>4, <1>5 DEF u

(* A listing of one event.                                                 *)
LEMMA One ==
  ASSUME NEW e \in Ids
  PROVE  <<e>> \in Seq(Ids) /\ Range(<<e>>) = {e} /\ IsInjective(<<e>>)
BY DEF Range, IsInjective

(* The on-time events of a listing are in the order of the feed.           *)
OnTime(s, d) ==
  \A i, j \in DOMAIN s : i < j /\ d[s[i]] = NotDue /\ d[s[j]] = NotDue => s[i] < s[j]

Before(A, B, d) == \A x \in A, y \in B : d[x] = NotDue /\ d[y] = NotDue => x < y

LEMMA OnTimeConcatenated ==
  ASSUME NEW s \in Seq(Ids), NEW t \in Seq(Ids), NEW d
  PROVE  OnTime(s \o t, d) <=> /\ OnTime(s, d) /\ OnTime(t, d)
                               /\ Before(Range(s), Range(t), d)
<1> DEFINE u == s \o t
<1>1. /\ DOMAIN s = 1 .. Len(s) /\ DOMAIN t = 1 .. Len(t)
      /\ DOMAIN u = 1 .. (Len(s) + Len(t))
      /\ Len(s) \in Nat /\ Len(t) \in Nat
      /\ \A i \in 1 .. Len(s) : i \in DOMAIN u /\ u[i] = s[i]
      /\ \A j \in 1 .. Len(t) : Len(s) + j \in DOMAIN u /\ u[Len(s) + j] = t[j]
  OBVIOUS
<1>2. \A k \in DOMAIN u : k \in 1 .. Len(s) \/ \E j \in 1 .. Len(t) : k = Len(s) + j
  <2>1. TAKE k \in DOMAIN u
  <2>2. k \notin 1 .. Len(s) => k - Len(s) \in 1 .. Len(t) /\ k = Len(s) + (k - Len(s))
    BY <1>1
  <2> QED
    BY <2>2
<1> HIDE DEF u
<1>3. ASSUME OnTime(u, d)
      PROVE  OnTime(s, d) /\ OnTime(t, d) /\ Before(Range(s), Range(t), d)
  <2>1. OnTime(s, d)
    BY <1>1, <1>3 DEF OnTime
  <2>2. ASSUME NEW i \in DOMAIN t, NEW j \in DOMAIN t,
               i < j, d[t[i]] = NotDue, d[t[j]] = NotDue
        PROVE  t[i] < t[j]
    <3>1. Len(s) + i < Len(s) + j
      BY <1>1, <2>2
    <3> QED
      BY <1>1, <1>3, <2>2, <3>1 DEF OnTime
  <2>3. ASSUME NEW i \in DOMAIN s, NEW j \in DOMAIN t, d[s[i]] = NotDue, d[t[j]] = NotDue
        PROVE  s[i] < t[j]
    <3>1. i < Len(s) + j
      BY <1>1
    <3> QED
      BY <1>1, <1>3, <2>3, <3>1 DEF OnTime
  <2> QED
    BY <2>1, <2>2, <2>3 DEF OnTime, Before, Range
<1>4. ASSUME OnTime(s, d), OnTime(t, d), Before(Range(s), Range(t), d)
      PROVE  OnTime(u, d)
  <2> SUFFICES ASSUME NEW i \in DOMAIN u, NEW j \in DOMAIN u,
                      i < j, d[u[i]] = NotDue, d[u[j]] = NotDue
               PROVE  u[i] < u[j]
    BY DEF OnTime
  <2>1. CASE i \in 1 .. Len(s) /\ j \in 1 .. Len(s)
    BY <1>1, <1>4, <2>1 DEF OnTime
  <2>2. CASE i \in 1 .. Len(s) /\ j \notin 1 .. Len(s)
    <3>1. PICK b \in 1 .. Len(t) : j = Len(s) + b
      BY <1>2, <2>2
    <3>2. u[i] \in Range(s) /\ u[j] \in Range(t)
      BY <1>1, <2>2, <3>1 DEF Range
    <3> QED
      BY <1>4, <3>2 DEF Before
  <2>3. CASE i \notin 1 .. Len(s)
    <3>1. PICK a \in 1 .. Len(t) : i = Len(s) + a
      BY <1>2, <2>3
    <3>2. j \notin 1 .. Len(s)
      BY <1>1, <3>1
    <3>3. PICK b \in 1 .. Len(t) : j = Len(s) + b
      BY <1>2, <3>2
    <3>4. u[i] = t[a] /\ u[j] = t[b]
      BY <1>1, <3>1, <3>3
    <3>5. a < b
      BY <1>1, <3>1, <3>3
    <3>6. d[t[a]] = NotDue /\ d[t[b]] = NotDue
      BY <3>4
    <3>7. t[a] < t[b]
      BY <1>1, <1>4, <3>5, <3>6 DEF OnTime
    <3> QED
      BY <3>4, <3>7
  <2> QED
    BY <2>1, <2>2, <2>3
<1> QED
  BY <1>3, <1>4 DEF u

----------------------------------------------------------------------------
LEMMA IdsCount ==
  ASSUME NEW events \in SUBSET Ids
  PROVE  IsFiniteSet(events) /\ Cardinality(events) \in Nat
<1>1. IsFiniteSet(1 .. NumEvents)
  BY FS_Interval, SimulatorAssumption
<1>2. IsFiniteSet(Ids)
  BY <1>1 DEF Ids
<1>3. IsFiniteSet(events)
  BY <1>2, FS_Subset
<1> QED
  BY <1>3, FS_CardinalityType

(* What flush_ready takes from the queue of the injector.                  *)
LEMMA ListingOf ==
  ASSUME NEW events \in SUBSET Ids, NEW ready \in InOrder(events)
  PROVE  ready \in Seq(Ids) /\ Range(ready) = events /\ IsInjective(ready)
<1>2. Cardinality(events) \in Nat
  BY IdsCount
<1>3. /\ ready \in [1 .. Cardinality(events) -> events]
      /\ IsInjective(ready)
      /\ \A e \in events : \E i \in 1 .. Cardinality(events) : ready[i] = e
  BY DEF InOrder, Bijection, Injection, Surjection
<1>4. ready \in [1 .. Cardinality(events) -> Ids]
  BY <1>3
<1>5. ready \in Seq(Ids)
  BY <1>2, <1>4
<1>6. Range(ready) = events
  BY <1>3 DEF Range
<1> QED
  BY <1>3, <1>5, <1>6

(* One turn of the loop: the next event joins the batch or the queue, and  *)
(* what is due leaves the queue for the end of the batch.                  *)
LEMMA ReadEffect ==
  ASSUME TypeOK, Read
  PROVE  \E kept \in Seq(Ids), queue \in SUBSET Ids, ready \in Seq(Ids) :
           /\ read' = read + 1 /\ read' \in Ids
           /\ \/ kept = batch \o <<read'>> /\ queue = held /\ due' = due
              \/ /\ kept = batch /\ queue = held \cup {read'}
                 /\ \E delay \in Nat : due' = [due EXCEPT ![read'] = clock + delay]
           /\ Range(ready) = {e \in queue : due'[e] <= clock}
           /\ IsInjective(ready)
           /\ batch' = kept \o ready
           /\ held' = {e \in queue : due'[e] > clock}
           /\ flushed' = clock
<1>1. read' = read + 1 /\ read' \in Ids
  BY SimulatorAssumption DEF Read, TypeOK, Ids
<1>2. CASE FlushReady(Append(batch, read'), held, due) /\ due' = due
  <2>1. Append(batch, read') = batch \o <<read'>> /\ batch \o <<read'>> \in Seq(Ids)
    BY <1>1 DEF TypeOK
  <2>2. PICK ready \in InOrder(Ready(held, due)) : batch' = Append(batch, read') \o ready
    BY <1>2 DEF FlushReady
  <2>3. Ready(held, due) \in SUBSET Ids
    BY DEF Ready, TypeOK
  <2>4. ready \in Seq(Ids) /\ Range(ready) = Ready(held, due) /\ IsInjective(ready)
    BY <2>2, <2>3, ListingOf
  <2>5. Ready(held, due) = {e \in held : due'[e] <= clock}
    BY <1>2 DEF Ready
  <2>6. held' = held \ Ready(held, due) /\ flushed' = clock
    BY <1>2 DEF FlushReady
  <2>7. held' = {e \in held : due'[e] > clock}
    BY <1>2, <2>5, <2>6, SimulatorAssumption DEF TypeOK, NotDue
  <2>8. held \in SUBSET Ids
    BY DEF TypeOK
  <2> QED
    BY <1>1, <1>2, <2>1, <2>2, <2>4, <2>5, <2>6, <2>7, <2>8
<1>3. CASE \E delay \in Delays :
             /\ due' = [due EXCEPT ![read'] = clock + delay]
             /\ FlushReady(batch, held \cup {read'}, due')
  <2>1. PICK delay \in Delays :
          /\ due' = [due EXCEPT ![read'] = clock + delay]
          /\ FlushReady(batch, held \cup {read'}, due')
    BY <1>3
  <2> DEFINE queue == held \cup {read'}
  <2>2. queue \in SUBSET Ids /\ batch \in Seq(Ids)
    BY <1>1 DEF TypeOK
  <2>3. PICK ready \in InOrder(Ready(queue, due')) : batch' = batch \o ready
    BY <2>1 DEF FlushReady
  <2>4. Ready(queue, due') = {e \in queue : due'[e] <= clock}
    BY DEF Ready
  <2>5. ready \in Seq(Ids) /\ Range(ready) = Ready(queue, due') /\ IsInjective(ready)
    BY <2>2, <2>3, <2>4, ListingOf
  <2>6. held' = queue \ Ready(queue, due') /\ flushed' = clock
    BY <2>1 DEF FlushReady
  <2>7. due' \in [Ids -> Int] /\ clock \in Nat
    BY <1>1, <2>1, SimulatorAssumption DEF TypeOK, NotDue
  <2>8. held' = {e \in queue : due'[e] > clock}
    <3>1. \A e \in queue : due'[e] \in Int
      BY <2>2, <2>7
    <3> HIDE DEF queue
    <3> QED
      BY <2>4, <2>6, <2>7, <3>1
  <2>9. delay \in Nat
    BY SimulatorAssumption
  <2> QED
    BY <1>1, <2>1, <2>2, <2>3, <2>4, <2>5, <2>6, <2>8, <2>9
<1> QED
  BY <1>2, <1>3 DEF Read

(* A listing has at most as many events as it is long, and as many if none *)
(* is in it twice.                                                         *)
LEMMA ListedCount ==
  ASSUME NEW s \in Seq(Ids)
  PROVE  /\ Len(s) \in Nat
         /\ \A ok \in SUBSET Range(s) : Cardinality(ok) <= Len(s)
         /\ IsInjective(s) => Cardinality(Range(s)) = Len(s)
<1>1. Len(s) \in Nat /\ DOMAIN s = 1 .. Len(s)
  OBVIOUS
<1>2. IsFiniteSet(1 .. Len(s)) /\ Cardinality(1 .. Len(s)) = Len(s)
  BY <1>1, FS_Interval
<1>3. s \in Surjection(1 .. Len(s), Range(s))
  BY <1>1 DEF Surjection, Range
<1>4. /\ IsFiniteSet(Range(s))
      /\ Cardinality(Range(s)) <= Len(s)
      /\ Cardinality(Range(s)) = Len(s) <=> s \in Injection(1 .. Len(s), Range(s))
  BY <1>2, <1>3, FS_Surjection
<1>5. IsInjective(s) => s \in Injection(1 .. Len(s), Range(s))
  BY <1>3 DEF Injection, Surjection
<1>6. ASSUME NEW ok \in SUBSET Range(s) PROVE Cardinality(ok) <= Len(s)
  <2>1. IsFiniteSet(ok) /\ Cardinality(ok) <= Cardinality(Range(s))
    BY <1>4, FS_Subset
  <2>2. Cardinality(ok) \in Nat /\ Cardinality(Range(s)) \in Nat
    BY <1>4, <2>1, FS_CardinalityType
  <2> QED
    BY <1>1, <1>4, <2>1, <2>2
<1> QED
  BY <1>1, <1>4, <1>5, <1>6

LEMMA SomeSent ==
  ASSUME TypeOK, NEW ok \in SUBSET Range(batch)
  PROVE  Cardinality(ok) \in Nat /\ ok \subseteq Ids /\ Range(batch) \subseteq Ids
<1>1. Range(batch) \subseteq Ids
  BY DEF TypeOK, Range
<1> QED
  BY <1>1, IdsCount

----------------------------------------------------------------------------
LEMMA TypeInit == Init => TypeOK
<1> SUFFICES ASSUME Init PROVE TypeOK
  OBVIOUS
<1>1. Zero \in Counters
  BY DEF Zero, Counters
<1>2. read \in 0 .. NumEvents /\ batch \in Seq(Ids) /\ handed \in Seq(Ids)
  BY SimulatorAssumption DEF Init
<1>3. counters \in Counters /\ snapshot \in [{"main", "bg"} -> Counters]
  BY <1>1 DEF Init
<1>4. result \in [sent : Nat, failed : Nat] /\ due \in [Ids -> Nat \cup {NotDue}]
  BY DEF Init
<1> QED
  BY <1>2, <1>3, <1>4 DEF Init, TypeOK

LEMMA TypeStep == TypeOK /\ [Next]_vars => TypeOK'
<1> SUFFICES ASSUME TypeOK, [Next]_vars PROVE TypeOK'
  OBVIOUS
<1> USE DEF mainVars, metricVars
<1>1. CASE Read
  <2>1. PICK kept \in Seq(Ids), queue \in SUBSET Ids, ready \in Seq(Ids) :
          /\ read' = read + 1 /\ read' \in Ids
          /\ \/ due' = due
             \/ \E delay \in Nat : due' = [due EXCEPT ![read'] = clock + delay]
          /\ batch' = kept \o ready
          /\ held' = {e \in queue : due'[e] > clock}
          /\ flushed' = clock
    BY <1>1, ReadEffect
  <2>2. batch' \in Seq(Ids) /\ held' \subseteq Ids
    BY <2>1, Concatenated
  <2>3. read' \in 0 .. NumEvents
    BY <2>1, SimulatorAssumption DEF Ids
  <2>5. due' \in [Ids -> Nat \cup {NotDue}] /\ flushed' \in Nat
    <3>1. CASE due' = due
      BY <2>1, <3>1 DEF TypeOK
    <3>2. CASE \E delay \in Nat : due' = [due EXCEPT ![read'] = clock + delay]
      BY <2>1, <3>2 DEF TypeOK
    <3> QED
      BY <2>1, <3>1, <3>2
  <2>4. /\ UNCHANGED <<clock, handed, accepted, refused, result, metricVars>>
        /\ pc' \in {"publish", "loop"}
    BY <1>1 DEF Read
  <2> QED
    BY <2>2, <2>3, <2>4, <2>5 DEF TypeOK
<1>2. CASE EndLoop
  BY <1>2 DEF EndLoop, TypeOK
<1>3. CASE Publish
  <2>1. PICK ok \in SUBSET Range(batch) :
          /\ accepted' = accepted \cup ok
          /\ refused' = refused \cup (Range(batch) \ ok)
          /\ result' = [sent |-> Cardinality(ok), failed |-> Len(batch) - Cardinality(ok)]
    BY <1>3 DEF Publish
  <2>2. handed' \in Seq(Ids)
    BY <1>3, Concatenated DEF Publish, TypeOK
  <2>3. ok \subseteq Ids /\ Range(batch) \subseteq Ids /\ Cardinality(ok) \in Nat
    BY SomeSent
  <2>4. Len(batch) \in Nat /\ Cardinality(ok) <= Len(batch)
    BY ListedCount DEF TypeOK
  <2>5. result' \in [sent : Nat, failed : Nat]
    BY <2>1, <2>3, <2>4
  <2> QED
    BY <1>3, <2>1, <2>2, <2>3, <2>5 DEF Publish, TypeOK
<1>4. CASE PublishRaises
  <2>1. PICK ok \in SUBSET Range(batch) : accepted' = accepted \cup ok
    BY <1>4 DEF PublishRaises
  <2>2. ok \subseteq Ids
    BY SomeSent
  <2> QED
    BY <1>4, <2>1, <2>2 DEF PublishRaises, TypeOK
<1>5. CASE CountSent
  <2>1. counters' \in Counters
    <3>1. result.sent \in Nat /\ counters \in Counters
      BY DEF TypeOK
    <3>2. counters' = [counters EXCEPT !.sent = @ + result.sent]
      BY <1>5 DEF CountSent
    <3> QED
      BY <3>1, <3>2 DEF Counters
  <2> QED
    BY <1>5, <2>1 DEF CountSent, TypeOK
<1>6. CASE CountFailed
  <2>1. counters' \in Counters
    <3>1. result.failed \in Nat /\ counters \in Counters
      BY DEF TypeOK
    <3>2. counters' = [counters EXCEPT !.failed = @ + result.failed]
      BY <1>6 DEF CountFailed
    <3> QED
      BY <3>1, <3>2 DEF Counters
  <2> QED
    BY <1>6, <2>1 DEF CountFailed, TypeOK
<1>7. CASE SetPending
  <2>1. Cardinality(held) \in Nat
    BY IdsCount DEF TypeOK
  <2> QED
    BY <1>7, <2>1 DEF SetPending, TypeOK, Counters
<1>8. CASE Stop
  BY <1>8 DEF Stop, TypeOK
<1>9. CASE FlushSnapshot
  BY <1>9 DEF FlushSnapshot, Snapshot, TypeOK
<1>10. CASE FlushPut
  BY <1>10 DEF FlushPut, Put, TypeOK
<1>11. CASE FlushFails
  BY <1>11 DEF FlushFails, TypeOK
<1>12. CASE Background
  <2>1. CASE BgWake \/ BgFails \/ BgEnds
    BY <2>1 DEF BgWake, BgFails, BgEnds, TypeOK
  <2>2. CASE BgSnapshot
    BY <2>2 DEF BgSnapshot, Snapshot, TypeOK
  <2>3. CASE BgPut
    BY <2>3 DEF BgPut, Put, TypeOK
  <2> QED
    BY <1>12, <2>1, <2>2, <2>3 DEF Background
<1>13. CASE Tick
  BY <1>13 DEF Tick, TypeOK
<1>14. CASE UNCHANGED vars
  BY <1>14 DEF vars, TypeOK
<1> QED
  BY <1>1, <1>2, <1>3, <1>4, <1>5, <1>6, <1>7, <1>8, <1>9, <1>10, <1>11, <1>12, <1>13, <1>14
  DEF Next, Main

(* Every variable has its type: in particular publish_batch never reports  *)
(* more events than it was given, so the counters never go below zero.     *)
THEOREM SimulatorTyped == Spec => []TypeOK
<1> QED
  BY TypeInit, TypeStep, PTL DEF Spec

----------------------------------------------------------------------------
(* Where the events are, and that the order of the on-time ones is kept,   *)
(* said of what is handed over and of the batch instead of the two joined. *)

Placed ==
  /\ IsInjective(handed) /\ IsInjective(batch)
  /\ Range(handed) \cap Range(batch) = {}
  /\ (Range(handed) \cup Range(batch)) \cap held = {}
  /\ Range(handed) \cup Range(batch) \cup held = 1 .. read

Ordered ==
  /\ OnTime(handed, due) /\ OnTime(batch, due)
  /\ Before(Range(handed), Range(batch), due)

FeedInv ==
  /\ TypeOK
  /\ Placed
  /\ Ordered
  /\ ReleasedWhenDue
  /\ flushed <= clock
  /\ \A e \in held : due[e] # NotDue
  /\ \A e \in Ids : e > read => due[e] = NotDue

LEMMA FeedInvMeans ==
  ASSUME FeedInv
  PROVE  EachInOnePlace /\ OnTimeInOrder
<1>1. handed \in Seq(Ids) /\ batch \in Seq(Ids)
  BY DEF FeedInv, TypeOK
<1>2. EachInOnePlace
  BY <1>1, Concatenated DEF FeedInv, Placed, EachInOnePlace, Sent
<1>3. OnTime(Sent, due)
  BY <1>1, OnTimeConcatenated DEF FeedInv, Ordered, Sent
<1> QED
  BY <1>2, <1>3 DEF OnTimeInOrder, OnTime

(* An event that is read joins what is in the batch at its end; the events *)
(* released with it come last and none of them is on time.                 *)
LEMMA FeedRead ==
  ASSUME FeedInv, Read, TypeOK'
  PROVE  FeedInv'
<1>1. PICK kept \in Seq(Ids), queue \in SUBSET Ids, ready \in Seq(Ids) :
        /\ read' = read + 1 /\ read' \in Ids
        /\ \/ kept = batch \o <<read'>> /\ queue = held /\ due' = due
           \/ /\ kept = batch /\ queue = held \cup {read'}
              /\ \E delay \in Nat : due' = [due EXCEPT ![read'] = clock + delay]
        /\ Range(ready) = {e \in queue : due'[e] <= clock}
        /\ IsInjective(ready)
        /\ batch' = kept \o ready
        /\ held' = {e \in queue : due'[e] > clock}
        /\ flushed' = clock
  BY ReadEffect DEF FeedInv
<1> DEFINE e == read + 1
<1>2. /\ e \in Ids /\ e \notin 1 .. read /\ 1 .. e = (1 .. read) \cup {e} /\ read \in Nat
      /\ \A x \in 1 .. read : x < e
      /\ Range(handed) \subseteq 1 .. read /\ Range(batch) \subseteq 1 .. read
      /\ held \subseteq 1 .. read
  BY <1>1 DEF FeedInv, Placed, TypeOK, Ids
<1>3. handed' = handed /\ clock' = clock
  BY DEF Read
<1>4. /\ handed \in Seq(Ids) /\ batch \in Seq(Ids) /\ due \in [Ids -> Nat \cup {NotDue}]
      /\ clock \in Nat /\ flushed \in Nat /\ NotDue = -1
  BY DEF FeedInv, TypeOK, NotDue
<1>5. <<e>> \in Seq(Ids) /\ Range(<<e>>) = {e} /\ IsInjective(<<e>>) /\ OnTime(<<e>>, due)
  BY <1>2, One DEF OnTime
<1> HIDE DEF e
<1>6. \A x \in Ids : x # e => due'[x] = due[x]
  BY <1>1, <1>4 DEF e
<1>7. \A x \in queue : due'[x] # NotDue
  <2>1. CASE queue = held /\ due' = due
    BY <2>1 DEF FeedInv
  <2>2. CASE queue = held \cup {read'} /\ \E delay \in Nat : due' = [due EXCEPT ![read'] = clock + delay]
    <3>1. due'[e] # NotDue
      BY <1>1, <1>2, <1>4, <2>2 DEF e
    <3> QED
      BY <1>1, <1>2, <1>4, <1>6, <2>2, <3>1 DEF FeedInv, e
  <2> QED
    BY <1>1, <2>1, <2>2
<1>8. /\ IsInjective(kept) /\ Range(kept) \cup queue = Range(batch) \cup held \cup {e}
      /\ Range(kept) \cap queue = {} /\ Range(handed) \cap (Range(kept) \cup queue) = {}
  <2>1. CASE kept = batch \o <<read'>> /\ queue = held
    <3>1. Range(batch) \cap {e} = {} /\ kept = batch \o <<e>>
      BY <1>1, <1>2, <2>1 DEF e
    <3>2. Range(batch \o <<e>>) = Range(batch) \cup {e} /\ IsInjective(batch \o <<e>>)
      BY <1>4, <1>5, <3>1, Concatenated DEF FeedInv, Placed
    <3> QED
      BY <1>2, <2>1, <3>1, <3>2 DEF FeedInv, Placed
  <2>2. CASE kept = batch /\ queue = held \cup {read'}
    BY <1>1, <1>2, <2>2 DEF FeedInv, Placed, e
  <2> QED
    BY <1>1, <2>1, <2>2
<1>9. Placed'
  <2>1. queue = Range(ready) \cup held' /\ Range(ready) \cap held' = {}
    <3>1. \A x \in queue : due'[x] \in Int
      BY <1>1 DEF TypeOK, NotDue
    <3> QED
      BY <1>1, <1>4, <3>1
  <2>2. Range(batch') = Range(kept) \cup Range(ready) /\ IsInjective(batch')
    BY <1>1, <1>8, <2>1, Concatenated
  <2>3. (Range(handed) \cup Range(batch) \cup held) \cup {e} = 1 .. read'
    BY <1>1, <1>2 DEF FeedInv, Placed, e
  <2> QED
    BY <1>3, <1>8, <2>1, <2>2, <2>3 DEF FeedInv, Placed
<1>10. Ordered'
  <2>1. OnTime(handed, due') /\ OnTime(batch, due')
        /\ Before(Range(handed), Range(batch), due')
    <3>1. \A x \in Range(handed) \cup Range(batch) : due'[x] = due[x]
      <4>1. 1 .. read \subseteq Ids
        BY <1>1, <1>2, SimulatorAssumption DEF Ids
      <4> QED
        BY <1>2, <1>6, <4>1
    <3>2. /\ \A i \in DOMAIN handed : handed[i] \in Range(handed)
          /\ \A i \in DOMAIN batch : batch[i] \in Range(batch)
      BY DEF Range
    <3> QED
      BY <3>1, <3>2 DEF FeedInv, Ordered, OnTime, Before
  <2>2. OnTime(kept, due') /\ Before(Range(handed), Range(kept), due')
    <3>1. CASE kept = batch \o <<read'>> /\ due' = due
      <4>0. kept = batch \o <<e>>
        BY <1>1, <3>1 DEF e
      <4>1. Range(kept) = Range(batch) \cup {e}
        BY <1>4, <1>5, <4>0, Concatenated
      <4>2. Before(Range(batch), {e}, due) /\ Before(Range(handed), {e}, due)
        BY <1>2 DEF Before
      <4>3. OnTime(kept, due)
        <5>1. OnTime(batch, due) /\ OnTime(<<e>>, due) /\ Before(Range(batch), Range(<<e>>), due)
          BY <1>5, <2>1, <3>1, <4>2
        <5>2. OnTime(batch \o <<e>>, due)
          BY <1>4, <1>5, <5>1, OnTimeConcatenated
        <5> QED
          BY <4>0, <5>2
      <4> QED
        BY <2>1, <3>1, <4>1, <4>2, <4>3 DEF Before
    <3>2. CASE kept = batch
      BY <2>1, <3>2
    <3> QED
      BY <1>1, <3>1, <3>2
  <2>3. \A x \in Range(ready) : due'[x] # NotDue
    BY <1>1, <1>7
  <2>4. OnTime(ready, due') /\ \A A : Before(A, Range(ready), due')
    <3>1. \A i \in DOMAIN ready : ready[i] \in Range(ready)
      BY DEF Range
    <3> QED
      BY <2>3, <3>1 DEF OnTime, Before
  <2>5. OnTime(batch', due')
    BY <1>1, <2>2, <2>4, OnTimeConcatenated
  <2>6. Range(batch') = Range(kept) \cup Range(ready)
    BY <1>1, Concatenated
  <2>7. Before(Range(handed), Range(batch'), due')
    BY <2>2, <2>4, <2>6 DEF Before
  <2> QED
    BY <1>3, <2>1, <2>5, <2>7 DEF Ordered
<1>11. ReleasedWhenDue'
  <2> SUFFICES ASSUME NEW x \in Ids, due'[x] # NotDue
               PROVE  x \in held' <=> due'[x] > flushed'
    BY DEF ReleasedWhenDue
  <2>1. CASE x = e /\ due' = due
    BY <1>2, <1>4, <2>1 DEF FeedInv, e
  <2>2. CASE x # e
    <3>1. due'[x] = due[x] /\ due[x] \in Nat
      BY <1>4, <1>6, <2>2
    <3>2. x \in held <=> due[x] > flushed
      BY <3>1 DEF FeedInv, ReleasedWhenDue
    <3>3. x \in held <=> x \in queue
      BY <1>1, <2>2 DEF e
    <3> QED
      BY <1>1, <1>4, <3>1, <3>2, <3>3 DEF FeedInv
  <2>3. CASE x = e /\ queue = held \cup {read'}
    BY <1>1, <2>3 DEF e
  <2> QED
    BY <1>1, <2>1, <2>2, <2>3
<1>12. /\ flushed' <= clock'
       /\ \A x \in held' : due'[x] # NotDue
       /\ \A x \in Ids : x > read' => due'[x] = NotDue
  <2>1. \A x \in Ids : x > read' => x # e /\ x > read
    BY <1>1, <1>2 DEF Ids, e
  <2> QED
    BY <1>1, <1>3, <1>4, <1>6, <1>7, <2>1 DEF FeedInv
<1> QED
  BY <1>9, <1>10, <1>11, <1>12 DEF FeedInv

LEMMA FeedInit == Init => FeedInv
<1> SUFFICES ASSUME Init PROVE FeedInv
  OBVIOUS
<1>1. TypeOK
  BY TypeInit
<1>2. handed = << >> /\ batch = << >> /\ read = 0 /\ held = {} /\ 1 .. 0 = {}
  BY DEF Init
<1>3. Placed /\ Ordered
  BY <1>2 DEF Placed, Ordered, OnTime, Before, IsInjective, Range
<1>4. \A e \in Ids : due[e] = NotDue
  BY DEF Init
<1> QED
  BY <1>1, <1>3, <1>4 DEF Init, FeedInv, ReleasedWhenDue

LEMMA FeedPublish ==
  ASSUME FeedInv, Publish, TypeOK'
  PROVE  FeedInv'
<1>1. /\ handed' = handed \o batch /\ batch' = << >>
      /\ UNCHANGED <<clock, read, held, due, flushed>>
  BY DEF Publish
<1>2. handed \in Seq(Ids) /\ batch \in Seq(Ids)
  BY DEF FeedInv, TypeOK
<1>3. Range(batch') = {} /\ IsInjective(batch') /\ OnTime(batch', due)
  BY <1>1 DEF Range, IsInjective, OnTime
<1>4. Range(handed') = Range(handed) \cup Range(batch) /\ IsInjective(handed')
  BY <1>1, <1>2, Concatenated DEF FeedInv, Placed
<1>5. OnTime(handed', due)
  BY <1>1, <1>2, OnTimeConcatenated DEF FeedInv, Ordered
<1>6. Placed'
  BY <1>1, <1>3, <1>4 DEF FeedInv, Placed
<1>7. Ordered'
  BY <1>1, <1>3, <1>5 DEF Ordered, Before
<1> QED
  BY <1>1, <1>6, <1>7 DEF FeedInv, ReleasedWhenDue

LEMMA FeedStep == FeedInv /\ [Next]_vars => FeedInv'
<1> SUFFICES ASSUME FeedInv, [Next]_vars PROVE FeedInv'
  OBVIOUS
<1>1. TypeOK /\ TypeOK'
  BY TypeStep DEF FeedInv
<1>2. ASSUME UNCHANGED <<read, batch, held, due, flushed, handed>>, clock' >= clock
      PROVE  FeedInv'
  <2>1. flushed' <= clock'
    BY <1>1, <1>2 DEF FeedInv, TypeOK
  <2>2. Placed' /\ Ordered'
    BY <1>2 DEF FeedInv, Placed, Ordered, OnTime, Before
  <2> QED
    BY <1>1, <1>2, <2>1, <2>2 DEF FeedInv, ReleasedWhenDue
<1>3. CASE Read
  BY <1>1, <1>3, FeedRead
<1>4. CASE Publish
  BY <1>1, <1>4, FeedPublish
<1>5. CASE UNCHANGED clock /\ UNCHANGED <<read, batch, held, due, flushed, handed>>
  BY <1>1, <1>2, <1>5 DEF TypeOK
<1>6. CASE Tick
  <2>1. clock' >= clock
    BY <1>1, <1>6 DEF Tick, TypeOK
  <2> QED
    BY <1>2, <1>6, <2>1 DEF Tick, mainVars
<1> QED
  BY <1>3, <1>4, <1>5, <1>6
  DEF Next, Main, Background, EndLoop, PublishRaises, CountSent, CountFailed, SetPending,
      Stop, FlushSnapshot, FlushPut, FlushFails, BgWake, BgSnapshot, BgPut, BgFails, BgEnds,
      mainVars, vars

(* No event that was read is lost or given to the producer twice, and none *)
(* is in the batch and held back at once.                                  *)
THEOREM EventsInOnePlace == Spec => []EachInOnePlace
<1>1. FeedInv => EachInOnePlace
  BY FeedInvMeans
<1> QED
  BY <1>1, FeedInit, FeedStep, PTL DEF Spec

(* Whatever is held back and whenever it is released, the on-time events   *)
(* keep the order of the feed.                                             *)
THEOREM OnTimeEventsInOrder == Spec => []OnTimeInOrder
<1>1. FeedInv => OnTimeInOrder
  BY FeedInvMeans
<1> QED
  BY <1>1, FeedInit, FeedStep, PTL DEF Spec

(* A flush releases all that is due and nothing else.                      *)
THEOREM ReleasedAtTheFlush == Spec => []ReleasedWhenDue
<1>1. FeedInv => ReleasedWhenDue
  BY DEF FeedInv
<1> QED
  BY <1>1, FeedInit, FeedStep, PTL DEF Spec

----------------------------------------------------------------------------
(* What Kinesis took and what was given up are what was handed over, and   *)
(* the counters and the summary not counted yet make up their numbers.     *)

Emptied == {"countSent", "countRest", "countFailed", "setPending", "stop",
            "flush", "flushPut", "returned", "raisedByMetrics"}

Counted ==
  /\ pc \in {"loop", "publish", "publishRest", "countFailed", "setPending"} =>
       counters.sent = Cardinality(accepted)
  /\ pc \in {"loop", "publish", "publishRest", "setPending"} =>
       counters.failed = Cardinality(refused)
  /\ pc = "countSent" => counters.sent + result.sent = Cardinality(accepted)
  /\ pc \in {"countSent", "countFailed"} =>
       counters.failed + result.failed = Cardinality(refused)

AccountInv ==
  /\ FeedInv
  /\ pc \in Emptied => batch = << >>
  /\ pc # "raised" => /\ accepted \cup refused = Range(handed)
                      /\ accepted \cap refused = {}
  /\ Counted

LEMMA CountBoth ==
  ASSUME NEW A \in SUBSET Ids, NEW B \in SUBSET Ids, A \cap B = {}
  PROVE  Cardinality(A \cup B) = Cardinality(A) + Cardinality(B)
<1>1. IsFiniteSet(A) /\ IsFiniteSet(B) /\ Cardinality(A) \in Nat /\ Cardinality(B) \in Nat
  BY IdsCount
<1>2. /\ Cardinality(A \cup B) = Cardinality(A) + Cardinality(B) - Cardinality(A \cap B)
      /\ Cardinality(A \cap B) = 0
  BY <1>1, FS_Union, FS_EmptySet
<1> QED
  BY <1>1, <1>2

LEMMA AccountPublish ==
  ASSUME AccountInv, Publish, FeedInv'
  PROVE  AccountInv'
<1>1. PICK ok \in SUBSET Range(batch) :
        /\ accepted' = accepted \cup ok
        /\ refused' = refused \cup (Range(batch) \ ok)
        /\ result' = [sent |-> Cardinality(ok), failed |-> Len(batch) - Cardinality(ok)]
  BY DEF Publish
<1>2. /\ handed' = handed \o batch /\ batch' = << >> /\ counters' = counters
      /\ pc \in {"publish", "publishRest"} /\ pc' \in {"countSent", "countRest"}
  BY DEF Publish, metricVars
<1>3. /\ TypeOK /\ handed \in Seq(Ids) /\ batch \in Seq(Ids)
      /\ accepted \subseteq Ids /\ refused \subseteq Ids
      /\ counters.sent \in Nat /\ counters.failed \in Nat
  BY DEF AccountInv, FeedInv, TypeOK, Counters
<1>4. ok \subseteq Ids /\ Range(batch) \subseteq Ids /\ Range(batch) \ ok \subseteq Ids
  BY <1>3, SomeSent
<1>5. Range(handed') = Range(handed) \cup Range(batch) /\ Range(handed) \cap Range(batch) = {}
  BY <1>2, <1>3, Concatenated DEF AccountInv, FeedInv, Placed
<1>6. accepted \cup refused = Range(handed) /\ accepted \cap refused = {}
  BY <1>2 DEF AccountInv
<1>7. accepted' \cup refused' = Range(handed') /\ accepted' \cap refused' = {}
  BY <1>1, <1>5, <1>6
<1>8. /\ Cardinality(accepted') = Cardinality(accepted) + Cardinality(ok)
      /\ Cardinality(refused') = Cardinality(refused) + Cardinality(Range(batch) \ ok)
      /\ Cardinality(Range(batch)) = Cardinality(ok) + Cardinality(Range(batch) \ ok)
  <2>1. accepted \cap ok = {} /\ refused \cap (Range(batch) \ ok) = {}
    BY <1>5, <1>6
  <2>2. Range(batch) = ok \cup (Range(batch) \ ok) /\ ok \cap (Range(batch) \ ok) = {}
    OBVIOUS
  <2> QED
    BY <1>1, <1>3, <1>4, <2>1, <2>2, CountBoth
<1>9. Cardinality(Range(batch)) = Len(batch) /\ Len(batch) \in Nat
  BY <1>3, ListedCount DEF AccountInv, FeedInv, Placed
<1>10. Cardinality(ok) \in Nat /\ Cardinality(Range(batch) \ ok) \in Nat
  BY <1>4, IdsCount
<1>11. counters.sent = Cardinality(accepted) /\ counters.failed = Cardinality(refused)
  BY <1>2 DEF AccountInv, Counted
<1>12. Counted'
  BY <1>1, <1>2, <1>3, <1>8, <1>9, <1>10, <1>11 DEF Counted
<1> QED
  BY <1>2, <1>7, <1>12 DEF AccountInv

LEMMA AccountInit == Init => AccountInv
<1> SUFFICES ASSUME Init PROVE AccountInv
  OBVIOUS
<1>1. FeedInv
  BY FeedInit
<1>2. Range(handed) = {} /\ Cardinality({}) = 0
  BY FS_EmptySet DEF Init, Range
<1> QED
  BY <1>1, <1>2 DEF Init, Zero, AccountInv, Counted, Emptied

LEMMA AccountStep == AccountInv /\ [Next]_vars => AccountInv'
<1> SUFFICES ASSUME AccountInv, [Next]_vars PROVE AccountInv'
  OBVIOUS
<1>1. FeedInv /\ FeedInv'
  BY FeedStep DEF AccountInv
<1>2. /\ result.sent \in Nat /\ result.failed \in Nat
      /\ counters \in Counters
      /\ counters.sent \in Nat /\ counters.failed \in Nat
  BY <1>1 DEF FeedInv, TypeOK, Counters
<1>3. CASE Read
  BY <1>1, <1>3 DEF Read, AccountInv, Counted, Emptied, metricVars
<1>4. CASE EndLoop
  BY <1>1, <1>4 DEF EndLoop, AccountInv, Counted, Emptied, mainVars, metricVars
<1>5. CASE Publish
  BY <1>1, <1>5, AccountPublish
<1>6. CASE PublishRaises
  BY <1>1, <1>6 DEF PublishRaises, AccountInv, Counted, Emptied
<1>7. CASE CountSent
  <2>1. /\ counters'.sent = counters.sent + result.sent
        /\ counters'.failed = counters.failed
    BY <1>2, <1>7 DEF CountSent, Counters
  <2>2. Counted'
    BY <1>7, <2>1 DEF CountSent, AccountInv, Counted, mainVars
  <2> QED
    BY <1>1, <1>7, <2>2 DEF CountSent, AccountInv, Emptied, mainVars
<1>8. CASE CountFailed
  <2>1. /\ counters'.sent = counters.sent
        /\ counters'.failed = counters.failed + result.failed
    BY <1>2, <1>8 DEF CountFailed, Counters
  <2>2. Counted'
    BY <1>8, <2>1 DEF CountFailed, AccountInv, Counted, mainVars
  <2> QED
    BY <1>1, <1>8, <2>2 DEF CountFailed, AccountInv, Emptied, mainVars
<1>9. CASE SetPending
  <2>1. counters'.sent = counters.sent /\ counters'.failed = counters.failed
    BY <1>2, <1>9 DEF SetPending, Counters
  <2>2. Counted'
    BY <1>9, <2>1 DEF SetPending, AccountInv, Counted, mainVars
  <2> QED
    BY <1>1, <1>9, <2>2 DEF SetPending, AccountInv, Emptied, mainVars
<1>10. CASE Stop \/ FlushSnapshot \/ FlushPut
  BY <1>1, <1>10
  DEF Stop, FlushSnapshot, FlushPut, AccountInv, Counted, Emptied, mainVars
<1>11. CASE FlushFails
  BY <1>1, <1>11 DEF FlushFails, AccountInv, Counted, Emptied, mainVars, metricVars
<1>12. CASE UNCHANGED <<pc, batch, handed, accepted, refused, result, counters>>
  BY <1>1, <1>12 DEF AccountInv, Counted, Emptied
<1> QED
  BY <1>3, <1>4, <1>5, <1>6, <1>7, <1>8, <1>9, <1>10, <1>11, <1>12
  DEF Next, Main, Background, BgWake, BgSnapshot, BgPut, BgFails, BgEnds, Tick,
      mainVars, metricVars, vars

(* A run that returns has accounted for all it read but the late arrivals  *)
(* that were not due at the last flush, whatever Kinesis refused.          *)
THEOREM EarlyOnesAloneDropped == Spec => []OnlyEarlyOnesDropped
<1>1. ASSUME AccountInv PROVE OnlyEarlyOnesDropped
  <2> SUFFICES ASSUME pc = "returned"
               PROVE  /\ accepted \cap refused = {}
                      /\ (1 .. read) \ (accepted \cup refused) = {e \in Ids : due[e] > flushed}
    BY DEF OnlyEarlyOnesDropped
  <2>1. batch = << >> /\ Range(batch) = {}
    BY <1>1 DEF AccountInv, Emptied, Range
  <2>2. accepted \cup refused = Range(handed) /\ accepted \cap refused = {}
    BY <1>1 DEF AccountInv
  <2>3. (1 .. read) \ Range(handed) = held
    BY <1>1, <2>1 DEF AccountInv, FeedInv, Placed
  <2>4. held = {e \in Ids : due[e] > flushed}
    <3>1. held \subseteq Ids /\ due \in [Ids -> Nat \cup {NotDue}] /\ flushed \in Nat
      BY <1>1 DEF AccountInv, FeedInv, TypeOK
    <3>2. \A e \in Ids : due[e] > flushed => due[e] # NotDue
      BY <3>1 DEF NotDue
    <3>3. \A e \in Ids : due[e] # NotDue => (e \in held <=> due[e] > flushed)
      BY <1>1 DEF AccountInv, FeedInv, ReleasedWhenDue
    <3>4. \A e \in held : due[e] # NotDue
      BY <1>1 DEF AccountInv, FeedInv
    <3> QED
      BY <3>1, <3>2, <3>3, <3>4
  <2> QED
    BY <2>2, <2>3, <2>4
<1> QED
  BY <1>1, AccountInit, AccountStep, PTL DEF Spec

(* Between two batches the two counters are the two numbers, however the   *)
(* summaries and the background thread were interleaved before.            *)
THEOREM CountersAreRight == Spec => []CountersAgree
<1>1. AccountInv => CountersAgree
  BY DEF AccountInv, Counted, CountersAgree
<1> QED
  BY <1>1, AccountInit, AccountStep, PTL DEF Spec

----------------------------------------------------------------------------
(* Until the metrics are stopped only the background thread puts data      *)
(* points, and what it has read is never less than what it put before.     *)

NotMore(a, b) == a.sent <= b.sent /\ a.failed <= b.failed

TotalsInv ==
  /\ TypeOK
  /\ pc \in {"flush", "flushPut"} => stopped
  /\ \A p \in cloud : p.at <= clock
  /\ ~stopped => /\ NotMore(snapshot["bg"], counters)
                 /\ \A p \in cloud : NotMore(p.value, snapshot["bg"])
  /\ TotalsAdvance

LEMMA NotMoreTransitive ==
  ASSUME NEW a \in Counters, NEW b \in Counters, NEW c \in Counters,
         NotMore(a, b), NotMore(b, c)
  PROVE  NotMore(a, c)
BY DEF NotMore, Counters

LEMMA CountersGrow ==
  ASSUME TypeOK, CountSent \/ CountFailed \/ SetPending
  PROVE  NotMore(counters, counters')
<1>1. counters \in Counters /\ result.sent \in Nat /\ result.failed \in Nat
  BY DEF TypeOK
<1>2. CASE CountSent
  <2>1. counters' = [counters EXCEPT !.sent = @ + result.sent]
    BY <1>2 DEF CountSent
  <2> QED
    BY <1>1, <2>1 DEF Counters, NotMore
<1>3. CASE CountFailed
  <2>1. counters' = [counters EXCEPT !.failed = @ + result.failed]
    BY <1>3 DEF CountFailed
  <2> QED
    BY <1>1, <2>1 DEF Counters, NotMore
<1>4. CASE SetPending
  <2>1. counters' = [counters EXCEPT !.late = Cardinality(held)]
    BY <1>4 DEF SetPending
  <2> QED
    BY <1>1, <2>1 DEF Counters, NotMore
<1> QED
  BY <1>2, <1>3, <1>4

LEMMA TotalsInit == Init => TotalsInv
<1> SUFFICES ASSUME Init PROVE TotalsInv
  OBVIOUS
<1>1. TypeOK
  BY TypeInit
<1>2. NotMore(snapshot["bg"], counters)
  BY DEF Init, Zero, NotMore
<1> QED
  BY <1>1, <1>2 DEF Init, TotalsInv, TotalsAdvance

LEMMA TotalsStep == TotalsInv /\ [Next]_vars => TotalsInv'
<1> SUFFICES ASSUME TotalsInv, [Next]_vars PROVE TotalsInv'
  OBVIOUS
<1>1. TypeOK /\ TypeOK'
  BY TypeStep DEF TotalsInv
<1>2. /\ clock \in Nat /\ clock' \in Nat /\ counters \in Counters /\ counters' \in Counters
      /\ snapshot["bg"] \in Counters
      /\ \A p \in cloud : p.at \in Nat /\ p.value \in Counters
  BY <1>1 DEF TypeOK
<1>3. ASSUME UNCHANGED <<counters, stopped, snapshot, cloud>>, clock' >= clock,
             pc' \notin {"flush", "flushPut"} \/ pc' = pc
      PROVE  TotalsInv'
  <2>1. \A p \in cloud : p.at <= clock'
    BY <1>2, <1>3 DEF TotalsInv
  <2> QED
    BY <1>1, <1>3, <2>1 DEF TotalsInv, TotalsAdvance
<1>4. CASE CountSent \/ CountFailed \/ SetPending
  <2>1. NotMore(counters, counters')
    BY <1>1, <1>4, CountersGrow
  <2>2. NotMore(snapshot["bg"], counters) => NotMore(snapshot["bg"], counters')
    BY <1>2, <2>1, NotMoreTransitive
  <2>3. UNCHANGED <<clock, stopped, snapshot, cloud>> /\ pc' \notin {"flush", "flushPut"}
    BY <1>4 DEF CountSent, CountFailed, SetPending
  <2> QED
    BY <1>1, <2>2, <2>3 DEF TotalsInv, TotalsAdvance
<1>5. CASE Stop
  BY <1>1, <1>5 DEF Stop, TotalsInv, TotalsAdvance
<1>6. CASE FlushSnapshot
  BY <1>1, <1>6 DEF FlushSnapshot, TotalsInv, TotalsAdvance
<1>7. CASE FlushPut
  <2>1. stopped /\ stopped' /\ clock' = clock /\ pc' = "returned"
    BY <1>7 DEF FlushPut, TotalsInv
  <2>2. cloud' = cloud \cup {[at |-> clock, value |-> snapshot["main"]]}
    BY <1>7 DEF FlushPut, Put
  <2>3. \A p \in cloud' : p.at <= clock
    BY <1>2, <2>2 DEF TotalsInv
  <2> QED
    BY <1>1, <2>1, <2>3 DEF TotalsInv, TotalsAdvance
<1>8. CASE BgSnapshot
  <2>1. snapshot'["bg"] = counters /\ UNCHANGED <<clock, pc, counters, stopped, cloud>>
    BY <1>1, <1>8 DEF BgSnapshot, Snapshot, TypeOK
  <2>2. NotMore(counters, counters)
    BY <1>2 DEF NotMore, Counters
  <2>3. ~stopped => \A p \in cloud : NotMore(p.value, counters)
    BY <1>2, NotMoreTransitive DEF TotalsInv
  <2> QED
    BY <1>1, <2>1, <2>2, <2>3 DEF TotalsInv, TotalsAdvance
<1>9. CASE BgPut
  <2> DEFINE point == [at |-> clock, value |-> snapshot["bg"]]
  <2>1. UNCHANGED <<clock, pc, counters, stopped, snapshot>> /\ cloud' = cloud \cup {point}
    BY <1>9 DEF BgPut, Put
  <2>2. point.at = clock /\ point.value = snapshot["bg"]
    OBVIOUS
  <2> HIDE DEF point
  <2>3. NotMore(snapshot["bg"], snapshot["bg"])
    BY <1>2 DEF NotMore, Counters
  <2>4. \A p \in cloud' : p.at <= clock
    BY <1>2, <2>1, <2>2 DEF TotalsInv
  <2>5. ~stopped => \A p \in cloud' : NotMore(p.value, snapshot["bg"])
    BY <2>1, <2>2, <2>3 DEF TotalsInv
  <2>6. ASSUME ~stopped, NEW p \in cloud', NEW q \in cloud', p.at < q.at
        PROVE  NotMore(p.value, q.value)
    <3>1. p \in cloud
      BY <1>2, <2>1, <2>2, <2>4, <2>6
    <3>2. CASE q = point
      BY <2>2, <2>5, <2>6, <3>2
    <3>3. CASE q \in cloud
      BY <2>6, <3>1, <3>3 DEF TotalsInv, TotalsAdvance, NotMore
    <3> QED
      BY <2>1, <3>2, <3>3
  <2>7. TotalsAdvance'
    BY <2>1, <2>6 DEF TotalsAdvance, NotMore
  <2> QED
    BY <1>1, <2>1, <2>4, <2>5, <2>7 DEF TotalsInv
<1>10. CASE Tick
  BY <1>1, <1>2, <1>3, <1>10 DEF Tick, metricVars
<1>11. CASE UNCHANGED <<clock, counters, stopped, snapshot, cloud>>
            /\ (pc' \notin {"flush", "flushPut"} \/ pc' = pc)
  BY <1>1, <1>2, <1>3, <1>11
<1>12. CASE Read \/ EndLoop \/ Publish \/ PublishRaises \/ FlushFails
  BY <1>11, <1>12 DEF Read, EndLoop, Publish, PublishRaises, FlushFails, metricVars, mainVars
<1>13. CASE BgWake \/ BgFails \/ BgEnds \/ UNCHANGED vars
  BY <1>11, <1>13 DEF BgWake, BgFails, BgEnds, metricVars, vars
<1> QED
  BY <1>4, <1>5, <1>6, <1>7, <1>8, <1>9, <1>10, <1>12, <1>13 DEF Next, Main, Background

(* A newer data point never tells less than an older one as long as the    *)
(* metrics are not stopped, however long the background thread waits       *)
(* between reading the counters and putting them.                          *)
THEOREM TotalsNeverGoBack == Spec => []TotalsAdvance
<1>1. TotalsInv => TotalsAdvance
  BY DEF TotalsInv
<1> QED
  BY <1>1, TotalsInit, TotalsStep, PTL DEF Spec
=============================================================================
