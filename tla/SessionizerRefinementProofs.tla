-------------------- MODULE SessionizerRefinementProofs --------------------
(***************************************************************************)
(* Sessionizer does what SpeedLayer promises of its table, with kills and  *)
(* stale reads, as long as the records of a session are in one shard: then *)
(* one invocation at a time has the session in hand, and what it is about  *)
(* to store goes on from a version that could be read.                     *)
(***************************************************************************)
EXTENDS SessionizerStoreProofs, SequenceTheorems

OneShardEach ==
  \A e, f \in Events : e.sid = f.sid => ShardOf[e.user] = ShardOf[f.user]

----------------------------------------------------------------------------
(* Words of the two modules                                                *)

LEMMA SameWords ==
  /\ SL!EmptyState = EmptyState
  /\ \A f : SL!Range(f) = Range(f) /\ SL!IsInjective(f) = IsInjective(f)
  BY DEF SL!EmptyState, EmptyState, SL!Range, Range, SL!IsInjective, IsInjective

LEMMA Prefix ==
  ASSUME NEW S, NEW long \in Seq(S), NEW short \in Seq(S)
  PROVE  SL!StartsWith(long, short) <=>
           /\ Len(short) <= Len(long)
           /\ \A k \in 1 .. Len(short) : long[k] = short[k]
<1> DEFINE n == Len(short)
           front == SubSeq(long, 1, n)
<1>1. n \in Nat /\ Len(long) \in Nat
  OBVIOUS
<1>2. ASSUME n <= Len(long)
      PROVE  /\ front \in Seq(S) /\ Len(front) = n
             /\ \A k \in 1 .. n : front[k] = long[k]
  <2>1. \A k \in 1 .. n : long[k] \in S
    BY <1>1, <1>2
  <2>2. /\ front \in Seq(S) /\ Len(front) = IF 1 <= n THEN n - 1 + 1 ELSE 0
        /\ \A k \in 1 .. n - 1 + 1 : front[k] = long[1 + k - 1]
    BY <1>1, <2>1, SubSeqProperties
  <2>3. n - 1 + 1 = n /\ \A k \in 1 .. n : 1 + k - 1 = k
    BY <1>1
  <2> HIDE DEF front, n
  <2>4. Len(front) = n
    BY <1>1, <2>2, <2>3
  <2> QED
    BY <2>2, <2>3, <2>4
<1> HIDE DEF front
<1>3. ASSUME n <= Len(long), \A k \in 1 .. n : long[k] = short[k] PROVE front = short
  BY <1>2, <1>3, SeqEqual
<1> QED
  BY <1>2, <1>3 DEF SL!StartsWith, front

----------------------------------------------------------------------------
(* What the table says of a session                                        *)

GapAt(p, q) == IsoTimes /\ TimeOf(q) - TimeOf(p) > Timeout

(* The fields are what the events of the log make them.                    *)
Summary(x, st) ==
  LET log == st.log
      n == Len(log)
  IN  /\ log # << >>
      /\ ~Crashes => IsInjective(log)
      /\ \A k \in DOMAIN log :
           /\ log[k][2] \in 1 .. Len(stream[log[k][1]])
           /\ Ev(log[k][1], log[k][2]).sid = x
           /\ Ev(log[k][1], log[k][2]).kind = "event"
           /\ ~Ev(log[k][1], log[k][2]).late
      /\ \A k \in 2 .. n : ~GapAt(log[k - 1], log[k])
      /\ st.event_count = n
      /\ st.session_start = TimeOf(log[1])
      /\ st.last_event_time = TimeOf(log[n])
      /\ st.converted <=>
           \E k \in DOMAIN log : Ev(log[k][1], log[k][2]).type = "purchase"

LEMMA SummaryIs ==
  ASSUME NEW x, NEW st \in State, Summary(x, st)
  PROVE  SL!Summarises(x, st)
<1>1. /\ st.log \in Seq(Position) /\ st.converted \in BOOLEAN
      /\ DOMAIN st.log = 1 .. Len(st.log) /\ Len(st.log) \in Nat
  BY DEF State
<1>2. Len(st.log) > 0
  BY <1>1 DEF Summary
<1>3. /\ SL!Range(st.log) = {st.log[k] : k \in DOMAIN st.log}
      /\ ~Crashes => SL!IsInjective(st.log)
  BY SameWords DEF Range, Summary
<1>4. \A p \in SL!Range(st.log) : SL!Ev(p).sid = x /\ SL!Ev(p).kind = "event" /\ ~SL!Ev(p).late
  BY <1>3 DEF Summary, SL!Ev, Ev
<1>5. \A i \in 2 .. Len(st.log) : ~SL!Gap(st.log[i - 1], st.log[i])
  BY DEF Summary, GapAt, SL!Gap, SL!TimeOf, TimeOf, SL!Ev, Ev
<1>6. /\ st.event_count = Len(st.log)
      /\ st.session_start = SL!TimeOf(st.log[1])
      /\ st.last_event_time = SL!TimeOf(st.log[Len(st.log)])
  BY DEF Summary, SL!TimeOf, TimeOf, SL!Ev, Ev
<1>7. st.converted <=> \E p \in SL!Range(st.log) : SL!Ev(p).type = "purchase"
  BY <1>3 DEF Summary, SL!Ev, Ev
<1>8. st.converted = \E p \in SL!Range(st.log) : SL!Ev(p).type = "purchase"
  BY <1>1, <1>7
<1> QED
  BY <1>2, <1>3, <1>4, <1>5, <1>6, <1>8 DEF SL!Summarises

LEMMA SummaryStays ==
  ASSUME TypeOK, [Next]_vars, NEW x, NEW st \in State, Summary(x, st)
  PROVE  Summary(x, st)'
<1>1. /\ st.log \in Seq(Position) /\ DOMAIN st.log = 1 .. Len(st.log)
      /\ Len(st.log) \in Nat /\ st.log # << >>
  BY DEF State, Summary
<1>2. ASSUME NEW k \in DOMAIN st.log
      PROVE  /\ st.log[k][2] \in 1 .. Len(stream'[st.log[k][1]])
             /\ Ev(st.log[k][1], st.log[k][2])' = Ev(st.log[k][1], st.log[k][2])
             /\ TimeOf(st.log[k])' = TimeOf(st.log[k])
  <2>1. st.log[k] \in Position
    BY <1>1
  <2>2. st.log[k][1] \in Shards
    BY <2>1 DEF Position
  <2> QED
    BY <2>2, EventStays DEF Summary, TimeOf
<1>3. \A k \in 2 .. Len(st.log) : k \in DOMAIN st.log /\ k - 1 \in DOMAIN st.log
  BY <1>1
<1>4. 1 \in DOMAIN st.log /\ Len(st.log) \in DOMAIN st.log
  BY <1>1
<1> QED
  BY <1>2, <1>3, <1>4 DEF Summary, GapAt

(* A put changes none of the fields the log determines.                    *)
LEMMA SummaryItem ==
  ASSUME NEW x, NEW st \in State, Summary(x, st), NEW t, NEW c
  PROVE  /\ Summary(x, Item(Closed(st), t))
         /\ Summary(x, Item([st EXCEPT !.cart_total = c], t))
<1>1. ASSUME NEW item, item.log = st.log, item.event_count = st.event_count,
             item.session_start = st.session_start,
             item.last_event_time = st.last_event_time, item.converted = st.converted
      PROVE  Summary(x, item)
  BY <1>1 DEF Summary
<1>2. LET item == Item(Closed(st), t)
      IN  /\ item.log = st.log /\ item.event_count = st.event_count
          /\ item.session_start = st.session_start
          /\ item.last_event_time = st.last_event_time /\ item.converted = st.converted
  BY DEF State, Item, Closed
<1>3. LET item == Item([st EXCEPT !.cart_total = c], t)
      IN  /\ item.log = st.log /\ item.event_count = st.event_count
          /\ item.session_start = st.session_start
          /\ item.last_event_time = st.last_event_time /\ item.converted = st.converted
  BY DEF State, Item
<1> QED
  BY <1>1, <1>2, <1>3

(* An event across no gap makes a summary of one event more.               *)
LEMMA SummaryGrows ==
  ASSUME TypeOK, NEW x, NEW st \in State, st = EmptyState \/ Summary(x, st),
         NEW s \in Shards, NEW i \in 1 .. Len(stream[s]),
         Ev(s, i).sid = x, Ev(s, i).kind = "event", ~Ev(s, i).late,
         ~Crashes => <<s, i>> \notin Range(st.log), ~IsNewSession(st, Ev(s, i))
  PROVE  Summary(x, Update(st, Ev(s, i), <<s, i>>))
<1> DEFINE new == Update(st, Ev(s, i), <<s, i>>)
           n == Len(st.log)
<1>1. /\ st.log \in Seq(Position) /\ DOMAIN st.log = 1 .. n /\ n \in Nat
      /\ st.converted \in BOOLEAN /\ Ev(s, i) \in Event
  BY EventAt DEF State
<1>2. /\ new.log = Append(st.log, <<s, i>>) /\ new.event_count = st.event_count + 1
      /\ new.last_event_time = Ev(s, i).time
      /\ new.session_start = IF st = EmptyState THEN Ev(s, i).time ELSE st.session_start
      /\ new.converted = (st.converted \/ Ev(s, i).type = "purchase")
  BY DEF Update, State
<1> HIDE DEF new
<1>3. /\ DOMAIN new.log = 1 .. (n + 1) /\ Len(new.log) = n + 1 /\ new.log # << >>
      /\ \A k \in 1 .. n : new.log[k] = st.log[k]
      /\ new.log[n + 1] = <<s, i>>
  <2>1. new.log \in Seq(Position) /\ <<s, i>> \in Position
    BY <1>1, <1>2, EventAt
  <2>2. DOMAIN new.log = 1 .. (n + 1) /\ Len(new.log) = n + 1
    BY <1>1, <1>2, <2>1
  <2>3. (\A k \in 1 .. n : new.log[k] = st.log[k]) /\ new.log[n + 1] = <<s, i>>
    BY <1>1, <1>2, <2>1
  <2> QED
    BY <1>1, <2>1, <2>2, <2>3
<1> HIDE DEF n
<1>4. /\ st = EmptyState => n = 0 /\ st.event_count = 0 /\ ~st.converted
      /\ st # EmptyState => n > 0 /\ Summary(x, st)
  BY <1>1 DEF EmptyState, Summary, n
<1>5. TimeOf(<<s, i>>) = Ev(s, i).time
  BY DEF TimeOf
<1>6. ASSUME ~Crashes PROVE IsInjective(new.log)
  <2>1. \A k \in 1 .. n : st.log[k] # <<s, i>>
    BY <1>1, <1>6 DEF Range
  <2>2. \A k, m \in 1 .. n : st.log[k] = st.log[m] => k = m
    <3>1. CASE st = EmptyState
      BY <1>1, <1>4, <3>1
    <3>2. CASE st # EmptyState
      BY <1>1, <1>4, <1>6, <3>2 DEF Summary, IsInjective
    <3> QED
      BY <3>1, <3>2
  <2>3. \A k \in DOMAIN new.log : k \in 1 .. n \/ k = n + 1
    BY <1>1, <1>3
  <2>4. \A k, m \in DOMAIN new.log : new.log[k] = new.log[m] => k = m
    BY <1>3, <2>1, <2>2, <2>3
  <2> QED
    BY <2>4 DEF IsInjective
<1>7. ASSUME NEW k \in DOMAIN new.log
      PROVE  /\ new.log[k][2] \in 1 .. Len(stream[new.log[k][1]])
             /\ Ev(new.log[k][1], new.log[k][2]).sid = x
             /\ Ev(new.log[k][1], new.log[k][2]).kind = "event"
             /\ ~Ev(new.log[k][1], new.log[k][2]).late
  <2>1. CASE k \in 1 .. n
    <3>1. st # EmptyState
      BY <1>1, <1>4, <2>1
    <3> QED
      BY <1>1, <1>3, <1>4, <2>1, <3>1 DEF Summary
  <2>2. CASE k = n + 1
    BY <1>3, <2>2
  <2> QED
    BY <1>1, <1>3, <2>1, <2>2
<1>8. ASSUME NEW k \in 2 .. (n + 1) PROVE ~GapAt(new.log[k - 1], new.log[k])
  <2>1. CASE k \in 2 .. n
    <3>1. k - 1 \in 1 .. n /\ k \in 1 .. n /\ st # EmptyState
      BY <1>1, <1>4, <2>1
    <3> QED
      BY <1>3, <1>4, <2>1, <3>1 DEF Summary, n
  <2>2. CASE k = n + 1
    <3>1. k - 1 = n /\ n \in 1 .. n /\ st # EmptyState
      BY <1>1, <1>4, <2>2
    <3>2. new.log[k - 1] = st.log[n] /\ new.log[k] = <<s, i>>
      BY <1>3, <2>2, <3>1
    <3>3. st.last_event_time = TimeOf(st.log[n])
      BY <1>4, <3>1 DEF Summary, n
    <3> QED
      BY <1>5, <3>1, <3>2, <3>3 DEF GapAt, IsNewSession
  <2> QED
    BY <1>1, <2>1, <2>2
<1>9. new.event_count = n + 1
  BY <1>1, <1>2, <1>4 DEF Summary, n
<1>10. new.session_start = TimeOf(new.log[1]) /\ new.last_event_time = TimeOf(new.log[n + 1])
  <2>1. CASE st = EmptyState
    BY <1>2, <1>3, <1>4, <1>5, <2>1
  <2>2. CASE st # EmptyState
    BY <1>1, <1>2, <1>3, <1>4, <1>5, <2>2 DEF Summary
  <2> QED
    BY <2>1, <2>2
<1>11. new.converted <=>
         \E k \in DOMAIN new.log : Ev(new.log[k][1], new.log[k][2]).type = "purchase"
  <2>1. st.converted <=>
          \E k \in 1 .. n : Ev(st.log[k][1], st.log[k][2]).type = "purchase"
    <3>1. CASE st = EmptyState
      BY <1>1, <1>4, <3>1
    <3>2. CASE st # EmptyState
      BY <1>1, <1>4, <3>2 DEF Summary
    <3> QED
      BY <3>1, <3>2
  <2>2. new.converted <=> (st.converted \/ Ev(s, i).type = "purchase")
    BY <1>1, <1>2
  <2>3. \A k : k \in DOMAIN new.log <=> k \in 1 .. n \/ k = n + 1
    BY <1>1, <1>3
  <2>4. (\E k \in DOMAIN new.log : Ev(new.log[k][1], new.log[k][2]).type = "purchase")
          <=> \/ \E k \in 1 .. n : Ev(st.log[k][1], st.log[k][2]).type = "purchase"
              \/ Ev(s, i).type = "purchase"
    BY <1>3, <2>3
  <2> QED
    BY <2>1, <2>2, <2>4
<1> QED
  BY <1>3, <1>6, <1>7, <1>8, <1>9, <1>10, <1>11 DEF Summary, new

----------------------------------------------------------------------------
(* What an invocation is about to store                                    *)

SameRun(item, st) ==
  /\ SL!StartsWith(st.log, item.log)
  /\ st.expires_at = item.expires_at
  /\ st.closed = item.closed
NextRun(item, st) ==
  /\ item.closed
  /\ st # EmptyState
  /\ GapAt(item.log[Len(item.log)], st.log[1])
  /\ ~Crashes => Range(st.log) \cap Range(item.log) = {}

(* The session in hand goes on from a version of the stored one, or has    *)
(* begun after a gap that closed it; or the stored one is gone.            *)
GoesOn(item, st, visits) ==
  \/ item = EmptyState
  \/ SameRun(item, st) /\ (visits # {} \/ Len(st.log) > Len(item.log))
Linked(x, st, visits) ==
  \/ \E item \in ReadOf(x) : GoesOn(item, st, visits)
  \/ NextRun(table[x], st)

(* The session in hand, and every version of a stored one, is a summary.   *)
Sums == [x \in Sessions |-> {st \in State : st = EmptyState \/ Summary(x, st)}]

HandSums(s) ==
  /\ \A i \in left[s] \cup todo[s] : Ev(s, i).kind = "event" /\ ~Ev(s, i).late
  /\ pc[s] = "apply" =>
       /\ \A i \in todo[s] : Ev(s, i).sid = sid[s]
       /\ state[s] \in Sums[sid[s]]

SumInv ==
  /\ LifeInv /\ (~Crashes => OnceInv)
  /\ \A s \in Shards : HandSums(s)
  /\ \A x \in Sessions : table[x] \in Sums[x] /\ older[x] \in Sums[x]

HomeInv ==
  \A s \in Shards : \A i \in 1 .. Len(stream[s]) :
    Ev(s, i) \in Events /\ s = ShardOf[Ev(s, i).user]

HandLinked(s) ==
  pc[s] = "apply" =>
    /\ \E i \in 1 .. Len(stream[s]) : Ev(s, i).sid = sid[s]
    /\ Linked(sid[s], state[s], todo[s])

RefInv ==
  /\ SumInv /\ HomeInv
  /\ \A s \in Shards : HandLinked(s)

LEMMA HomeStep ==
  ASSUME TypeOK, HomeInv, [Next]_vars
  PROVE  HomeInv'
<1>1. CASE UNCHANGED stream
  BY <1>1 DEF HomeInv, Ev
<1>2. ASSUME NEW e \in Events, Produce(e) PROVE HomeInv'
  <2>1. SUFFICES ASSUME NEW s \in Shards, NEW i \in 1 .. Len(stream'[s])
                 PROVE  Ev(s, i)' \in Events /\ s = ShardOf[Ev(s, i)'.user]
    BY DEF HomeInv
  <2>2. stream[s] \in Seq(Record) /\ e \in Event
    BY SessionizerAssumption DEF TypeOK
  <2>3. CASE i \in 1 .. Len(stream[s])
    BY <2>3, EventStays DEF HomeInv
  <2>4. CASE i \notin 1 .. Len(stream[s])
    <3>1. s = ShardOf[e.user]
      BY <1>2, <2>4 DEF Produce, TypeOK
    <3>2. stream'[s] = Append(stream[s], [ev |-> e, arrival |-> now])
      BY <1>2, <3>1 DEF Produce, TypeOK
    <3>3. stream'[s][i] = [ev |-> e, arrival |-> now]
      BY <2>2, <2>4, <3>2
    <3> QED
      BY <3>1, <3>3 DEF Ev
  <2> QED
    BY <2>3, <2>4
<1>3. UNCHANGED stream \/ \E e \in Events : Produce(e)
  BY DEF Next, ShardStep, Poll, Invoke, DecodeRaises, WriteRaw, WriteLate, WriteFails,
         Get, GetFails, Apply, Close, FinalPut, PutFails, Return, Crash, FailBatch,
         TtlDelete, Tick, vars
<1> QED
  BY <1>1, <1>2, <1>3

----------------------------------------------------------------------------
(* Every item is a summary, whatever goes wrong                            *)

LEMMA SumsStay ==
  ASSUME TypeOK, [Next]_vars, NEW x \in Sessions
  PROVE  Sums[x] \subseteq Sums'[x]
<1> SUFFICES ASSUME NEW st \in Sums[x] PROVE st \in Sums'[x]
  OBVIOUS
<1>1. st \in State /\ (st = EmptyState \/ Summary(x, st))
  BY DEF Sums
<1>2. st = EmptyState \/ Summary(x, st)'
  BY <1>1, SummaryStays
<1> QED
  BY <1>1, <1>2 DEF Sums

LEMMA FreshVisit ==
  ASSUME OnceInv, NEW s \in Shards, NEW i \in todo[s], pc[s] = "apply",
         NEW log \in Known
  PROVE  <<s, i>> \notin Range(log)
<1>1. batch[s] \in work[s] /\ i \in Span(batch[s]) /\ VisitsApart(s)
  BY DEF OnceInv, ServiceInv, TypeInv, VisitsInStream, VisitsApart
<1>2. i \notin Touched(s)
  BY <1>1 DEF Touched, OnceInv, ServiceInv, AccountedIn, Pending
<1>3. Sound(log, AllTouched) \/ log = << >>
  BY DEF Known, OnceInv
<1>4. \A k \in DOMAIN log : log[k] # <<s, i>>
  <2>1. CASE log = << >>
    BY <2>1
  <2>2. CASE Sound(log, AllTouched)
    <3>1. ASSUME NEW k \in DOMAIN log, log[k] = <<s, i>> PROVE FALSE
      <4>1. i \in AllTouched[s]
        BY <2>2, <3>1 DEF Sound
      <4> QED
        BY <1>2, <4>1 DEF AllTouched
    <3> QED
      BY <3>1
  <2> QED
    BY <1>3, <2>1, <2>2
<1> QED
  BY <1>4 DEF Range

LEMMA SumInvInit == Init => SumInv
<1> SUFFICES ASSUME Init PROVE SumInv
  OBVIOUS
<1>1. OnceInv /\ LifeInv
  BY OnceInvInit, LifeInvInit
<1>2. \A x \in Sessions : EmptyState \in Sums[x]
  BY EmptyStateType DEF Sums
<1> QED
  BY <1>1, <1>2 DEF Init, SumInv, HandSums

LEMMA SumInvStep == SumInv /\ [Next]_vars => SumInv'
<1> SUFFICES ASSUME SumInv, [Next]_vars PROVE SumInv'
  OBVIOUS
<1> USE DEF esmVars, lambdaVars, storeVars
<1>1. /\ TypeOK /\ TypeInv /\ LifeInv /\ TypeOK' /\ LifeInv' /\ (~Crashes => OnceInv')
      /\ \A t \in Shards : VisitsInStream(t) /\ HandSums(t)
  BY OnceInvStep, LifeInvStep DEF SumInv, LifeInv, TypeInv
<1>2. \A x \in Sessions : Sums[x] \subseteq Sums'[x] /\ EmptyState \in Sums[x]
  BY <1>1, SumsStay, EmptyStateType DEF Sums
<1>3. /\ \A x \in Sessions : table[x] \in Sums[x] /\ older[x] \in Sums[x]
      /\ \A s \in Shards : state[s] \in State /\ sid[s] \in Sessions /\ state[s].log \in Known
  BY <1>1 DEF SumInv, TypeOK, Known
<1>4. \A s \in Shards : \A i \in left[s] \cup todo[s] :
        /\ i \in 1 .. Len(stream[s]) /\ Ev(s, i)' = Ev(s, i) /\ Ev(s, i).sid \in Sessions
        /\ Ev(s, i).kind = "event" /\ ~Ev(s, i).late /\ <<s, i>> \in Position
  BY <1>1, EventStays, EventAt DEF VisitsInStream, HandSums, Event
<1> DEFINE TableSums == \A x \in Sessions : table'[x] \in Sums'[x] /\ older'[x] \in Sums'[x]
<1>5. ASSUME UNCHANGED <<table, older>> PROVE TableSums
  BY <1>2, <1>3, <1>5
<1>6. ASSUME NEW x \in Sessions, NEW item \in Sums[x], PutItem(x, item) PROVE TableSums
  BY <1>1, <1>2, <1>3, <1>6 DEF PutItem, TypeOK
<1>7. ASSUME NEW s \in Shards, state[s] \in Sums[sid[s]], state[s] # EmptyState,
             NEW t \in Nat, NEW c \in Nat
      PROVE  /\ Item(Closed(state[s]), t) \in Sums[sid[s]]
             /\ Item([state[s] EXCEPT !.cart_total = c], t) \in Sums[sid[s]]
  BY <1>3, <1>7, ItemType, SummaryItem DEF Sums
<1>8. ASSUME NEW t \in Shards, left'[t] \cup todo'[t] \subseteq left[t] \cup todo[t],
             pc'[t] = "apply" => /\ pc[t] = "apply" /\ state'[t] = state[t] /\ sid'[t] = sid[t]
                                 /\ todo'[t] \subseteq todo[t]
      PROVE  HandSums(t)'
  <2>1. \A i \in left'[t] \cup todo'[t] : Ev(t, i)'.kind = "event" /\ ~Ev(t, i)'.late
    BY <1>4, <1>8
  <2>2. ASSUME pc'[t] = "apply"
        PROVE  (\A i \in todo'[t] : Ev(t, i)'.sid = sid'[t]) /\ state'[t] \in Sums'[sid'[t]]
    BY <1>1, <1>2, <1>3, <1>4, <1>8, <2>2 DEF HandSums
  <2> QED
    BY <2>1, <2>2 DEF HandSums
<1>9. ASSUME NEW s \in Shards, Get(s) PROVE HandSums(s)'
  <2>1. PICK i \in left[s] : \E item \in ReadOf(Ev(s, i).sid) :
               /\ todo' = [todo EXCEPT ![s] = Group(s, i)]
               /\ left' = [left EXCEPT ![s] = @ \ Group(s, i)]
               /\ sid' = [sid EXCEPT ![s] = Ev(s, i).sid]
               /\ state' = [state EXCEPT ![s] = item]
    BY <1>9 DEF Get
  <2>2. PICK item \in ReadOf(Ev(s, i).sid) : state' = [state EXCEPT ![s] = item]
    BY <2>1
  <2>3. PICK x \in Sessions : x = Ev(s, i).sid
    BY <1>4
  <2>4. item \in Sums'[x]
    BY <1>2, <1>3, <2>2, <2>3 DEF ReadOf
  <2>5. /\ todo'[s] = {j \in left[s] : Ev(s, j).sid = x}
        /\ left'[s] \subseteq left[s] /\ sid'[s] = x /\ state'[s] = item
    BY <1>1, <1>9, <2>1, <2>2, <2>3 DEF Get, TypeOK, Group
  <2> QED
    BY <1>4, <2>4, <2>5 DEF HandSums
<1>10. ASSUME NEW s \in Shards, NEW i \in todo[s], Visit(s, i), NEW st \in State,
              UNCHANGED <<stream, sid>>, st.log \in Known,
              state' = [state EXCEPT ![s] = Update(st, Ev(s, i), <<s, i>>)],
              st = EmptyState \/ Summary(sid[s], st), ~IsNewSession(st, Ev(s, i))
       PROVE  HandSums(s)'
  <2>1. PICK x \in Sessions : x = sid[s]
    BY <1>3
  <2>2. ~Crashes => <<s, i>> \notin Range(st.log)
    BY <1>10, FreshVisit DEF Visit, SumInv
  <2>3. /\ state'[s] = Update(st, Ev(s, i), <<s, i>>) /\ todo'[s] = todo[s] \ {i}
        /\ left'[s] = left[s] /\ sid'[s] = x /\ pc[s] = "apply" /\ state'[s] \in State
    BY <1>1, <1>10, <2>1 DEF Visit, TypeOK
  <2>4. Ev(s, i).sid = x
    BY <1>1, <2>1, <2>3 DEF HandSums
  <2>5. Summary(x, Update(st, Ev(s, i), <<s, i>>))
    BY <1>1, <1>4, <1>10, <2>1, <2>2, <2>4, SummaryGrows
  <2>6. state'[s] \in Sums'[x]
    BY <1>2, <2>3, <2>5 DEF Sums
  <2>7. \A j \in left'[s] \cup todo'[s] : Ev(s, j)'.kind = "event" /\ ~Ev(s, j)'.late
    BY <1>4, <2>3
  <2>8. \A j \in todo'[s] : Ev(s, j)'.sid = sid'[s]
    <3>1. \A j \in todo[s] : Ev(s, j).sid = x
      BY <1>1, <2>1, <2>3 DEF HandSums
    <3> QED
      BY <1>4, <2>3, <3>1
  <2> QED
    BY <2>3, <2>6, <2>7, <2>8 DEF HandSums
<1>11. ASSUME NEW s \in Shards, Apply(s) PROVE HandSums(s)'
  <2>1. PICK i \in todo[s] :
               /\ Visit(s, i) /\ ~IsNewSession(state[s], Ev(s, i))
               /\ state' = [state EXCEPT ![s] = Update(@, Ev(s, i), <<s, i>>)]
    BY <1>11 DEF Apply, Visit
  <2>2. /\ state' = [state EXCEPT ![s] = Update(state[s], Ev(s, i), <<s, i>>)]
        /\ pc[s] = "apply" /\ UNCHANGED <<stream, sid>>
    BY <1>1, <1>11, <2>1 DEF Apply, TypeOK
  <2>3. state[s] = EmptyState \/ Summary(sid[s], state[s])
    BY <1>1, <1>3, <2>2 DEF HandSums, Sums
  <2> QED
    BY <1>3, <1>10, <2>1, <2>2, <2>3
<1>12. ASSUME NEW s \in Shards, Close(s) PROVE HandSums(s)' /\ TableSums
  <2>1. PICK i \in todo[s] :
               /\ Visit(s, i) /\ IsNewSession(state[s], Ev(s, i))
               /\ state' = [state EXCEPT ![s] = Update(EmptyState, Ev(s, i), <<s, i>>)]
    BY <1>12 DEF Close, Visit
  <2>2. /\ pc[s] = "apply" /\ UNCHANGED <<stream, sid>> /\ state[s] # EmptyState
        /\ PutItem(sid[s], Item(Closed(state[s]), now)) /\ state[s] \in Sums[sid[s]]
        /\ now \in Nat
    BY <1>1, <1>12, <2>1 DEF Close, HandSums, IsNewSession, TypeOK
  <2>3. TableSums
    BY <1>3, <1>6, <1>7, <2>2
  <2>4. EmptyState.log \in Known /\ ~IsNewSession(EmptyState, Ev(s, i))
    BY DEF Known, EmptyState, IsNewSession
  <2> QED
    BY <1>10, <2>1, <2>2, <2>3, <2>4, EmptyStateType
<1>13. ASSUME NEW s \in Shards, FinalPut(s) PROVE TableSums
  <2>1. /\ PutItem(sid[s], Item([state[s] EXCEPT !.cart_total = cart[s]], now))
        /\ state[s] # EmptyState /\ state[s] \in Sums[sid[s]]
        /\ now \in Nat /\ cart[s] \in Nat
    BY <1>1, <1>13 DEF FinalPut, HandSums, TypeOK, LifeInv
  <2> QED
    BY <1>3, <1>6, <1>7, <2>1
<1>14. ASSUME NEW s \in Shards, ShardStep(s) PROVE HandSums(s)' /\ TableSums
  <2>1. CASE Invoke(s)
    <3>1. PICK b \in work[s] : left' = [left EXCEPT ![s] = OnTime(s, b)]
      BY <2>1 DEF Invoke
    <3>2. /\ left'[s] = OnTime(s, b) /\ todo'[s] = todo[s] /\ pc'[s] = "raw"
          /\ stream' = stream /\ UNCHANGED <<table, older>>
      BY <1>1, <2>1, <3>1 DEF Invoke, TypeOK
    <3>3. HandSums(s)'
      BY <1>4, <3>2 DEF HandSums, OnTime, Decoded, Ev
    <3> QED
      BY <1>5, <3>2, <3>3
  <2>2. CASE Poll(s) \/ WriteRaw(s) \/ WriteLate(s) \/ PutFails(s)
    <3>1. /\ left'[s] = left[s] /\ todo'[s] \subseteq todo[s] /\ UNCHANGED <<table, older>>
          /\ pc'[s] = "apply" => /\ pc[s] = "apply"
                                 /\ state'[s] = state[s] /\ sid'[s] = sid[s]
      BY <1>1, <2>2 DEF Poll, WriteRaw, WriteLate, PutFails, TypeOK
    <3> QED
      BY <1>5, <1>8, <3>1
  <2>3. CASE GetFails(s)
    <3>1. PICK i \in left[s] : left' = [left EXCEPT ![s] = @ \ Group(s, i)]
      BY <2>3 DEF GetFails
    <3>2. left'[s] \subseteq left[s] /\ todo'[s] = todo[s] /\ pc'[s] = "next"
      BY <1>1, <2>3, <3>1 DEF GetFails, TypeOK
    <3> QED
      BY <1>5, <1>8, <2>3, <3>2 DEF GetFails
  <2>4. CASE Get(s)
    BY <1>5, <1>9, <2>4 DEF Get
  <2>5. CASE DecodeRaises(s) \/ WriteFails(s) \/ Crash(s) \/ Return(s)
    <3>1. EndInvocation(s) /\ UNCHANGED <<table, older>>
      BY <2>5 DEF DecodeRaises, WriteFails, Crash, Return, FailBatch
    <3>2. left'[s] = {} /\ todo'[s] = {} /\ pc'[s] = "idle"
      BY <1>1, <3>1 DEF EndInvocation, TypeOK
    <3> QED
      BY <1>5, <1>8, <3>1, <3>2
  <2>6. CASE FinalPut(s)
    <3>1. left'[s] = left[s] /\ todo'[s] = todo[s] /\ pc'[s] = "next"
      BY <1>1, <2>6 DEF FinalPut, TypeOK
    <3> QED
      BY <1>8, <1>13, <2>6, <3>1
  <2>7. CASE Apply(s)
    BY <1>5, <1>11, <2>7 DEF Apply
  <2> QED
    BY <1>12, <1>14, <2>1, <2>2, <2>3, <2>4, <2>5, <2>6, <2>7 DEF ShardStep
<1>15. ASSUME NEW s \in Shards, ShardStep(s), NEW t \in Shards, t # s PROVE HandSums(t)'
  <2>1. /\ left'[t] = left[t] /\ todo'[t] = todo[t] /\ pc'[t] = pc[t]
        /\ state'[t] = state[t] /\ sid'[t] = sid[t]
    BY <1>1, <1>15
    DEF ShardStep, Poll, Invoke, DecodeRaises, WriteRaw, WriteLate, WriteFails, Get,
        GetFails, Apply, Close, FinalPut, PutFails, Return, Crash, FailBatch,
        EndInvocation, TypeOK
  <2> QED
    BY <1>8, <2>1
<1>16. CASE \E s \in Shards : ShardStep(s)
  BY <1>1, <1>14, <1>15, <1>16 DEF SumInv
<1>17. ASSUME NEW x \in Sessions, TtlDelete(x) PROVE TableSums
  BY <1>2, <1>6, <1>17 DEF TtlDelete
<1>18. CASE UNCHANGED lambdaVars /\ TableSums
  <2>1. \A t \in Shards : HandSums(t)'
    BY <1>8, <1>18
  <2> QED
    BY <1>1, <1>18, <2>1 DEF SumInv
<1>19. \/ \E s \in Shards : ShardStep(s)
       \/ UNCHANGED lambdaVars /\ TableSums
  <2>1. \/ \E s \in Shards : ShardStep(s)
        \/ UNCHANGED lambdaVars /\ \/ UNCHANGED <<table, older>>
                                   \/ \E x \in Sessions : TtlDelete(x)
    BY DEF Next, Produce, TtlDelete, Tick, vars
  <2> QED
    BY <1>5, <1>17, <2>1
<1> QED
  BY <1>16, <1>18, <1>19

(* Every item can be recomputed from the stream: its count, its times and  *)
(* its flag are those of the events folded into it, which are on-time      *)
(* events of its session with no gap between two of them, and each once    *)
(* unless invocations are killed.  Whatever reads, swallowed errors, kills *)
(* and retries leave in the table is at no time half of an update.         *)
ItemsSummarise ==
  \A x \in Sessions : table[x] # EmptyState => SL!Summarises(x, table[x])

THEOREM ItemsAreSummaries == Spec => []ItemsSummarise
<1>1. SumInv => ItemsSummarise
  <2> SUFFICES ASSUME SumInv, NEW x \in Sessions, table[x] # EmptyState
               PROVE  SL!Summarises(x, table[x])
    BY DEF ItemsSummarise
  <2>1. table[x] \in State /\ Summary(x, table[x])
    BY DEF SumInv, Sums
  <2> QED
    BY <2>1, SummaryIs
<1> QED
  BY <1>1, SumInvInit, SumInvStep, PTL DEF Spec

----------------------------------------------------------------------------
(* What an invocation is about to store goes on from what is stored        *)

(* No two invocations have the same session in hand.                       *)
LEMMA OneHand ==
  ASSUME OneShardEach, HomeInv, NEW s \in Shards, NEW t \in Shards, s # t,
         HandLinked(s), HandLinked(t), pc[s] = "apply", pc[t] = "apply"
  PROVE  sid[s] # sid[t]
  BY DEF OneShardEach, HomeInv, HandLinked

LEMMA NextRunStays ==
  ASSUME TypeOK, [Next]_vars, NEW x \in Sessions, NEW item \in Sums[x], NEW st \in Sums[x],
         NextRun(item, st)
  PROVE  NextRun(item, st)'
<1>1. /\ Summary(x, item) /\ Summary(x, st)
      /\ item.log \in Seq(Position) /\ st.log \in Seq(Position)
  BY DEF NextRun, State, Sums, EmptyState
<1> DEFINE p == item.log[Len(item.log)]
           q == st.log[1]
<1>2. /\ 1 \in DOMAIN st.log /\ Len(item.log) \in DOMAIN item.log
      /\ p \in Position /\ q \in Position
  BY <1>1 DEF Summary
<1>3. /\ p[1] \in Shards /\ p[2] \in 1 .. Len(stream[p[1]])
      /\ q[1] \in Shards /\ q[2] \in 1 .. Len(stream[q[1]])
  BY <1>1, <1>2 DEF Summary, Position
<1> HIDE DEF p, q
<1>4. TimeOf(p)' = TimeOf(p) /\ TimeOf(q)' = TimeOf(q)
  BY <1>3, EventStays DEF TimeOf
<1>5. GapAt(p, q)' = GapAt(p, q)
  BY <1>4 DEF GapAt
<1> QED
  BY <1>5 DEF NextRun, p, q

LEMMA VersionExpires ==
  ASSUME LifeInv, NEW x \in Sessions, NEW item \in ReadOf(x), item # EmptyState
  PROVE  item.expires_at # 0
<1> DEFINE p == item.log[1]
<1>1. /\ Begun(item) /\ LongEnough(item) /\ item \in State /\ TypeOK
  BY DEF LifeInv, Lives, TypeInv, TypeOK, ReadOf
<1>2. item.log \in Seq(Position) /\ item.log # << >>
  BY <1>1 DEF State, Begun
<1>3. p \in Position
  BY <1>2
<1>4. p[1] \in Shards /\ p[2] \in 1 .. Len(stream[p[1]])
  BY <1>1, <1>3 DEF Position, Begun
<1> HIDE DEF p
<1>5. stream[p[1]] \in Seq(Record)
  BY <1>1, <1>4 DEF TypeOK
<1>6. stream[p[1]][p[2]] \in Record
  BY <1>4, <1>5
<1>7. ArrivalOf(p) \in Nat
  BY <1>6 DEF ArrivalOf, Record
<1> QED
  BY <1>1, <1>7, LogicAssumption DEF LongEnough, p

(* A visit that is no boundary keeps the session in hand going on ...      *)
LEMMA AppendStarts ==
  ASSUME NEW item \in State, NEW st \in State, NEW e, NEW p \in Position,
         NEW visits, NEW rest, GoesOn(item, st, visits)
  PROVE  GoesOn(item, Update(st, e, p), rest)
<1> DEFINE new == Update(st, e, p)
<1>1. /\ st.log \in Seq(Position) /\ item.log \in Seq(Position)
      /\ new.log = Append(st.log, p) /\ new.expires_at = st.expires_at
      /\ new.closed = st.closed
  BY DEF State, Update
<1> HIDE DEF new
<1>2. /\ new.log \in Seq(Position) /\ Len(new.log) = Len(st.log) + 1
      /\ \A k \in 1 .. Len(st.log) : new.log[k] = st.log[k]
      /\ Len(st.log) \in Nat /\ Len(item.log) \in Nat
  BY <1>1
<1>3. CASE SameRun(item, st)
  <2>1. /\ Len(item.log) <= Len(st.log)
        /\ \A k \in 1 .. Len(item.log) : st.log[k] = item.log[k]
    BY <1>1, <1>3, Prefix DEF SameRun
  <2>2. /\ Len(item.log) < Len(new.log) /\ Len(item.log) <= Len(new.log)
        /\ \A k \in 1 .. Len(item.log) : new.log[k] = item.log[k]
    BY <1>2, <2>1
  <2>3. SL!StartsWith(new.log, item.log)
    BY <1>1, <1>2, <2>2, Prefix
  <2>4. Len(new.log) > Len(item.log)
    BY <1>2, <2>2
  <2> QED
    BY <1>1, <1>3, <2>3, <2>4 DEF GoesOn, SameRun, new
<1> QED
  BY <1>3 DEF GoesOn

(* ... or keeps it the one after the gap.                                  *)
LEMMA AppendNext ==
  ASSUME NEW item \in State, NEW st \in State, NEW e, NEW p \in Position,
         NextRun(item, st), st.log # << >>, ~Crashes => p \notin Range(item.log)
  PROVE  NextRun(item, Update(st, e, p))
<1> DEFINE new == Update(st, e, p)
<1>1. st.log \in Seq(Position) /\ new.log = Append(st.log, p)
  BY DEF State, Update
<1> HIDE DEF new
<1>2. /\ new.log \in Seq(Position) /\ Len(new.log) = Len(st.log) + 1
      /\ \A k \in 1 .. Len(st.log) : new.log[k] = st.log[k]
      /\ new.log[Len(st.log) + 1] = p /\ Len(st.log) \in Nat
  BY <1>1
<1>3. new.log[1] = st.log[1] /\ new.log # << >>
  BY <1>1, <1>2
<1>4. Range(new.log) \subseteq Range(st.log) \cup {p}
  <2>1. DOMAIN new.log = 1 .. (Len(st.log) + 1) /\ DOMAIN st.log = 1 .. Len(st.log)
    BY <1>1, <1>2
  <2> QED
    BY <1>2, <2>1 DEF Range
<1>5. new # EmptyState
  BY <1>3 DEF EmptyState
<1> QED
  BY <1>3, <1>4, <1>5 DEF NextRun, new

LEMMA RefInvInit == Init => RefInv
<1> SUFFICES ASSUME Init PROVE RefInv
  OBVIOUS
<1>1. HomeInv /\ \A s \in Shards : HandLinked(s)
  BY DEF Init, HomeInv, HandLinked
<1> QED
  BY <1>1, SumInvInit DEF RefInv

LEMMA RefInvStep ==
  ASSUME OneShardEach, RefInv, [Next]_vars
  PROVE  RefInv'
<1> USE DEF esmVars, lambdaVars, storeVars
<1>1. /\ TypeOK /\ TypeInv /\ SumInv /\ SumInv' /\ HomeInv /\ TypeOK'
      /\ \A t \in Shards : VisitsInStream(t) /\ HandLinked(t) /\ HandSums(t)
  BY SumInvStep DEF RefInv, SumInv, LifeInv, TypeInv
<1>2. HomeInv'
  BY <1>1, HomeStep
<1>3. /\ \A x \in Sessions : table[x] \in Sums[x] /\ older[x] \in Sums[x]
      /\ \A x \in Sessions : table[x] \in State /\ older[x] \in State
      /\ \A s \in Shards : state[s] \in State /\ sid[s] \in Sessions
  BY <1>1 DEF SumInv, TypeOK
<1>4. \A s \in Shards : \A i \in 1 .. Len(stream[s]) :
        i \in 1 .. Len(stream'[s]) /\ Ev(s, i)' = Ev(s, i)
  BY <1>1, EventStays
(* The session in hand stays linked when neither it nor the item changes,  *)
(* and when the item goes.                                                 *)
<1>5. ASSUME NEW t \in Shards,
             pc'[t] = "apply" =>
               /\ pc[t] = "apply" /\ state'[t] = state[t] /\ sid'[t] = sid[t]
               /\ todo'[t] = todo[t]
               /\ \/ table'[sid[t]] = table[sid[t]] /\ older'[sid[t]] = older[sid[t]]
                  \/ table'[sid[t]] = EmptyState
      PROVE  HandLinked(t)'
  <2>1. SUFFICES ASSUME pc'[t] = "apply"
                 PROVE  /\ \E i \in 1 .. Len(stream'[t]) : Ev(t, i)'.sid = sid'[t]
                        /\ Linked(sid[t], state[t], todo[t])'
    BY DEF HandLinked
  <2>2. PICK x \in Sessions, st \in State, visits \in SUBSET Nat :
               x = sid[t] /\ st = state[t] /\ visits = todo[t]
    BY <1>1, <1>3 DEF TypeOK
  <2>3. /\ sid'[t] = x /\ state'[t] = st /\ todo'[t] = visits
        /\ \/ table'[x] = table[x] /\ older'[x] = older[x]
           \/ table'[x] = EmptyState
        /\ Linked(x, st, visits) /\ st \in Sums[x]
    BY <1>1, <1>5, <2>1, <2>2 DEF HandLinked, HandSums
  <2>4. \E i \in 1 .. Len(stream'[t]) : Ev(t, i)'.sid = x
    BY <1>1, <1>4, <1>5, <2>1, <2>2 DEF HandLinked
  <2>5. CASE table'[x] = EmptyState
    BY <2>3, <2>4, <2>5 DEF Linked, GoesOn, ReadOf
  <2>6. CASE table'[x] = table[x] /\ older'[x] = older[x]
    <3>1. CASE \E item \in ReadOf(x) : GoesOn(item, st, visits)
      <4>1. Linked(sid[t], state[t], todo[t])'
        BY <2>3, <2>6, <3>1 DEF Linked, GoesOn, ReadOf, SameRun, SL!StartsWith
      <4> QED
        BY <2>3, <2>4, <4>1
    <3>2. CASE NextRun(table[x], st)
      <4>1. PICK item \in Sums[x] : item = table[x]
        BY <1>3
      <4>2. NextRun(item, st)'
        BY <1>1, <2>3, <3>2, <4>1, NextRunStays
      <4>3. Linked(sid[t], state[t], todo[t])'
        BY <2>3, <2>6, <4>1, <4>2 DEF Linked, NextRun, GapAt, TimeOf, Ev
      <4> QED
        BY <2>3, <2>4, <4>3
    <3> QED
      BY <2>3, <3>1, <3>2 DEF Linked
  <2> QED
    BY <2>3, <2>5, <2>6
<1>6. ASSUME NEW s \in Shards, Get(s) PROVE HandLinked(s)'
  <2>1. PICK i \in left[s] : \E item \in ReadOf(Ev(s, i).sid) :
               /\ todo' = [todo EXCEPT ![s] = Group(s, i)]
               /\ sid' = [sid EXCEPT ![s] = Ev(s, i).sid]
               /\ state' = [state EXCEPT ![s] = item]
    BY <1>6 DEF Get
  <2>2. PICK item \in ReadOf(Ev(s, i).sid) : state' = [state EXCEPT ![s] = item]
    BY <2>1
  <2>3. PICK x \in Sessions : x = Ev(s, i).sid
    BY <1>1, EventAt DEF VisitsInStream, Event
  <2>4. /\ i \in todo'[s] /\ sid'[s] = x /\ state'[s] = item
        /\ UNCHANGED <<table, older, stream>> /\ i \in 1 .. Len(stream[s])
    BY <1>1, <1>6, <2>1, <2>2, <2>3 DEF Get, TypeOK, Group, VisitsInStream
  <2>5. item \in State
    <3>1. item \in ReadOf(x)
      BY <2>2, <2>3
    <3> QED
      BY <1>3, <3>1 DEF ReadOf
  <2>6. SL!StartsWith(item.log, item.log)
    <3>1. item.log \in Seq(Position)
      BY <2>5, LogOf
    <3>2. Len(item.log) <= Len(item.log)
      BY <3>1
    <3> QED
      BY <3>1, <3>2, Prefix
  <2>7. GoesOn(item, item, todo'[s])
    BY <2>4, <2>6 DEF GoesOn, SameRun
  <2>8. Linked(sid[s], state[s], todo[s])'
    BY <2>2, <2>3, <2>4, <2>7 DEF Linked, GoesOn, ReadOf, SameRun, SL!StartsWith
  <2>9. \E j \in 1 .. Len(stream'[s]) : Ev(s, j)'.sid = sid'[s]
    BY <1>4, <2>3, <2>4
  <2> QED
    BY <2>8, <2>9 DEF HandLinked
<1>7. ASSUME NEW s \in Shards, Apply(s) PROVE HandLinked(s)'
  <2>1. PICK i \in todo[s] :
               /\ Visit(s, i)
               /\ state' = [state EXCEPT ![s] = Update(@, Ev(s, i), <<s, i>>)]
    BY <1>7 DEF Apply, Visit
  <2>2. PICK x \in Sessions : x = sid[s]
    BY <1>3
  <2>3. /\ state'[s] = Update(state[s], Ev(s, i), <<s, i>>) /\ pc[s] = "apply"
        /\ sid'[s] = x /\ UNCHANGED <<stream, table, older>>
    BY <1>1, <1>7, <2>1, <2>2 DEF Apply, TypeOK
  <2>4. Linked(x, state[s], todo[s]) /\ state[s] \in Sums[x]
    BY <1>1, <2>2, <2>3 DEF HandLinked, HandSums
  <2>5. <<s, i>> \in Position /\ (~Crashes => <<s, i>> \notin Range(table[x].log))
    <3>1. table[x].log \in Known
      BY DEF Known
    <3> QED
      BY <1>1, <2>3, <3>1, EventAt, FreshVisit DEF VisitsInStream, SumInv
  <2>6. Linked(x, state'[s], todo'[s])
    <3>1. CASE \E item \in ReadOf(x) : GoesOn(item, state[s], todo[s])
      <4>1. PICK item \in ReadOf(x) : GoesOn(item, state[s], todo[s])
        BY <3>1
      <4>2. item \in State
        BY <1>3 , <4>1 DEF ReadOf
      <4>3. GoesOn(item, Update(state[s], Ev(s, i), <<s, i>>), todo'[s])
        BY <1>3, <2>5, <4>1, <4>2, AppendStarts
      <4> QED
        BY <2>3, <4>1, <4>3 DEF Linked
    <3>2. CASE NextRun(table[x], state[s])
      <4>1. state[s].log # << >>
        BY <2>4, <3>2 DEF Sums, Summary, NextRun
      <4>2. NextRun(table[x], Update(state[s], Ev(s, i), <<s, i>>))
        BY <1>3, <2>5, <3>2, <4>1, AppendNext
      <4> QED
        BY <2>3, <4>2 DEF Linked
    <3> QED
      BY <2>4, <3>1, <3>2 DEF Linked
  <2>7. Linked(sid[s], state[s], todo[s])'
    BY <2>3, <2>6
    DEF Linked, GoesOn, ReadOf, SameRun, SL!StartsWith, NextRun, GapAt, TimeOf, Ev
  <2>8. \E j \in 1 .. Len(stream'[s]) : Ev(s, j)'.sid = sid'[s]
    BY <1>1, <1>4, <2>2, <2>3 DEF HandLinked
  <2> QED
    BY <2>7, <2>8 DEF HandLinked
<1>8. ASSUME NEW s \in Shards, Close(s) PROVE HandLinked(s)'
  <2>1. PICK i \in todo[s] :
               /\ Visit(s, i) /\ IsNewSession(state[s], Ev(s, i))
               /\ state' = [state EXCEPT ![s] = Update(EmptyState, Ev(s, i), <<s, i>>)]
    BY <1>8 DEF Close, Visit
  <2> DEFINE item == Item(Closed(state[s]), now)
             new == Update(EmptyState, Ev(s, i), <<s, i>>)
  <2>2. PICK x \in Sessions : x = sid[s]
    BY <1>3
  <2>3. /\ pc[s] = "apply" /\ UNCHANGED <<stream, sid>> /\ PutItem(x, item)
        /\ state[s] # EmptyState /\ Summary(x, state[s]) /\ state'[s] = new
    BY <1>1, <1>8, <2>1, <2>2 DEF Close, HandSums, Sums, IsNewSession, TypeOK
  <2>4. /\ item.log = state[s].log /\ item.closed /\ table'[x] = item
    <3>1. item.closed /\ item.log = state[s].log
      BY <1>3 DEF Item, Closed, State
    <3> HIDE DEF item
    <3>2. table'[x] = item
      BY <1>1, <2>3 DEF PutItem, TypeOK
    <3> QED
      BY <3>1, <3>2
  <2>5. new.log = <<<<s, i>>>> /\ new # EmptyState
    <3>1. new.log = Append(<< >>, <<s, i>>)
      BY EmptyStateType, LogOfUpdate DEF EmptyState
    <3> HIDE DEF new
    <3> QED
      BY <3>1 DEF EmptyState
  <2>6. ~Crashes => <<s, i>> \notin Range(state[s].log)
    <3>1. state[s].log \in Known
      BY DEF Known
    <3> QED
      BY <1>1, <2>3, <3>1, FreshVisit DEF SumInv
  <2>7. GapAt(item.log[Len(item.log)], new.log[1])
    <3>1. TimeOf(<<s, i>>) = Ev(s, i).time
      BY DEF TimeOf
    <3>2. state[s].last_event_time = TimeOf(state[s].log[Len(state[s].log)])
      BY <2>3 DEF Summary
    <3>3. item.log = state[s].log /\ new.log[1] = <<s, i>>
      BY <2>4, <2>5
    <3>4. IsoTimes /\ Ev(s, i).time - state[s].last_event_time > Timeout
      BY <2>1 DEF IsNewSession
    <3> HIDE DEF item, new
    <3> QED
      BY <3>1, <3>2, <3>3, <3>4 DEF GapAt
  <2>8. Range(new.log) = {<<s, i>>}
    BY <2>5 DEF Range
  <2> HIDE DEF item, new
  <2>9. NextRun(item, new)
    BY <2>4, <2>5, <2>6, <2>7, <2>8 DEF NextRun
  <2>10. Linked(sid[s], state[s], todo[s])'
    BY <2>2, <2>3, <2>4, <2>9 DEF Linked, NextRun, GapAt, TimeOf, Ev
  <2>11. \E j \in 1 .. Len(stream'[s]) : Ev(s, j)'.sid = sid'[s]
    BY <1>1, <1>4, <2>2, <2>3 DEF HandLinked
  <2> QED
    BY <2>10, <2>11 DEF HandLinked
<1>9. ASSUME NEW s \in Shards, ShardStep(s) PROVE HandLinked(s)'
  <2>1. CASE \/ Poll(s) \/ Invoke(s) \/ WriteRaw(s) \/ WriteLate(s) \/ GetFails(s)
             \/ PutFails(s) \/ FinalPut(s)
    <3>1. pc'[s] = "apply" => /\ pc[s] = "apply" /\ todo'[s] = todo[s]
                              /\ state'[s] = state[s] /\ sid'[s] = sid[s]
                              /\ UNCHANGED <<table, older>>
      BY <1>1, <2>1
      DEF Poll, Invoke, WriteRaw, WriteLate, GetFails, PutFails, FinalPut, TypeOK
    <3> QED
      BY <1>5, <3>1
  <2>2. CASE DecodeRaises(s) \/ WriteFails(s) \/ Crash(s) \/ Return(s)
    <3>1. EndInvocation(s)
      BY <2>2 DEF DecodeRaises, WriteFails, Crash, Return, FailBatch
    <3>2. pc'[s] = "idle"
      BY <1>1, <3>1 DEF EndInvocation, TypeOK
    <3> QED
      BY <1>5, <3>2
  <2> QED
    BY <1>6, <1>7, <1>8, <1>9, <2>1, <2>2 DEF ShardStep
<1>10. ASSUME NEW s \in Shards, ShardStep(s), NEW t \in Shards, t # s PROVE HandLinked(t)'
  <2>1. /\ todo'[t] = todo[t] /\ pc'[t] = pc[t]
        /\ state'[t] = state[t] /\ sid'[t] = sid[t]
    BY <1>1, <1>10
    DEF ShardStep, Poll, Invoke, DecodeRaises, WriteRaw, WriteLate, WriteFails, Get,
        GetFails, Apply, Close, FinalPut, PutFails, Return, Crash, FailBatch,
        EndInvocation, TypeOK
  <2>2. \/ UNCHANGED <<table, older>>
        \/ pc[s] = "apply" /\ \E item : PutItem(sid[s], item)
    BY <1>10
    DEF ShardStep, Poll, Invoke, DecodeRaises, WriteRaw, WriteLate, WriteFails, Get,
        GetFails, Apply, Close, FinalPut, PutFails, Return, Crash
  <2>3. ASSUME pc[t] = "apply"
        PROVE  table'[sid[t]] = table[sid[t]] /\ older'[sid[t]] = older[sid[t]]
    <3>1. CASE pc[s] = "apply" /\ \E item : PutItem(sid[s], item)
      <4>1. sid[s] # sid[t]
        BY <1>1, <1>10, <2>3, <3>1, OneHand
      <4> QED
        BY <1>1, <3>1, <4>1 DEF PutItem, TypeOK
    <3> QED
      BY <2>2, <3>1
  <2> QED
    BY <1>5, <2>1, <2>3
<1>11. CASE \E s \in Shards : ShardStep(s)
  BY <1>1, <1>2, <1>9, <1>10, <1>11 DEF RefInv
<1>12. CASE UNCHANGED lambdaVars
            /\ \A x \in Sessions : \/ table'[x] = table[x] /\ older'[x] = older[x]
                                   \/ table'[x] = EmptyState
  <2>1. \A t \in Shards : HandLinked(t)'
    BY <1>3, <1>5, <1>12
  <2> QED
    BY <1>1, <1>2, <2>1 DEF RefInv
<1>13. ASSUME NEW y \in Sessions, TtlDelete(y)
       PROVE  \A x \in Sessions : \/ table'[x] = table[x] /\ older'[x] = older[x]
                                  \/ table'[x] = EmptyState
  BY <1>1, <1>13 DEF TtlDelete, PutItem, TypeOK
<1> QED
  BY <1>11, <1>12, <1>13 DEF Next, Produce, TtlDelete, Tick, vars

----------------------------------------------------------------------------
(* Every step is one of SpeedLayer's                                       *)

LEMMA SameVersions == \A x : SL!Versions(x) = ReadOf(x)
  BY DEF SL!Versions, ReadOf

(* A put: the item goes on from a version of the stored one, or it is the  *)
(* next session.                                                           *)
LEMMA PutRefines ==
  ASSUME RefInv, NEW s \in Shards, pc[s] = "apply", NEW x \in Sessions, x = sid[s],
         state[s] # EmptyState, NEW item \in State, Summary(x, item),
         item.log = state[s].log,
         state[s].expires_at # 0 => item.expires_at = state[s].expires_at,
         PutItem(x, item), UNCHANGED <<stream, now>>
  PROVE  /\ table'[x] = item /\ SL!Write(x, item) /\ SL!Summarises(x, item)
         /\ \/ SL!Begin(x)
            \/ \E old \in SL!Versions(x) :
                 /\ SL!Continues(old, item)
                 /\ \/ old = EmptyState
                    \/ /\ SameRun(old, state[s])
                       /\ todo[s] # {} \/ Len(state[s].log) > Len(old.log)
<1>1. TypeOK /\ LifeInv /\ HandLinked(s)
  BY DEF RefInv, SumInv, LifeInv, TypeInv
<1>2. table'[x] = item /\ table' = [table EXCEPT ![x] = item]
  BY <1>1 DEF PutItem, TypeOK
<1>3. SL!Write(x, item) /\ SL!Summarises(x, item)
  BY <1>2, SummaryIs DEF SL!Write, PutItem
<1>4. item.log \in Seq(Position)
  BY LogOf
<1>5. Linked(x, state[s], todo[s])
  BY <1>1 DEF HandLinked
<1>6. CASE \E old \in ReadOf(x) : GoesOn(old, state[s], todo[s])
  <2>1. PICK old \in ReadOf(x) : GoesOn(old, state[s], todo[s])
    BY <1>6
  <2>2. CASE old = EmptyState
    <3>1. old.log = << >>
      BY <2>2 DEF EmptyState
    <3>2. Len(old.log) <= Len(item.log) /\ 1 .. Len(old.log) = {} /\ old.log \in Seq(Position)
      BY <1>4, <3>1
    <3>3. SL!StartsWith(item.log, old.log)
      BY <1>4, <3>2, Prefix
    <3>4. SL!Continues(old, item)
      BY <2>2, <3>3, SameWords DEF SL!Continues
    <3> QED
      BY <1>2, <1>3, <2>1, <2>2, <3>4, SameVersions
  <2>3. CASE old # EmptyState /\ SameRun(old, state[s])
    <3>1. old.expires_at # 0
      BY <1>1, <2>1, <2>3, VersionExpires
    <3>2. SL!Continues(old, item)
      BY <2>3, <3>1 DEF SL!Continues, SameRun
    <3> QED
      BY <1>2, <1>3, <2>1, <2>3, <3>2, SameVersions DEF GoesOn
  <2> QED
    BY <2>1, <2>2, <2>3 DEF GoesOn
<1>7. CASE NextRun(table[x], state[s])
  <2>1. SL!Gap(table[x].log[Len(table[x].log)], item.log[1])
    BY <1>7 DEF NextRun, GapAt, TimeOf, Ev, SL!Gap, SL!TimeOf, SL!Ev
  <2>2. ~Crashes => SL!Range(item.log) \cap SL!Range(table[x].log) = {}
    BY <1>7, SameWords DEF NextRun
  <2>3. SL!Begin(x)
    BY <1>2, <1>3, <1>7, <2>1, <2>2 DEF SL!Begin, NextRun
  <2> QED
    BY <1>2, <1>3, <2>3
<1> QED
  BY <1>5, <1>6, <1>7 DEF Linked

LEMMA StepRefines ==
  ASSUME RefInv, [Next]_vars
  PROVE  [SL!Next]_SL!vars
<1> USE DEF esmVars, lambdaVars, storeVars
<1>1. TypeOK /\ TypeInv /\ \A t \in Shards : VisitsInStream(t) /\ HandLinked(t) /\ HandSums(t)
  BY DEF RefInv, SumInv, LifeInv, TypeInv
<1>2. ASSUME NEW e \in Events, Produce(e) PROVE SL!Publish
  <2>1. ASSUME NEW s \in Shards PROVE SL!StartsWith(stream'[s], stream[s])
    <3>1. stream[s] \in Seq(Record)
      BY <1>1 DEF TypeOK
    <3>2. e \in Event /\ now \in Nat
      BY <1>1, SessionizerAssumption DEF TypeOK
    <3>3. [ev |-> e, arrival |-> now] \in Record
      BY <3>2 DEF Record
    <3>4. \/ stream'[s] = stream[s]
          \/ stream'[s] = Append(stream[s], [ev |-> e, arrival |-> now])
      BY <1>1, <1>2 DEF Produce, TypeOK
    <3>5. /\ stream'[s] \in Seq(Record) /\ Len(stream[s]) <= Len(stream'[s])
          /\ \A k \in 1 .. Len(stream[s]) : stream'[s][k] = stream[s][k]
      BY <3>1, <3>3, <3>4
    <3> QED
      BY <3>1, <3>5, Prefix
  <2> QED
    BY <1>2, <2>1 DEF Produce, SL!Publish
<1>3. ASSUME NEW s \in Shards, Close(s)
      PROVE  \E x \in Sessions : SL!Close(x) \/ SL!Begin(x)
  <2>1. PICK i \in todo[s] : IsNewSession(state[s], Ev(s, i))
    BY <1>3 DEF Close
  <2> DEFINE item == Item(Closed(state[s]), now)
  <2>2. PICK x \in Sessions : x = sid[s]
    BY <1>1 DEF TypeOK
  <2>3. /\ pc[s] = "apply" /\ PutItem(x, item) /\ UNCHANGED <<stream, now>>
        /\ state[s] # EmptyState /\ state[s] \in State /\ now \in Nat
        /\ Summary(x, state[s])
    BY <1>1, <1>3, <2>1, <2>2 DEF Close, TypeOK, IsNewSession, HandSums, Sums
  <2>4. /\ item \in State /\ Summary(x, item) /\ item.log = state[s].log /\ item.closed
        /\ state[s].expires_at # 0 => item.expires_at = state[s].expires_at
    <3>1. item.closed /\ (state[s].expires_at # 0 => item.expires_at = state[s].expires_at)
      BY <2>3 DEF Item, Closed, State
    <3> QED
      BY <2>3, <3>1, ItemType, SummaryItem, LogOf
  <2> HIDE DEF item
  <2>5. /\ table'[x] = item /\ SL!Write(x, item) /\ SL!Summarises(x, item)
        /\ SL!Begin(x) \/ \E old \in SL!Versions(x) : SL!Continues(old, item)
    BY <2>2, <2>3, <2>4, PutRefines
  <2>6. /\ i \in DOMAIN stream[s] /\ SL!Ev(<<s, i>>).sid = x
        /\ SL!Gap(item.log[Len(item.log)], <<s, i>>)
    <3>1. i \in 1 .. Len(stream[s]) /\ stream[s] \in Seq(Record) /\ Ev(s, i).sid = x
      BY <1>1, <2>2, <2>3 DEF VisitsInStream, TypeOK, HandSums
    <3>2. /\ IsoTimes /\ Ev(s, i).time - state[s].last_event_time > Timeout
          /\ state[s].last_event_time = TimeOf(item.log[Len(item.log)])
      BY <2>1, <2>3, <2>4 DEF IsNewSession, Summary
    <3> QED
      BY <3>1, <3>2 DEF SL!Gap, SL!TimeOf, SL!Ev, TimeOf, Ev
  <2> QED
    BY <2>4, <2>5, <2>6 DEF SL!Close
<1>4. ASSUME NEW s \in Shards, FinalPut(s)
      PROVE  \E x \in Sessions : SL!Extend(x) \/ SL!Begin(x)
  <2> DEFINE item == Item([state[s] EXCEPT !.cart_total = cart[s]], now)
  <2>1. PICK x \in Sessions : x = sid[s]
    BY <1>1 DEF TypeOK
  <2>2. /\ pc[s] = "apply" /\ PutItem(x, item) /\ UNCHANGED <<stream, now>>
        /\ todo[s] = {} /\ state[s] # EmptyState /\ state[s] \in State
        /\ now \in Nat /\ cart[s] \in Nat /\ Summary(x, state[s])
    BY <1>1, <1>4, <2>1 DEF FinalPut, TypeOK, HandSums, Sums, RefInv, SumInv, LifeInv
  <2>3. /\ item \in State /\ Summary(x, item) /\ item.log = state[s].log
        /\ item.closed = state[s].closed
        /\ state[s].expires_at # 0 => item.expires_at = state[s].expires_at
    <3>1. /\ item.closed = state[s].closed
          /\ state[s].expires_at # 0 => item.expires_at = state[s].expires_at
      BY <2>2 DEF Item, State
    <3> QED
      BY <2>2, <3>1, ItemType, SummaryItem, LogOf
  <2> HIDE DEF item
  <2>4. /\ table'[x] = item /\ SL!Write(x, item) /\ SL!Summarises(x, item)
        /\ \/ SL!Begin(x)
           \/ \E old \in SL!Versions(x) :
                /\ SL!Continues(old, item)
                /\ \/ old = EmptyState
                   \/ SameRun(old, state[s]) /\ Len(state[s].log) > Len(old.log)
    BY <2>1, <2>2, <2>3, PutRefines
  <2>5. ASSUME NEW old \in SL!Versions(x), SL!Continues(old, item), old = EmptyState
        PROVE  SL!Extend(x)
    <3>1. Len(old.log) = 0 /\ Len(item.log) > 0
      BY <2>2, <2>3, <2>5 DEF EmptyState, Summary, State
    <3> QED
      BY <2>4, <2>5, <3>1, SameWords DEF SL!Extend
  <2>6. ASSUME NEW old \in SL!Versions(x), SL!Continues(old, item),
               SameRun(old, state[s]), Len(state[s].log) > Len(old.log)
        PROVE  SL!Extend(x)
    BY <2>3, <2>4, <2>6 DEF SL!Extend, SameRun
  <2> QED
    BY <2>4, <2>5, <2>6
<1>5. ASSUME NEW x \in Sessions, TtlDelete(x) PROVE SL!Expire(x)
  BY <1>5, SameWords DEF TtlDelete, PutItem, SL!Expire, SL!Write
<1>6. CASE UNCHANGED <<stream, table, older>> /\ now' \in {now, now + 1}
  <2>1. now \in Nat
    BY <1>1 DEF TypeOK
  <2>2. CASE now' = now
    BY <1>6, <2>2 DEF SL!vars
  <2>3. CASE now' = now + 1
    BY <1>6, <2>1, <2>3 DEF SL!Next, SL!Tick
  <2> QED
    BY <1>6, <2>2, <2>3
<1>7. ASSUME NEW s \in Shards, ShardStep(s)
      PROVE  \/ Close(s) \/ FinalPut(s)
             \/ UNCHANGED <<stream, table, older, now>>
  BY <1>7
  DEF ShardStep, Poll, Invoke, DecodeRaises, WriteRaw, WriteLate, WriteFails, Crash, Get,
      GetFails, Apply, PutFails, Return, FailBatch
<1>8. Tick \/ UNCHANGED vars => UNCHANGED <<stream, table, older>> /\ now' \in {now, now + 1}
  BY DEF Tick, vars
<1> QED
  BY <1>2, <1>3, <1>4, <1>5, <1>6, <1>7, <1>8 DEF Next, SL!Next

(* The table does what SpeedLayer promises, for every feed and through     *)
(* every kill, stale read, retry, bisection, swallowed DynamoDB error and  *)
(* expiry: an item sums up a run of its session's on-time events, no two   *)
(* further apart than the timeout, and goes on from a version of it that   *)
(* could be read, until a gap closes it or it has expired.  Assumed: the   *)
(* records of a session id are in one shard.                               *)
THEOREM SpeedLayerImplemented ==
  ASSUME OneShardEach
  PROVE  Spec => ImplementsSpeedLayer
<1>1. Init => SL!Init
  BY SameWords DEF Init, SL!Init
<1>2. RefInv /\ [Next]_vars => RefInv' /\ [SL!Next]_SL!vars
  BY RefInvStep, StepRefines
<1> QED
  BY <1>1, <1>2, RefInvInit, PTL DEF Spec, ImplementsSpeedLayer, SL!Spec
=============================================================================
