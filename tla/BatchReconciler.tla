-------------------------- MODULE BatchReconciler --------------------------
(***************************************************************************)
(* The batch layer: session_stitcher.py recomputes the sessions of a day   *)
(* from the raw archive, late_arrival_handler.py compares them with an     *)
(* export of the session table.  Each job is run by hand or by a schedule, *)
(* for any date, in any order and more than once; a run that dies has      *)
(* already removed the output it was to overwrite.                         *)
(*                                                                         *)
(* A row of the archive is an event and the number of its copy: producers  *)
(* may publish an event again and a batch may be delivered again, and each *)
(* time it is written.  The speed layer is an invocation of the handler at *)
(* a time (Sessionizer has its steps): what it leaves in the archive and   *)
(* in the table, whatever fails in it.  Times are event times that parse;  *)
(* prices and totals are in cents.                                         *)
(***************************************************************************)
EXTENDS Integers, FiniteSets, FiniteSetsExt

CONSTANTS
  Users,
  SessionIds,  \* the session ids of the feed
  Events,      \* what may arrive at the speed layer
  BatchSize,   \* batch_size of the event source mapping
  Timeout,     \* SESSION_TIMEOUT_MINUTES, in ticks
  NumDays,     \* bound on the days
  Dates,       \* bound: those the jobs are run for
  Retried,     \* bound: the events that may arrive again ...
  MaxCopies,   \* ... and how often each may
  Missing      \* stands for data that is not there

Event ==
  [id : Nat, user : Users, sid : SessionIds, time : Nat,
   type : {"view", "cart", "purchase"}, price : Nat, late : BOOLEAN]
Item ==
  [event_count : Nat, cart_total : Nat \cup {Missing}, converted : BOOLEAN,
   last_event_time : Nat]
BatchSession ==
  [batch_session_id : Users \X Nat, user_id : Users, session_start : Nat,
   session_end : Nat, event_count : Nat, cart_total : Nat, conversion_value : Nat,
   converted : BOOLEAN, late_arrival_count : Nat,
   original_session_ids : SUBSET SessionIds]

ASSUME BatchAssumption ==
  /\ Events \subseteq Event
  /\ \A e, f \in Events : e.id = f.id => e = f
  /\ BatchSize \in Nat
  /\ Timeout \in Nat
  /\ NumDays \in Nat \ {0}
  /\ Dates \subseteq 1 .. NumDays
  /\ Retried \subseteq Events
  /\ MaxCopies \in Nat
  /\ Missing \notin SessionIds \cup Nat
  /\ Missing \notin Item /\ Missing \notin BatchSession

Days == 1 .. NumDays

VARIABLES
  today,      \* the date
  archive,    \* per day: the rows written under events/ on that day
  realtime,   \* the session table
  spoiled,    \* history: ids of which the table may have missed something
  corrected,  \* per day: the sessions the stitcher has written
  stitched,   \* history, per day: the rows they were computed from
  exported,   \* per day: the snapshot of the session table
  audit       \* per day: the restatement detail; history: its inputs

jobVars == <<corrected, stitched, exported, audit>>
vars == <<today, archive, realtime, spoiled, jobVars>>

Row == [ev : Event, copy : 0 .. MaxCopies]
AllRows == UNION {archive[d] : d \in Days}

SumOfPrices(type, rows) ==
  MapThenSumSet(LAMBDA r : r.ev.price, {r \in rows : r.ev.type = type})

----------------------------------------------------------------------------
(* The session table                                                       *)

(* No item.  An item has no cart_total until an invocation gets to its     *)
(* end, and no attribute converted until there is a purchase.              *)
NoItem ==
  [event_count |-> 0, cart_total |-> Missing, converted |-> FALSE, last_event_time |-> 0]

(* Mutant of Opens: a gap of exactly the timeout is a boundary.            *)
OpensAtTimeout(item, group, t) ==
  IF \A r \in group : t <= r.ev.time
  THEN item # NoItem /\ t - item.last_event_time >= Timeout
  ELSE \A r \in group : r.ev.time < t => t - r.ev.time >= Timeout

(* is_new_session before the first of the group's events at time t.        *)
Opens(item, group, t) ==
  IF \A r \in group : t <= r.ev.time
  THEN item # NoItem /\ t - item.last_event_time > Timeout
  ELSE \A r \in group : r.ev.time < t => t - r.ev.time > Timeout

Openings(item, group) ==
  {t \in {r.ev.time : r \in group} : Opens(item, group, t)}

(* The group's events, in the order of their times, applied to an item:    *)
(* all of them or, after boundaries, those since the last.                 *)
Applied(item, group) ==
  LET starts == Openings(item, group)
      open == IF starts = {} THEN item ELSE NoItem
      tail == {r \in group : \A t \in starts : t <= r.ev.time}
  IN  [event_count |-> open.event_count + Cardinality(tail),
       cart_total |-> open.cart_total,
       converted |-> open.converted \/ \E r \in tail : r.ev.type = "purchase",
       last_event_time |-> Max({r.ev.time : r \in group})]

(* _process_session; cart_total is that of this batch's events alone.      *)
Folded(item, group) ==
  [Applied(item, group) EXCEPT !.cart_total = SumOfPrices("cart", group)]

(* What _process_session may leave in the table: the item as it was, if it *)
(* fails before its first put, the session closed at a boundary, if it     *)
(* fails after that put, or the session with all of the group applied.     *)
Outcomes(item, group) ==
  IF group = {} THEN {item}
  ELSE {item, Folded(item, group)} \cup
         {Applied(item, before) :
            before \in {{r \in group : r.ev.time < t} : t \in Openings(item, group)} \ {{}}}

----------------------------------------------------------------------------
(* The session stitcher                                                    *)

(* The window is ordered by time; the order of equal times is arbitrary    *)
(* and the result does not depend on it.                                   *)
Before(q, r) ==
  \/ q.ev.time < r.ev.time
  \/ q.ev.time = r.ev.time /\ q.ev.id < r.ev.id
  \/ q.ev.time = r.ev.time /\ q.ev.id = r.ev.id /\ q.copy < r.copy

(* Mutant of IsSessionStart: a gap of exactly the timeout is a boundary.   *)
IsSessionStartAtTimeout(rows, r) ==
  LET earlier == {q \in rows : q.ev.user = r.ev.user /\ Before(q, r)}
  IN  \A q \in earlier :
        (\A p \in earlier : p = q \/ Before(p, q)) => r.ev.time - q.ev.time >= Timeout

(* The lag of the window: a session starts where no row of the user comes  *)
(* before, or the last that does is further away than the timeout.         *)
IsSessionStart(rows, r) ==
  LET earlier == {q \in rows : q.ev.user = r.ev.user /\ Before(q, r)}
  IN  \A q \in earlier :
        (\A p \in earlier : p = q \/ Before(p, q)) => r.ev.time - q.ev.time > Timeout

(* Mutant of UserSessionSeq: the frame ends before the row.                *)
SeqBefore(rows, r) ==
  Cardinality({q \in rows : /\ q.ev.user = r.ev.user
                            /\ q.ev.time < r.ev.time
                            /\ IsSessionStart(rows, q)})

(* The running sum over the window, whose frame takes in equal times.      *)
UserSessionSeq(rows, r) ==
  Cardinality({q \in rows : /\ q.ev.user = r.ev.user
                            /\ q.ev.time <= r.ev.time
                            /\ IsSessionStart(rows, q)})

(* Mutant of BatchSessionId: the counter runs over all users.              *)
SeqOnly(rows, r) == <<"user", UserSessionSeq(rows, r)>>

BatchSessionId(rows, r) == <<r.ev.user, UserSessionSeq(rows, r)>>

Session(id, rows) ==
  [batch_session_id |-> id,
   user_id |-> id[1],
   session_start |-> Min({r.ev.time : r \in rows}),
   session_end |-> Max({r.ev.time : r \in rows}),
   event_count |-> Cardinality(rows),
   cart_total |-> SumOfPrices("cart", rows),
   conversion_value |-> SumOfPrices("purchase", rows),
   converted |-> \E r \in rows : r.ev.type = "purchase",
   late_arrival_count |-> Cardinality({r \in rows : r.ev.late}),
   original_session_ids |-> {r.ev.sid : r \in rows}]

Sessions(rows) ==
  {Session(id, {r \in rows : BatchSessionId(rows, r) = id}) :
     id \in {BatchSessionId(rows, r) : r \in rows}}

----------------------------------------------------------------------------
(* The late-arrival handler                                                *)

Stored(items) == {x \in SessionIds : items[x].event_count > 0}

(* One row per batch session and original id, and one per stored session   *)
(* that is in no batch session.                                            *)
Joined(sessions, items) ==
  {[session_id |-> p[2], batch |-> p[1],
    rt |-> IF p[2] \in Stored(items) THEN items[p[2]] ELSE Missing] :
     p \in {q \in sessions \X SessionIds : q[2] \in q[1].original_session_ids}}
  \cup
  {[session_id |-> x, batch |-> Missing, rt |-> items[x]] :
     x \in {y \in Stored(items) : \A s \in sessions : y \notin s.original_session_ids}}

Total(side) == IF side = Missing \/ side.cart_total = Missing THEN 0 ELSE side.cart_total
Count(side) == IF side = Missing THEN 0 ELSE side.event_count

(* The difference is rounded to cents, and one cent is no restatement.     *)
RevenueDiffers(j) == Total(j.batch) - Total(j.rt) \notin -1 .. 1

(* NULL compares as neither equal nor different.                           *)
ConversionFlipped(j) ==
  j.batch # Missing /\ j.rt # Missing /\ j.rt.converted /\ ~j.batch.converted

(* Mutant of RestatementType: conversions are not compared.                *)
RestatementTypeNoFlip(j) ==
  IF j.session_id = Missing THEN "new_in_batch"
  ELSE IF j.rt = Missing \/ j.rt.cart_total = Missing THEN "missing_in_realtime"
  ELSE IF RevenueDiffers(j) THEN "revenue_restatement"
  ELSE IF Count(j.batch) # Count(j.rt) THEN "event_count_restatement"
  ELSE "no_restatement"

(* The first of the conditions that holds.                                 *)
RestatementType(j) ==
  IF j.session_id = Missing THEN "new_in_batch"
  ELSE IF j.rt = Missing \/ j.rt.cart_total = Missing THEN "missing_in_realtime"
  ELSE IF RevenueDiffers(j) THEN "revenue_restatement"
  ELSE IF Count(j.batch) # Count(j.rt) THEN "event_count_restatement"
  ELSE IF ConversionFlipped(j) THEN "conversion_flip"
  ELSE "no_restatement"

Deltas(sessions, items) ==
  {[of |-> j, type |-> RestatementType(j)] : j \in Joined(sessions, items)}

Counted(detail, type) == Cardinality({a \in detail : a.type = type})

(* compute_aggregate_stats                                                 *)
Summary(detail) ==
  [total_sessions_compared |-> Cardinality(detail),
   sessions_restated |-> Cardinality(detail) - Counted(detail, "no_restatement"),
   conversion_flips |-> Counted(detail, "conversion_flip"),
   new_sessions_in_batch |-> Counted(detail, "new_in_batch")]

----------------------------------------------------------------------------
Init ==
  /\ today = 1
  /\ archive = [d \in Days |-> {}]
  /\ realtime = [x \in SessionIds |-> NoItem]
  /\ spoiled = {}
  /\ corrected = [d \in Days |-> Missing]
  /\ stitched = [d \in Days |-> {}]
  /\ exported = [d \in Days |-> Missing]
  /\ audit = [d \in Days |-> Missing]

(* The on-time events of a session in a batch.                             *)
Group(batch, x) == {r \in batch : r.ev.sid = x /\ ~r.ev.late}

(* The records that may be delivered: of events that were not yet, or that *)
(* are published or delivered again.                                       *)
Arriving ==
  {r \in [ev : Events, copy : 0 .. MaxCopies] :
     /\ r \notin AllRows
     /\ r.copy > 0 => r.ev \in Retried /\ [r EXCEPT !.copy = @ - 1] \in AllRows}

(* The table may have missed an event of x, or seen it out of order.       *)
Spoils(batch, stored, x) ==
  LET group == Group(batch, x)
  IN  \/ \E r \in batch : r.ev.sid = x /\ r.ev.late
      \/ /\ group # {}
         /\ \/ stored[x] # Folded(realtime[x], group)
            \/ \E r \in group : r.ev.time < realtime[x].last_event_time

(* An invocation of the handler: all of the batch is archived, and each of *)
(* its sessions may or may not get as far as the table.  A batch whose     *)
(* invocation failed may be delivered again, whole or in parts.            *)
Handle(batch) ==
  /\ batch # {} /\ IsFiniteSet(batch) /\ Cardinality(batch) <= BatchSize
  /\ archive' = [archive EXCEPT ![today] = @ \cup batch]
  /\ \E stored \in [SessionIds -> UNION {Outcomes(realtime[x], Group(batch, x)) : x \in SessionIds}] :
       /\ \A x \in SessionIds : stored[x] \in Outcomes(realtime[x], Group(batch, x))
       /\ realtime' = stored
       /\ spoiled' = spoiled \cup {x \in SessionIds : Spoils(batch, stored, x)}
  /\ UNCHANGED <<today, jobVars>>

(* DynamoDB deletes an expired item.                                       *)
Expire(x) ==
  /\ realtime[x] # NoItem
  /\ realtime' = [realtime EXCEPT ![x] = NoItem]
  /\ spoiled' = spoiled \cup {x}
  /\ UNCHANGED <<today, archive, jobVars>>

Midnight ==
  /\ today < NumDays
  /\ today' = today + 1
  /\ UNCHANGED <<archive, realtime, spoiled, jobVars>>

(* session_stitcher.py; a day without a partition cannot be read.          *)
Stitch(d) ==
  /\ archive[d] # {}
  /\ corrected' = [corrected EXCEPT ![d] = Sessions(archive[d])]
  /\ stitched' = [stitched EXCEPT ![d] = archive[d]]
  /\ UNCHANGED <<today, archive, realtime, spoiled, exported, audit>>

StitchDies(d) ==
  /\ archive[d] # {}
  /\ corrected' = [corrected EXCEPT ![d] = Missing]
  /\ stitched' = [stitched EXCEPT ![d] = {}]
  /\ UNCHANGED <<today, archive, realtime, spoiled, exported, audit>>

(* Mutant of Export: session ids without an item are left out.             *)
ExportStored(d) ==
  /\ exported' = [exported EXCEPT ![d] = [x \in Stored(realtime) |-> realtime[x]]]
  /\ UNCHANGED <<today, archive, realtime, spoiled, corrected, stitched, audit>>

(* export_dynamodb_snapshot.sh: the whole table, under the date given.     *)
Export(d) ==
  /\ exported' = [exported EXCEPT ![d] = realtime]
  /\ UNCHANGED <<today, archive, realtime, spoiled, corrected, stitched, audit>>

(* late_arrival_handler.py: both inputs must be there.                     *)
Audit(d) ==
  /\ corrected[d] # Missing
  /\ exported[d] # Missing
  /\ audit' = [audit EXCEPT ![d] =
                 [detail |-> Deltas(corrected[d], exported[d]),
                  rows |-> stitched[d], items |-> exported[d]]]
  /\ UNCHANGED <<today, archive, realtime, spoiled, corrected, stitched, exported>>

AuditDies(d) ==
  /\ corrected[d] # Missing
  /\ exported[d] # Missing
  /\ audit' = [audit EXCEPT ![d] = Missing]
  /\ UNCHANGED <<today, archive, realtime, spoiled, corrected, stitched, exported>>

Next ==
  \/ \E batch \in SUBSET Arriving : Handle(batch)
  \/ \E x \in SessionIds : Expire(x)
  \/ Midnight
  \/ \E d \in Dates : d <= today /\ (Stitch(d) \/ StitchDies(d) \/ Export(d)
                                       \/ Audit(d) \/ AuditDies(d))

Spec == Init /\ [][Next]_vars

----------------------------------------------------------------------------
(* Properties                                                              *)

Written == {d \in Days : corrected[d] # Missing}

(* Every variable has its type.                                            *)
TypeOK ==
  /\ today \in Days
  /\ archive \in [Days -> SUBSET Row]
  /\ realtime \in [SessionIds -> Item]
  /\ spoiled \subseteq SessionIds
  /\ stitched \in [Days -> SUBSET Row]
  /\ DOMAIN corrected = Days /\ \A d \in Written : corrected[d] \subseteq BatchSession
  /\ exported \in [Days -> [SessionIds -> Item] \cup {Missing}]
  /\ DOMAIN audit = Days
  /\ \A d \in Days : audit[d] # Missing =>
       /\ audit[d].rows \subseteq Row
       /\ audit[d].items \in [SessionIds -> Item]
       /\ \A x \in audit[d].detail :
            x.type \in {"missing_in_realtime", "revenue_restatement",
                       "event_count_restatement", "conversion_flip", "no_restatement"}

Within(r, s) ==
  r.ev.user = s.user_id /\ r.ev.time \in s.session_start .. s.session_end

(* Every row of a stitched day is within exactly one session of its user,  *)
(* and each session counts the rows within it: no row is lost or counted   *)
(* for two sessions by the window functions.                               *)
RowsPartitioned ==
  \A d \in Written :
    /\ \A r \in stitched[d] : \E s \in corrected[d] : Within(r, s)
    /\ \A s \in corrected[d] :
         s.event_count = Cardinality({r \in stitched[d] : Within(r, s)})
    /\ MapThenSumSet(LAMBDA s : s.event_count, corrected[d]) = Cardinality(stitched[d])

(* The sessions are those of the definition, the coarsest split at the     *)
(* gaps of a user's times: no gap within one is longer than the timeout    *)
(* and every gap between two is.                                           *)
NoGapWithin ==
  \A d \in Written : \A s \in corrected[d] :
    LET times == {r.ev.time : r \in {q \in stitched[d] : q.ev.user = s.user_id}}
    IN  \A t \in s.session_start .. (s.session_end - Timeout - 1) :
          t \in times => \E u \in (t + 1) .. (t + Timeout) : u \in times

SessionPairsApart(these, those) ==
  \A s \in these, t \in those :
    s # t /\ s.user_id = t.user_id =>
      \/ s.session_end + Timeout < t.session_start
      \/ t.session_end + Timeout < s.session_start

(* ... and any two of a day are further apart than the timeout.            *)
SessionsApart == \A d \in Written : SessionPairsApart(corrected[d], corrected[d])

(* An audit keeps nothing from sight: every archived event is in a row of  *)
(* the audit that reports a difference, or in one that is right to report  *)
(* none, where the user's events in that span are as many as the speed     *)
(* layer has counted, with its cart total up to a cent and with a purchase *)
(* if it shows one; and a stored session of which there is no event is     *)
(* reported.                                                               *)
Agrees(rows, items, a) ==
  LET own == {r \in rows : Within(r, a.of.batch)}
      item == items[a.of.session_id]
  IN  /\ item.event_count = Cardinality(own)
      /\ SumOfPrices("cart", own) - item.cart_total \in -1 .. 1
      /\ item.converted => \E r \in own : r.ev.type = "purchase"
NothingHidden ==
  \A d \in Days : audit[d] # Missing =>
    /\ \A r \in audit[d].rows : \E a \in audit[d].detail :
         /\ a.of.session_id = r.ev.sid
         /\ a.of.batch # Missing /\ Within(r, a.of.batch)
         /\ a.type = "no_restatement" => Agrees(audit[d].rows, audit[d].items, a)
    /\ \A x \in Stored(audit[d].items) :
         (\A r \in audit[d].rows : r.ev.sid # x) =>
           \E a \in audit[d].detail :
             a.of.session_id = x /\ a.type # "no_restatement"

(* What the batch layer corrects: where all of a session came on time, in  *)
(* order and to the table, the two layers differ in nothing but the cart   *)
(* total, which is too low if at all, as long as the stitcher finds no     *)
(* other sessions of the id or other ids in the session.                   *)
ForItself(x, sessions) ==
  \E s \in sessions :
    /\ s.original_session_ids = {x}
    /\ \A t \in sessions : x \in t.original_session_ids => t = s
OnlyCartsRestated ==
  \A d \in Days :
    audit[d] # Missing /\ audit[d].rows = AllRows /\ audit[d].items = realtime =>
      \A a \in audit[d].detail :
        a.of.session_id \notin spoiled /\ ForItself(a.of.session_id, Sessions(AllRows)) =>
          /\ a.of.batch # Missing /\ a.of.rt # Missing
          /\ a.of.rt.event_count = a.of.batch.event_count
          /\ a.of.rt.converted = a.of.batch.converted
          /\ a.of.rt.cart_total <= a.of.batch.cart_total

(* What the repository says and the code does not do.                      *)

(* sessionize(): batch_session_id is a stable id, so that another run      *)
(* gives a session with the same start the same id.                        *)
StableIds ==
  [][\A d \in Days : corrected[d] # Missing /\ corrected'[d] # Missing =>
       \A s \in corrected[d], t \in corrected'[d] :
         s.user_id = t.user_id /\ s.session_start = t.session_start
           => s.batch_session_id = t.batch_session_id]_vars

(* The batch layer has the correct view of every session: what midnight    *)
(* divides is one session all the same.                                    *)
SessionsApartAcrossDays ==
  \A c, d \in Written : c # d => SessionPairsApart(corrected[c], corrected[d])

(* late_arrival_injector.py: without late arrivals the speed layer would   *)
(* always be correct.                                                      *)
AccurateWithoutLate ==
  \A d \in Days :
    audit[d] # Missing /\ audit[d].rows = AllRows /\ audit[d].items = realtime
      /\ spoiled = {} =>
        \A a \in audit[d].detail : a.type = "no_restatement"

(* test_spark.py, local_report.py: a session whose purchase the speed      *)
(* layer missed, with the cart total unchanged, is a conversion flip.      *)
PurchaseMissed(j) ==
  /\ j.batch # Missing /\ j.rt # Missing
  /\ j.batch.cart_total = j.rt.cart_total
  /\ j.batch.converted
  /\ ~j.rt.converted
FlipsReported ==
  \A d \in Days : audit[d] # Missing =>
    \A a \in audit[d].detail : PurchaseMissed(a.of) => a.type = "conversion_flip"

(* The batch layer is the ground truth: it counts an event once.           *)
EachEventCountedOnce ==
  \A d \in Written :
    MapThenSumSet(LAMBDA s : s.event_count, corrected[d])
      = Cardinality({r.ev : r \in stitched[d]})

(* The summary counts the sessions that are new in the batch layer.        *)
NewSessionsReported ==
  \A d \in Days : audit[d] # Missing =>
    Summary(audit[d].detail).new_sessions_in_batch
      = Cardinality({a \in audit[d].detail : a.of.rt = Missing})
============================================================================
