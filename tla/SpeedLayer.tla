---------------------------- MODULE SpeedLayer ----------------------------
(***************************************************************************)
(* What the speed layer promises of its table, without invocations,        *)
(* batches or retries: an item is at every moment the summary of a run of  *)
(* on-time events of its session, no two of them further apart than the    *)
(* timeout; it only grows, until a gap closes it and a new run begins      *)
(* under the same key, or until it has expired.                            *)
(*                                                                         *)
(* Two faults weaken the promise.  If reads may be stale, an item may grow *)
(* from what it was one write before, so that the last update is lost.  If *)
(* invocations are killed, a run may hold an event more than once.         *)
(***************************************************************************)
EXTENDS SessionLogic, Functions

CONSTANTS
  Sessions,
  StaleReads,   \* may get_item miss the last write?
  Crashes       \* are invocations killed?

VARIABLES
  stream,   \* per shard: the records published so far
  table,    \* the session items
  older,    \* what each item was before its last write
  now       \* the wall clock

vars == <<stream, table, older, now>>

Ev(p) == stream[p[1]][p[2]].ev
TimeOf(p) == Ev(p).time

Gap(p, q) == IsoTimes /\ TimeOf(q) - TimeOf(p) > Timeout

(* The item is the summary of its log.                                     *)
Summarises(x, item) ==
  LET log == item.log
      n == Len(log)
  IN  /\ n > 0
      /\ ~Crashes => IsInjective(log)
      /\ \A p \in Range(log) : Ev(p).sid = x /\ Ev(p).kind = "event" /\ ~Ev(p).late
      /\ \A i \in 2 .. n : ~Gap(log[i - 1], log[i])
      /\ item.event_count = n
      /\ item.session_start = TimeOf(log[1])
      /\ item.last_event_time = TimeOf(log[n])
      /\ item.converted = \E p \in Range(log) : Ev(p).type = "purchase"

StartsWith(long, short) ==
  /\ Len(short) <= Len(long)
  /\ SubSeq(long, 1, Len(short)) = short

(* The new item continues the old one, or is the first.                    *)
Continues(old, new) ==
  /\ StartsWith(new.log, old.log)
  /\ old # EmptyState => new.expires_at = old.expires_at

Publish ==
  /\ \A s \in Shards : StartsWith(stream'[s], stream[s])
  /\ UNCHANGED <<table, older, now>>

Tick ==
  /\ now' > now
  /\ UNCHANGED <<stream, table, older>>

(* The versions of an item that a read may return.                         *)
Versions(x) == {table[x]} \cup (IF StaleReads THEN {older[x]} ELSE {})

Write(x, item) ==
  /\ table' = [table EXCEPT ![x] = item]
  /\ older' = IF StaleReads THEN [older EXCEPT ![x] = table[x]] ELSE older
  /\ UNCHANGED <<stream, now>>

Extend(x) ==
  LET item == table'[x]
  IN  /\ Write(x, item)
      /\ Summarises(x, item)
      /\ \E old \in Versions(x) :
           /\ Continues(old, item)
           /\ Len(item.log) > Len(old.log)
           /\ old # EmptyState => item.closed = old.closed

(* A session is closed only because a later event of it is too far off.    *)
Close(x) ==
  LET item == table'[x]
  IN  /\ Write(x, item)
      /\ Summarises(x, item)
      /\ \E old \in Versions(x) : Continues(old, item)
      /\ item.closed
      /\ \E s \in Shards : \E i \in DOMAIN stream[s] :
           Ev(<<s, i>>).sid = x /\ Gap(item.log[Len(item.log)], <<s, i>>)

(* The next session: it takes the key of a closed one, across a gap.       *)
Begin(x) ==
  LET item == table'[x]
  IN  /\ table[x].closed
      /\ Write(x, item)
      /\ Summarises(x, item)
      /\ Gap(table[x].log[Len(table[x].log)], item.log[1])
      /\ ~Crashes => Range(item.log) \cap Range(table[x].log) = {}

(* DynamoDB deletes what has expired, and nothing else is ever deleted.    *)
Expire(x) ==
  /\ table[x] # EmptyState
  /\ table[x].expires_at <= now
  /\ Write(x, EmptyState)

Init ==
  /\ stream = [s \in Shards |-> << >>]
  /\ table = [x \in Sessions |-> EmptyState]
  /\ older = [x \in Sessions |-> EmptyState]
  /\ now = 0

Next ==
  \/ Publish
  \/ Tick
  \/ \E x \in Sessions : Extend(x) \/ Close(x) \/ Begin(x) \/ Expire(x)

Spec == Init /\ [][Next]_vars
===========================================================================
