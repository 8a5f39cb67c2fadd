--------------------------- MODULE SessionLogic ---------------------------
(***************************************************************************)
(* The pure part of the Lambda sessionizer: the inactivity rule and the    *)
(* state update of session_state.py, the cart arithmetic of                *)
(* cart_calculator.py and the item that dynamodb_client.py stores.         *)
(*                                                                         *)
(* A session state is the dict the handler passes around and the item      *)
(* DynamoDB returns.  The dict {} (and a missing item) is EmptyState.      *)
(* Event times are the strings of the feed, abstracted to numbers that     *)
(* compare as the strings do; whether datetime.fromisoformat can read them *)
(* is the constant IsoTimes (the REES46 feed's "... UTC" it cannot).       *)
(***************************************************************************)
EXTENDS Integers, Sequences

CONSTANTS
  Timeout,    \* SESSION_TIMEOUT_MINUTES, in ticks of event time
  TtlTicks,   \* ttl_hours, in ticks of the wall clock
  IsoTimes,   \* can event_time be parsed?
  Shards      \* the shards of the stream

ASSUME LogicAssumption ==
  /\ Timeout \in Nat
  /\ TtlTicks \in Nat \ {0}
  /\ IsoTimes \in BOOLEAN

(* Where a record stands in the stream: its shard and its offset.          *)
Position == Shards \X Nat

EventTypes == {"view", "cart", "purchase"}

(* The fields of a session state.  log is a history field: the positions   *)
(* of the events folded into the state, in the order they were folded.     *)
State ==
  [event_count : Nat, last_event_time : Nat, session_start : Nat,
   converted : BOOLEAN, cart_total : Nat, closed : BOOLEAN,
   expires_at : Nat, log : Seq(Position)]

EmptyState ==
  [event_count |-> 0, last_event_time |-> 0, session_start |-> 0,
   converted |-> FALSE, cart_total |-> 0, closed |-> FALSE,
   expires_at |-> 0, log |-> << >>]

(* Only a dict with a last_event_time has a gap to measure, and every      *)
(* non-empty one has it; a time that cannot be parsed is no boundary.      *)
IsNewSession(s, e) ==
  /\ s # EmptyState
  /\ IsoTimes
  /\ e.time - s.last_event_time > Timeout

Update(s, e, p) ==
  [s EXCEPT !.event_count     = @ + 1,
            !.last_event_time = e.time,
            !.session_start   = IF s = EmptyState THEN e.time ELSE @,
            !.converted       = @ \/ e.type = "purchase",
            !.log             = Append(@, p)]

CartStep(total, e) == IF e.type = "cart" THEN total + e.price ELSE total

(* put_session: a fresh expiry unless the dict already carries one, which  *)
(* it does as soon as it was read from the table.                          *)
Item(s, now) == [s EXCEPT !.expires_at = IF @ = 0 THEN now + TtlTicks ELSE @]

Closed(s) == [s EXCEPT !.closed = TRUE]
===========================================================================
