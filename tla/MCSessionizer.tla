--------------------------- MODULE MCSessionizer ---------------------------
(***************************************************************************)
(* Small instances of Sessionizer: who publishes what.  Times are in ticks *)
(* of event time with a session timeout of 3.                              *)
(***************************************************************************)
EXTENDS Sessionizer, TLC

CONSTANTS u1, u2, a, b, s1, s2

OneShard == [u \in Users |-> s1]
OwnShard == (u1 :> s1) @@ (u2 :> s2)

View(n, u, x, t) ==
  [id |-> n, user |-> u, sid |-> x, time |-> t, type |-> "view", price |-> 0,
   late |-> FALSE, kind |-> "event"]
Cart(n, u, x, t) == [View(n, u, x, t) EXCEPT !.type = "cart", !.price = 1]
Late(n, u, x, t) == [View(n, u, x, t) EXCEPT !.late = TRUE]

(* One user's session: two events, then one after a long pause, and a late *)
(* arrival of the first session.                                           *)
PauseFeed ==
  {Cart(1, u1, a, 0), View(2, u1, a, 2), View(3, u1, a, 7), Late(4, u1, a, 1)}

(* The shortest of that kind: a session, a pause, and a late arrival.      *)
LateFeed == {Cart(1, u1, a, 0), View(2, u1, a, 7), Late(3, u1, a, 1)}

(* Two events of a session and one after a pause, and a second user with a *)
(* session and a shard of its own.                                         *)
TwoUserFeed ==
  {Cart(1, u1, a, 0), View(2, u1, a, 2), View(3, u1, a, 7), View(4, u2, b, 0)}

(* A session closed by a pause, a record that does not decode and one that *)
(* breaks the handler.                                                     *)
PoisonFeed ==
  {Cart(1, u1, a, 0), View(2, u1, a, 7),
   [View(3, u1, a, 7) EXCEPT !.kind = "malformed"],
   [View(4, u1, a, 8) EXCEPT !.kind = "poison"]}
============================================================================
