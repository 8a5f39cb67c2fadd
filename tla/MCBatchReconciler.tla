------------------------- MODULE MCBatchReconciler -------------------------
(* Small feeds, with a session timeout of 2 ticks.                         *)
EXTENDS BatchReconciler

CONSTANTS u1, u2, a, b

View(n, u, x, t) ==
  [id |-> n, user |-> u, sid |-> x, time |-> t, type |-> "view", price |-> 0,
   late |-> FALSE]
Cart(n, u, x, t) == [View(n, u, x, t) EXCEPT !.type = "cart", !.price = 1]
Purchase(n, u, x, t) == [View(n, u, x, t) EXCEPT !.type = "purchase", !.price = 5]
Late(e) == [e EXCEPT !.late = TRUE]

(* One user: a gap of exactly the timeout and a longer one, bridged by a   *)
(* late event; in between another user's late event.                       *)
GapFeed ==
  {Purchase(1, u1, a, 0), Cart(2, u1, a, 2), Late(View(3, u1, a, 4)), Cart(4, u1, a, 5),
   Late(View(5, u2, b, 1))}

FirstOfGapFeed == {Purchase(1, u1, a, 0)}

(* A session whose purchase comes late.                                    *)
LatePurchaseFeed == {View(1, u1, a, 0), Late(Purchase(2, u1, a, 2))}

(* An earlier session of the user of which all that comes is late.         *)
LateSessionFeed == {View(1, u1, a, 5), Late(Purchase(2, u1, b, 0))}

(* One user with two session ids one tick apart.                           *)
TwoIdsFeed == {Cart(1, u1, a, 0), View(2, u1, b, 1)}
============================================================================
