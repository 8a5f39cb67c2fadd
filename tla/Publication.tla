---------------------------- MODULE Publication ----------------------------
(***************************************************************************)
(* What one call of publish_batch promises its caller, without chunks,     *)
(* attempts or replies: events of the batch appear in the stream, none     *)
(* leaves it and nothing else is added; the call returns a summary in      *)
(* which sent counts events that are in the stream and failed all the      *)
(* others that could be sent, or it raises and says nothing of what it     *)
(* has delivered.  Simulator relies on this and on no more.                *)
(***************************************************************************)
EXTENDS Integers, FiniteSets

CONSTANT Sendable  \* the events of the batch that are not too large

VARIABLES
  status,     \* "running", "returned" or "raised"
  delivered,  \* the events of the batch that are in the stream
  summary     \* what the call has returned, all zero before

vars == <<status, delivered, summary>>

NoSummary == [sent |-> 0, failed |-> 0]

SummaryOf(acknowledged) ==
  [sent |-> Cardinality(acknowledged),
   failed |-> Cardinality(Sendable \ acknowledged)]

Init ==
  /\ status = "running"
  /\ delivered = {}
  /\ summary = NoSummary

Deliver ==
  /\ status = "running"
  /\ delivered \subseteq delivered'
  /\ delivered' \subseteq Sendable
  /\ UNCHANGED <<status, summary>>

(* An event whose reply was lost may be in the stream and count as failed. *)
Return ==
  /\ status = "running"
  /\ status' = "returned"
  /\ \E acknowledged \in SUBSET delivered : summary' = SummaryOf(acknowledged)
  /\ UNCHANGED delivered

Raise ==
  /\ status = "running"
  /\ status' = "raised"
  /\ UNCHANGED <<delivered, summary>>

Next == Deliver \/ Return \/ Raise

Spec == Init /\ [][Next]_vars
============================================================================
