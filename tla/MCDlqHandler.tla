---------------------------- MODULE MCDlqHandler ----------------------------
(* Two messages: one with its two records embedded, and one as Lambda      *)
(* sends it, which names its record and does not hold it.                  *)
EXTENDS DlqHandler, TLC

CONSTANTS m1, m2, r1, r2, r3

Named == (m1 :> {r1, r2}) @@ (m2 :> {r3})
Found == (m1 :> {r1, r2}) @@ (m2 :> {})
=============================================================================
