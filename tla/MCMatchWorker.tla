----------------------------- MODULE MCMatchWorker -----------------------------
(* MatchWorker on small sets of model values. *)
EXTENDS MatchWorker

CONSTANTS j1, j2, b1, b2

MCJobEvents == {j1, j2}
MCBootEvents == {b1, b2}
MCEvents == MCJobEvents \cup MCBootEvents
=============================================================================
