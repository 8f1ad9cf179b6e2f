------------------------------ MODULE MCWorkQueue ------------------------------
(* WorkQueue on small sets of model values. *)
EXTENDS WorkQueue, TLC

Symmetry == Permutations(Workers) \cup Permutations(Events) \cup Permutations(Producers)
=============================================================================
