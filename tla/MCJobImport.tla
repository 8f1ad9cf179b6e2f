----------------------------- MODULE MCJobImport -----------------------------
(* JobImport on small sets of model values. *)
EXTENDS JobImport, TLC

Symmetry == Permutations(Imports) \cup Permutations(Closings) \cup Permutations(Texts)
=============================================================================
