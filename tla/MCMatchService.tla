---------------------------- MODULE MCMatchService ----------------------------
(* MatchService on two candidates and one or two jobs. *)
EXTENDS MatchService
=============================================================================
