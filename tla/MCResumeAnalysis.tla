---------------------------- MODULE MCResumeAnalysis ----------------------------
(* ResumeAnalysis on small sets of model values. *)
EXTENDS ResumeAnalysis
=============================================================================
