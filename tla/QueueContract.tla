----------------------------- MODULE QueueContract -----------------------------
(***************************************************************************)
(* What the durable queue promises the rest of the system: an event is     *)
(* accepted once, tried until it is finished or its attempts are spent,    *)
(* and never comes back after that, unless a finished event is forgotten.  *)
(***************************************************************************)
EXTENDS Integers

CONSTANTS
  Events, MaxAttempts, AttemptCap,
  Forgetting   \* whether finished events are ever cleaned up

VARIABLES
  phase,   \* per event: unknown, accepted, finished or parked
  tries    \* per event: the attempts made, saturating at AttemptCap

vars == <<phase, tries>>

Init ==
  /\ phase = [e \in Events |-> "unknown"]
  /\ tries = [e \in Events |-> 0]

Accept(e) ==
  /\ phase[e] = "unknown"
  /\ phase' = [phase EXCEPT ![e] = "accepted"]
  /\ UNCHANGED tries

Try(e) ==
  /\ phase[e] = "accepted"
  /\ tries' = [tries EXCEPT ![e] = IF @ = AttemptCap THEN @ ELSE @ + 1]
  /\ UNCHANGED phase

Finish(e) ==
  /\ phase[e] = "accepted"
  /\ tries[e] > 0
  /\ phase' = [phase EXCEPT ![e] = "finished"]
  /\ UNCHANGED tries

Park(e) ==
  /\ phase[e] = "accepted"
  /\ tries[e] >= MaxAttempts
  /\ phase' = [phase EXCEPT ![e] = "parked"]
  /\ UNCHANGED tries

\* Only what is finished is ever forgotten: an accepted or a parked event is kept.
Forget ==
  /\ Forgetting
  /\ \E gone \in SUBSET {e \in Events : phase[e] = "finished"} :
       /\ gone # {}
       /\ phase' = [e \in Events |-> IF e \in gone THEN "unknown" ELSE phase[e]]
       /\ tries' = [e \in Events |-> IF e \in gone THEN 0 ELSE tries[e]]

Next ==
  \/ \E e \in Events : Accept(e) \/ Try(e) \/ Finish(e) \/ Park(e)
  \/ Forget

Spec == Init /\ [][Next]_vars
=============================================================================
