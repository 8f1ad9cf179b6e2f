---------------------------- MODULE QueueRowsProofs ----------------------------
(* What every transaction on a row of work_queue keeps, for all parameters. *)
EXTENDS QueueRows, TLAPS

\* Every transaction on a row yields a row.
LEMMA RowTypes ==
  /\ NoRow \in Row /\ FreshRow \in Row
  /\ \A r \in Row, w \in Workers : Claimed(r, w) \in Row
  /\ \A r \in Row :
       /\ Released(r) \in Row /\ Acknowledged(r) \in Row /\ Retried(r) \in Row
       /\ Renewed(r) \in Row /\ Aged(r) \in Row
<1>1. NoRow \in Row /\ FreshRow \in Row
  BY TimesAssumption, AttemptsAssumption
  DEF NoRow, FreshRow, Row, RowStates
<1>2. ASSUME NEW r \in Row, NEW w \in Workers PROVE Claimed(r, w) \in Row
  <2>1. (IF r.attempts = AttemptCap THEN r.attempts ELSE r.attempts + 1) \in 0..AttemptCap
    BY AttemptsAssumption DEF Row
  <2>2. Lease \in 0..Lease
    BY TimesAssumption
  <2> QED
    BY <2>1, <2>2 DEF Claimed, Row, RowStates
<1>3. ASSUME NEW r \in Row PROVE Released(r) \in Row
  <2>1. 0 \in 0..Lease /\ Nobody \in Workers \cup {Nobody}
    BY TimesAssumption
  <2> QED
    BY <2>1 DEF Released, Row
<1>4. ASSUME NEW r \in Row PROVE Acknowledged(r) \in Row /\ Retried(r) \in Row
  <2>1. Released(r) \in Row /\ Backoff \in 0..Backoff
    BY <1>3, TimesAssumption
  <2>2. Acknowledged(r) \in Row
    BY <2>1 DEF Acknowledged, Row, RowStates
  <2>3. Retried(r) \in Row
    BY <2>1 DEF Retried, Row, RowStates
  <2> QED
    BY <2>2, <2>3
<1>5. ASSUME NEW r \in Row PROVE Renewed(r) \in Row
  BY TimesAssumption DEF Renewed, Row, RowStates
<1>6. ASSUME NEW r \in Row PROVE Aged(r) \in Row
  <2>1. OneLess(r.wait) \in 0..Backoff /\ OneLess(r.lease) \in 0..Lease
    BY TimesAssumption DEF OneLess, Row
  <2> QED
    BY <2>1 DEF Aged, Row, RowStates
<1> QED
  BY <1>1, <1>2, <1>3, <1>4, <1>5, <1>6
=============================================================================
