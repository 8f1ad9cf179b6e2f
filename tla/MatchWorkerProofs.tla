-------------------------- MODULE MatchWorkerProofs --------------------------
(***************************************************************************)
(* Proofs about WorkQueue, for every set of events, workers and producers, *)
(* every lease, backoff and attempt budget, and about MatchWorker, which   *)
(* runs on it, for every outbox, every batch size and any number of        *)
(* workers, crashes and clean-ups.                                         *)
(***************************************************************************)
EXTENDS MatchWorker, QueueRowsProofs

-----------------------------------------------------------------------------
(* Types of the queue *)

\* A worker that is not idle holds an event.
HoldsEvent == \A w \in Workers : pc[w] # "idle" => job[w] \in Events

LEMMA InitTypes == Init => TypeOK /\ HoldsEvent
  BY RowTypes, CrashesAssumption, TimesAssumption DEF Init, TypeOK, HoldsEvent

LEMMA GoIdleTypes ==
  ASSUME TypeOK, NEW w \in Workers, GoIdle(w)
  PROVE  /\ pc' \in [Workers -> {"idle", "working", "succeeded", "raised", "acknowledged"}]
         /\ job' \in [Workers -> Events \cup {NoEvent}]
         /\ trust' \in [Workers -> 0..Lease]
  BY TimesAssumption DEF TypeOK, GoIdle

LEMMA StepTypes == TypeOK /\ HoldsEvent /\ [Next]_vars => TypeOK' /\ HoldsEvent'
<1> SUFFICES ASSUME TypeOK, HoldsEvent, [Next]_vars PROVE TypeOK' /\ HoldsEvent'
  OBVIOUS
<1> USE DEF TypeOK, HoldsEvent
<1>1. ASSUME NEW w \in Workers, Claim(w) PROVE TypeOK' /\ HoldsEvent'
  <2>1. PICK e \in Events : /\ rows' = [rows EXCEPT ![e] = Claimed(@, w)]
                            /\ job' = [job EXCEPT ![w] = e]
    BY <1>1 DEF Claim
  <2>2. Claimed(rows[e], w) \in Row
    BY RowTypes
  <2> QED
    BY <1>1, <2>1, <2>2, TimesAssumption DEF Claim
<1>2. ASSUME NEW w \in Workers, Renew(w) PROVE TypeOK' /\ HoldsEvent'
  BY <1>2, RowTypes, TimesAssumption DEF Renew
<1>3. ASSUME NEW w \in Workers, LoseLease(w) PROVE TypeOK' /\ HoldsEvent'
  BY <1>3, GoIdleTypes DEF LoseLease, GoIdle, table
<1>4. ASSUME NEW w \in Workers, Succeed(w) PROVE TypeOK' /\ HoldsEvent'
  BY <1>4 DEF Succeed, table
<1>5. ASSUME NEW w \in Workers, Raise(w) PROVE TypeOK' /\ HoldsEvent'
  BY <1>5 DEF Raise, table
<1>6. ASSUME NEW w \in Workers, Acknowledge(w) PROVE TypeOK' /\ HoldsEvent'
  BY <1>6, RowTypes, TimesAssumption DEF Acknowledge
<1>7. ASSUME NEW w \in Workers, Mark(w) PROVE TypeOK' /\ HoldsEvent'
  BY <1>7, GoIdleTypes DEF Mark, GoIdle
<1>8. ASSUME NEW w \in Workers, Retry(w) PROVE TypeOK' /\ HoldsEvent'
  <2>1. rows' \in [Events -> Row]
    BY <1>8, RowTypes DEF Retry
  <2> QED
    BY <1>8, <2>1, GoIdleTypes DEF Retry, GoIdle
<1>9. ASSUME NEW w \in Workers, TurnedAway(w) PROVE TypeOK' /\ HoldsEvent'
  BY <1>9, GoIdleTypes DEF TurnedAway, GoIdle, table
<1>10. ASSUME NEW w \in Workers, CrashWorker(w) PROVE TypeOK' /\ HoldsEvent'
  <2>1. crashes' \in 0..MaxCrashes
    BY <1>10, CrashesAssumption DEF CrashWorker
  <2> QED
    BY <1>10, <2>1, GoIdleTypes DEF CrashWorker, GoIdle, table
<1>11. ASSUME NEW p \in Producers, NEW e \in Events, Offer(p, e) PROVE TypeOK' /\ HoldsEvent'
  BY <1>11 DEF Offer, table, worker
<1>12. ASSUME NEW p \in Producers, Insert(p) PROVE TypeOK' /\ HoldsEvent'
  <2>1. offer[p] \in Events
    BY <1>12 DEF Insert
  <2>2. rows' \in [Events -> Row]
    BY <1>12, <2>1, RowTypes DEF Insert
  <2>3. before' \subseteq Events \X Events
    BY <1>12, <2>1 DEF Insert, Present
  <2> QED
    BY <1>12, <2>2, <2>3 DEF Insert, worker
<1>13. ASSUME NEW p \in Producers, CrashProducer(p) PROVE TypeOK' /\ HoldsEvent'
  BY <1>13, CrashesAssumption DEF CrashProducer, table, worker
<1>14. ASSUME PurgeDone PROVE TypeOK' /\ HoldsEvent'
  BY <1>14, RowTypes DEF PurgeDone, worker
<1>15. ASSUME Tick PROVE TypeOK' /\ HoldsEvent'
  <2>1. rows' \in [Events -> Row]
    BY <1>15, RowTypes DEF Tick
  <2>2. trust' \in [Workers -> 0..Lease]
    BY <1>15, TimesAssumption DEF Tick, OneLess
  <2> QED
    BY <1>15, <2>1, <2>2 DEF Tick
<1>16. CASE UNCHANGED vars
  BY <1>16 DEF vars
<1> QED
  BY <1>1, <1>2, <1>3, <1>4, <1>5, <1>6, <1>7, <1>8, <1>9, <1>10, <1>11, <1>12,
     <1>13, <1>14, <1>15, <1>16
  DEF Next, WorkerStep, ProducerStep, Settle

\* The state of the queue and of its clients always has the shape TypeOK
\* gives it, whatever the sizes and the times.
THEOREM TypeCorrect == Spec => [](TypeOK /\ HoldsEvent)
<1>1. Init => TypeOK /\ HoldsEvent
  BY InitTypes
<1>2. TypeOK /\ HoldsEvent /\ [Next]_vars => (TypeOK /\ HoldsEvent)'
  BY StepTypes
<1> QED
  BY <1>1, <1>2, PTL DEF Spec

-----------------------------------------------------------------------------
(* Done means handled, parked means the budget is spent *)

\* A worker that will acknowledge, or has, knows its handling ended.
AcknowledgesHandled ==
  \A w \in Workers : pc[w] \in {"succeeded", "acknowledged"} => job[w] \in handled

OutcomeInv ==
  /\ AcknowledgesHandled
  /\ DoneWasHandled
  /\ ProcessedWasHandled
  /\ ParkedAtBudget

\* Retrying spends the budget or leaves some of it.
LEMMA RetriedWithinBudget ==
  ASSUME NEW r \in Row
  PROVE  /\ Retried(r).state \in {"pending", "failed"}
         /\ Retried(r).state = "pending" => Retried(r).attempts < MaxAttempts
         /\ Retried(r).state = "failed" => Retried(r).attempts >= MaxAttempts
         /\ Retried(r).attempts = r.attempts
  BY AttemptsAssumption DEF Retried, Released, Row

LEMMA StepOutcome ==
  TypeOK /\ HoldsEvent /\ OutcomeInv /\ [Next]_vars => OutcomeInv'
<1> SUFFICES ASSUME TypeOK, HoldsEvent, OutcomeInv, [Next]_vars PROVE OutcomeInv'
  OBVIOUS
<1> USE DEF OutcomeInv, AcknowledgesHandled, DoneWasHandled, ProcessedWasHandled, ParkedAtBudget
<1>1. ASSUME NEW w \in Workers, Claim(w) PROVE OutcomeInv'
  BY <1>1 DEF Claim, Claimed, TypeOK, Row
<1>2. ASSUME NEW w \in Workers, Renew(w) PROVE OutcomeInv'
  BY <1>2 DEF Renew, Renewed, TypeOK, Row
<1>3. ASSUME NEW w \in Workers, LoseLease(w) PROVE OutcomeInv'
  BY <1>3 DEF LoseLease, GoIdle, table, TypeOK
<1>4. ASSUME NEW w \in Workers, Succeed(w) PROVE OutcomeInv'
  BY <1>4 DEF Succeed, table, TypeOK
<1>5. ASSUME NEW w \in Workers, Raise(w) PROVE OutcomeInv'
  BY <1>5 DEF Raise, table, TypeOK
<1>6. ASSUME NEW w \in Workers, Acknowledge(w) PROVE OutcomeInv'
  BY <1>6 DEF Acknowledge, Acknowledged, Released, HoldsEvent, TypeOK, Row
<1>7. ASSUME NEW w \in Workers, Mark(w) PROVE OutcomeInv'
  BY <1>7 DEF Mark, GoIdle, TypeOK
<1>8. ASSUME NEW w \in Workers, Retry(w) PROVE OutcomeInv'
  <2> DEFINE e == job[w]
  <2>1. e \in Events /\ rows' = [rows EXCEPT ![e] = Retried(rows[e])]
    BY <1>8 DEF Retry, HoldsEvent, TypeOK
  <2>2. DoneWasHandled' /\ ParkedAtBudget'
    BY <1>8, <2>1, RetriedWithinBudget DEF Retry, TypeOK
  <2>3. AcknowledgesHandled' /\ ProcessedWasHandled'
    BY <1>8 DEF Retry, GoIdle, TypeOK
  <2> QED
    BY <2>2, <2>3
<1>9. ASSUME NEW w \in Workers, TurnedAway(w) PROVE OutcomeInv'
  BY <1>9 DEF TurnedAway, GoIdle, table, TypeOK
<1>10. ASSUME NEW w \in Workers, CrashWorker(w) PROVE OutcomeInv'
  BY <1>10 DEF CrashWorker, GoIdle, table, TypeOK
<1>11. ASSUME NEW p \in Producers, NEW e \in Events, Offer(p, e) PROVE OutcomeInv'
  BY <1>11 DEF Offer, table, worker
<1>12. ASSUME NEW p \in Producers, Insert(p) PROVE OutcomeInv'
  BY <1>12, AttemptsAssumption DEF Insert, FreshRow, NoRow, worker, TypeOK
<1>13. ASSUME NEW p \in Producers, CrashProducer(p) PROVE OutcomeInv'
  BY <1>13 DEF CrashProducer, table, worker
<1>14. ASSUME PurgeDone PROVE OutcomeInv'
  BY <1>14 DEF PurgeDone, NoRow, worker, TypeOK
<1>15. ASSUME Tick PROVE OutcomeInv'
  BY <1>15 DEF Tick, Aged, TypeOK, Row
<1>16. CASE UNCHANGED vars
  BY <1>16 DEF vars
<1> QED
  BY <1>1, <1>2, <1>3, <1>4, <1>5, <1>6, <1>7, <1>8, <1>9, <1>10, <1>11, <1>12,
     <1>13, <1>14, <1>15, <1>16
  DEF Next, WorkerStep, ProducerStep, Settle

LEMMA OutcomesHold == Spec => []OutcomeInv
<1>1. Init => OutcomeInv
  BY DEF Init, OutcomeInv, AcknowledgesHandled, DoneWasHandled, ProcessedWasHandled,
         ParkedAtBudget, NoRow
<1> QED
  BY <1>1, StepOutcome, TypeCorrect, PTL DEF Spec

\* In either mode, with any number of workers dying and any lease running
\* out, a done row was handled to its end, processed_events lists only such
\* events, and a row is parked exactly when its attempts are spent.
THEOREM OutcomesSound == Spec => []OutcomesAreTrue
<1>1. OutcomeInv => OutcomesAreTrue
  BY DEF OutcomeInv, OutcomesAreTrue
<1> QED
  BY <1>1, OutcomesHold, PTL

\* Only a claim counts an attempt.
LEMMA AttemptsByClaim ==
  TypeOK /\ HoldsEvent /\ [Next]_vars
    => \A e \in Events : rows'[e].attempts > rows[e].attempts => Due(rows[e])
<1> SUFFICES ASSUME TypeOK, HoldsEvent, [Next]_vars, NEW e \in Events,
                    rows'[e].attempts > rows[e].attempts
             PROVE  Due(rows[e])
  OBVIOUS
<1>0. rows[e] \in Row
  BY DEF TypeOK
<1>1. ASSUME NEW w \in Workers, Claim(w) PROVE Due(rows[e])
  <2>1. PICK f \in Events : Due(rows[f]) /\ rows' = [rows EXCEPT ![f] = Claimed(rows[f], w)]
    BY <1>1 DEF Claim, Oldest
  <2> QED
    BY <1>0, <2>1 DEF TypeOK, Row
<1>2. \A r \in Row : /\ Renewed(r).attempts = r.attempts
                     /\ Acknowledged(r).attempts = r.attempts
                     /\ Retried(r).attempts = r.attempts
                     /\ Aged(r).attempts = r.attempts
  BY RetriedWithinBudget DEF Renewed, Acknowledged, Released, Aged, Row
<1>3. FreshRow.attempts = 0 /\ NoRow.attempts = 0 /\ rows[e].attempts >= 0
  BY <1>0, AttemptsAssumption DEF FreshRow, NoRow, Row
<1>4. \/ rows'[e].attempts \in {rows[e].attempts, 0}
      \/ \E w \in Workers : Claim(w)
  <2>1. ASSUME NEW w \in Workers, Renew(w) \/ Acknowledge(w) \/ Retry(w)
        PROVE  rows'[e].attempts = rows[e].attempts
    BY <1>2, <2>1 DEF Renew, Acknowledge, Retry, HoldsEvent, TypeOK
  <2>2. ASSUME NEW p \in Producers, Insert(p) PROVE rows'[e].attempts \in {rows[e].attempts, 0}
    BY <1>3, <2>2 DEF Insert, TypeOK
  <2>3. ASSUME PurgeDone PROVE rows'[e].attempts \in {rows[e].attempts, 0}
    BY <1>3, <2>3 DEF PurgeDone
  <2>4. ASSUME Tick PROVE rows'[e].attempts = rows[e].attempts
    BY <1>0, <1>2, <2>4 DEF Tick
  <2>5. CASE UNCHANGED rows
    BY <2>5
  <2> QED
    BY <2>1, <2>2, <2>3, <2>4, <2>5
    DEF Next, WorkerStep, ProducerStep, Settle, LoseLease, Succeed, Raise, Mark, TurnedAway,
        CrashWorker, Offer, CrashProducer, table, vars
<1> QED
  BY <1>0, <1>1, <1>3, <1>4 DEF Row

\* With or without tokens, an event is tried again beyond its budget only where
\* its last holder died or lost its lease: a row that waits has budget left.
THEOREM BudgetSound == Spec => BeyondBudgetOnlyAfterLoss
<1>1. TypeOK /\ HoldsEvent /\ OutcomeInv /\ [Next]_vars
        => [\A e \in Events :
              rows'[e].attempts > rows[e].attempts /\ rows[e].attempts >= MaxAttempts =>
                rows[e].state = "inflight" /\ rows[e].lease = 0]_vars
  <2> SUFFICES ASSUME TypeOK, HoldsEvent, OutcomeInv, [Next]_vars, NEW e \in Events,
                      rows'[e].attempts > rows[e].attempts, rows[e].attempts >= MaxAttempts
               PROVE  rows[e].state = "inflight" /\ rows[e].lease = 0
    OBVIOUS
  <2>1. Due(rows[e]) /\ rows[e] \in Row
    BY AttemptsByClaim DEF TypeOK
  <2>2. rows[e].state # "pending"
    BY <2>1, AttemptsAssumption DEF OutcomeInv, ParkedAtBudget, Row
  <2> QED
    BY <2>1, <2>2 DEF Due
<1>2. Spec => []OutcomeInv
  BY OutcomesHold
<1> QED
  BY <1>1, <1>2, TypeCorrect, PTL DEF Spec, BeyondBudgetOnlyAfterLoss

-----------------------------------------------------------------------------
(* With the token passed, only the holder of a lease settles the row *)

\* A row has an owner only while it is inflight, and then an attempt was made;
\* before it exists none was.
OwnedOnlyInflight ==
  \A e \in Events :
    /\ IF rows[e].state = "inflight"
       THEN rows[e].attempts > 0
       ELSE rows[e].owner = Nobody
    /\ rows[e].state = "absent" => rows[e].attempts = 0

\* Only a worker in the middle of its step believes in a lease.
TrustWhileWorking ==
  \A w \in Workers : trust[w] > 0 => pc[w] \in {"working", "succeeded", "raised"}

LeaseInv == OwnedOnlyInflight /\ TrustWhileWorking /\ ExclusiveLease

LEMMA StepLease ==
  TypeOK /\ HoldsEvent /\ LeaseInv /\ Owned /\ [Next]_vars => LeaseInv'
<1> SUFFICES ASSUME TypeOK, HoldsEvent, LeaseInv, Owned, [Next]_vars PROVE LeaseInv'
  OBVIOUS
<1> USE DEF LeaseInv, OwnedOnlyInflight, TrustWhileWorking
<1>1. ASSUME NEW w \in Workers, Claim(w) PROVE LeaseInv'
  <2>1. PICK e \in Events : /\ Due(rows[e])
                            /\ rows' = [rows EXCEPT ![e] = Claimed(@, w)]
                            /\ job' = [job EXCEPT ![w] = e]
    BY <1>1 DEF Claim, Oldest
  <2>2. /\ rows'[e] = Claimed(rows[e], w)
        /\ \A f \in Events \ {e} : rows'[f] = rows[f]
        /\ Claimed(rows[e], w).state = "inflight"
        /\ Claimed(rows[e], w).owner = w
        /\ Claimed(rows[e], w).lease = Lease
        /\ Claimed(rows[e], w).attempts > 0
    BY <2>1, AttemptsAssumption DEF Claimed, TypeOK, Row
  <2>3. OwnedOnlyInflight'
    BY <2>2
  <2>4. TrustWhileWorking'
    BY <1>1 DEF Claim, TypeOK
  <2>5. ASSUME NEW v \in Workers, trust'[v] > 0
        PROVE  Renewable(rows'[job'[v]], v) /\ rows'[job'[v]].lease >= trust'[v]
    <3>1. CASE v = w
      <4>1. job'[w] = e /\ trust'[w] = Lease
        BY <1>1, <2>1 DEF Claim, TypeOK
      <4> QED
        BY <3>1, <4>1, <2>2, TimesAssumption DEF Renewable
    <3>2. CASE v # w
      <4>1. job'[v] = job[v] /\ trust'[v] = trust[v]
        BY <1>1, <2>1, <3>2 DEF Claim, TypeOK
      <4>2. job[v] \in Events /\ Renewable(rows[job[v]], v) /\ rows[job[v]].lease >= trust[v]
        BY <2>5, <4>1 DEF ExclusiveLease, HoldsEvent
      <4>3. job[v] # e
        BY <4>2, <2>1 DEF Due, Renewable, TypeOK, Row
      <4> QED
        BY <4>1, <4>2, <4>3, <2>2
    <3> QED
      BY <3>1, <3>2
  <2> QED
    BY <2>3, <2>4, <2>5 DEF ExclusiveLease
<1>2. ASSUME NEW w \in Workers, Renew(w) PROVE LeaseInv'
  <2>1. /\ job[w] \in Events
        /\ rows' = [rows EXCEPT ![job[w]] = Renewed(rows[job[w]])]
        /\ rows[job[w]].owner = w /\ rows[job[w]].state = "inflight"
        /\ trust' = [trust EXCEPT ![w] = Lease] /\ UNCHANGED <<pc, job>>
        /\ pc[w] = "working"
    BY <1>2 DEF Renew, Renewable, HoldsEvent
  <2>2. OwnedOnlyInflight'
    BY <2>1 DEF Renewed, TypeOK, Row
  <2>3. TrustWhileWorking'
    BY <2>1 DEF TypeOK
  <2>4. ASSUME NEW v \in Workers, trust'[v] > 0
        PROVE  Renewable(rows'[job'[v]], v) /\ rows'[job'[v]].lease >= trust'[v]
    <3>1. CASE v = w
      BY <2>1, <3>1, TimesAssumption DEF Renewed, Renewable, TypeOK, Row
    <3>2. CASE v # w
      <4>1. trust'[v] = trust[v] /\ trust[v] > 0
        BY <2>1, <2>4, <3>2 DEF TypeOK
      <4>2. job[v] # job[w]
        BY <4>1, <2>1, <3>2 DEF ExclusiveLease, Renewable
      <4> QED
        BY <2>1, <4>1, <4>2 DEF ExclusiveLease, HoldsEvent, TypeOK
    <3> QED
      BY <3>1, <3>2
  <2> QED
    BY <2>2, <2>3, <2>4 DEF ExclusiveLease
<1>3. ASSUME NEW w \in Workers, LoseLease(w) PROVE LeaseInv'
  BY <1>3 DEF LoseLease, GoIdle, table, TypeOK, ExclusiveLease
<1>4. ASSUME NEW w \in Workers, Succeed(w) PROVE LeaseInv'
  BY <1>4 DEF Succeed, table, TypeOK, ExclusiveLease
<1>5. ASSUME NEW w \in Workers, Raise(w) PROVE LeaseInv'
  BY <1>5 DEF Raise, table, TypeOK, ExclusiveLease
<1>6. ASSUME NEW w \in Workers, Acknowledge(w) PROVE LeaseInv'
  <2>1. /\ job[w] \in Events /\ rows[job[w]].owner = w
        /\ rows' = [rows EXCEPT ![job[w]] = Acknowledged(rows[job[w]])]
        /\ trust' = [trust EXCEPT ![w] = 0] /\ job' = job
        /\ pc' = [pc EXCEPT ![w] = "acknowledged"]
    BY <1>6 DEF Acknowledge, Refused, HoldsEvent
  <2>2. OwnedOnlyInflight'
    BY <2>1 DEF Acknowledged, Released, TypeOK, Row
  <2>3. TrustWhileWorking'
    BY <2>1 DEF TypeOK
  <2>4. ASSUME NEW v \in Workers, trust'[v] > 0
        PROVE  Renewable(rows'[job'[v]], v) /\ rows'[job'[v]].lease >= trust'[v]
    <3>1. v # w /\ trust'[v] = trust[v] /\ trust[v] > 0
      BY <2>1, <2>4 DEF TypeOK
    <3>2. job[v] # job[w]
      BY <3>1, <2>1 DEF ExclusiveLease, Renewable
    <3> QED
      BY <2>1, <3>1, <3>2 DEF ExclusiveLease, HoldsEvent, TypeOK
  <2> QED
    BY <2>2, <2>3, <2>4 DEF ExclusiveLease
<1>7. ASSUME NEW w \in Workers, Mark(w) PROVE LeaseInv'
  BY <1>7 DEF Mark, GoIdle, TypeOK, ExclusiveLease
<1>8. ASSUME NEW w \in Workers, Retry(w) PROVE LeaseInv'
  <2>1. /\ job[w] \in Events /\ rows[job[w]].owner = w
        /\ rows' = [rows EXCEPT ![job[w]] = Retried(rows[job[w]])]
        /\ trust' = [trust EXCEPT ![w] = 0] /\ job' = [job EXCEPT ![w] = NoEvent]
        /\ pc' = [pc EXCEPT ![w] = "idle"]
    BY <1>8 DEF Retry, GoIdle, Refused, HoldsEvent
  <2>2. OwnedOnlyInflight'
    BY <2>1 DEF Retried, Released, TypeOK, Row
  <2>3. TrustWhileWorking'
    BY <2>1 DEF TypeOK
  <2>4. ASSUME NEW v \in Workers, trust'[v] > 0
        PROVE  Renewable(rows'[job'[v]], v) /\ rows'[job'[v]].lease >= trust'[v]
    <3>1. v # w /\ trust'[v] = trust[v] /\ trust[v] > 0 /\ job'[v] = job[v]
      BY <2>1, <2>4 DEF TypeOK
    <3>2. job[v] # job[w]
      BY <3>1, <2>1 DEF ExclusiveLease, Renewable
    <3> QED
      BY <2>1, <3>1, <3>2 DEF ExclusiveLease, HoldsEvent, TypeOK
  <2> QED
    BY <2>2, <2>3, <2>4 DEF ExclusiveLease
<1>9. ASSUME NEW w \in Workers, TurnedAway(w) PROVE LeaseInv'
  BY <1>9 DEF TurnedAway, GoIdle, table, TypeOK, ExclusiveLease
<1>10. ASSUME NEW w \in Workers, CrashWorker(w) PROVE LeaseInv'
  BY <1>10 DEF CrashWorker, GoIdle, table, TypeOK, ExclusiveLease
<1>11. ASSUME NEW p \in Producers, NEW e \in Events, Offer(p, e) PROVE LeaseInv'
  BY <1>11 DEF Offer, table, worker, ExclusiveLease
<1>12. ASSUME NEW p \in Producers, Insert(p) PROVE LeaseInv'
  <2>1. UNCHANGED <<pc, job, trust>>
    BY <1>12 DEF Insert, worker
  <2>2. \A e \in Events : rows'[e] = rows[e] \/ (rows[e].state = "absent" /\ rows'[e] = FreshRow)
    BY <1>12 DEF Insert, Present, TypeOK
  <2>3. FreshRow.state = "pending" /\ FreshRow.owner = Nobody
    BY DEF FreshRow, NoRow
  <2> QED
    BY <2>1, <2>2, <2>3 DEF ExclusiveLease, Renewable, HoldsEvent
<1>13. ASSUME NEW p \in Producers, CrashProducer(p) PROVE LeaseInv'
  BY <1>13 DEF CrashProducer, table, worker, ExclusiveLease
<1>14. ASSUME PurgeDone PROVE LeaseInv'
  <2>1. UNCHANGED <<pc, job, trust>>
    BY <1>14 DEF PurgeDone, worker
  <2>2. \A e \in Events : rows'[e] = rows[e] \/ (rows[e].state = "done" /\ rows'[e] = NoRow)
    BY <1>14 DEF PurgeDone, TypeOK
  <2>3. NoRow.state = "absent" /\ NoRow.owner = Nobody /\ NoRow.attempts = 0
    BY DEF NoRow
  <2> QED
    BY <2>1, <2>2, <2>3 DEF ExclusiveLease, Renewable, HoldsEvent
<1>15. ASSUME Tick PROVE LeaseInv'
  <2>1. \A e \in Events : rows'[e] = Aged(rows[e]) /\ rows[e] \in Row
    BY <1>15 DEF Tick, TypeOK
  <2>2. \A w \in Workers : trust'[w] = OneLess(trust[w]) /\ trust[w] \in 0..Lease
    BY <1>15 DEF Tick, TypeOK
  <2>3. \A r \in Row : /\ Aged(r).state = r.state /\ Aged(r).owner = r.owner
                       /\ Aged(r).attempts = r.attempts /\ Aged(r).lease = OneLess(r.lease)
    BY DEF Aged, Row
  <2>4. UNCHANGED <<pc, job>>
    BY <1>15 DEF Tick
  <2>5. OwnedOnlyInflight'
    BY <2>1, <2>3
  <2>6. TrustWhileWorking'
    BY <2>2, <2>4, TimesAssumption DEF OneLess
  <2>7. ASSUME NEW v \in Workers, trust'[v] > 0
        PROVE  Renewable(rows'[job'[v]], v) /\ rows'[job'[v]].lease >= trust'[v]
    <3>1. trust[v] > 0 /\ trust'[v] = trust[v] - 1
      BY <2>2, <2>7, TimesAssumption DEF OneLess
    <3>2. job[v] \in Events /\ Renewable(rows[job[v]], v) /\ rows[job[v]].lease >= trust[v]
      BY <3>1 DEF ExclusiveLease, HoldsEvent
    <3>3. rows[job[v]].lease \in 0..Lease /\ rows'[job[v]].lease = rows[job[v]].lease - 1
      BY <2>1, <2>3, <3>1, <3>2, <2>2, TimesAssumption DEF OneLess, Row
    <3> QED
      BY <2>1, <2>2, <2>3, <2>4, <2>7, <3>1, <3>2, <3>3, TimesAssumption DEF Renewable
  <2> QED
    BY <2>5, <2>6, <2>7 DEF ExclusiveLease
<1>16. CASE UNCHANGED vars
  BY <1>16 DEF vars, ExclusiveLease
<1> QED
  BY <1>1, <1>2, <1>3, <1>4, <1>5, <1>6, <1>7, <1>8, <1>9, <1>10, <1>11, <1>12,
     <1>13, <1>14, <1>15, <1>16
  DEF Next, WorkerStep, ProducerStep, Settle

LEMMA LeaseAlways == Owned /\ Spec => [](TypeOK /\ HoldsEvent /\ LeaseInv)
<1>1. Init => TypeOK /\ HoldsEvent /\ LeaseInv
  <2>1. Init => OwnedOnlyInflight /\ TrustWhileWorking /\ ExclusiveLease
    BY DEF Init, OwnedOnlyInflight, TrustWhileWorking, ExclusiveLease, NoRow
  <2> QED
    BY <2>1, InitTypes DEF LeaseInv
<1>2. Owned /\ TypeOK /\ HoldsEvent /\ LeaseInv /\ [Next]_vars
        => (TypeOK /\ HoldsEvent /\ LeaseInv)'
  BY StepTypes, StepLease
<1>3. CASE Owned
  <2>1. TypeOK /\ HoldsEvent /\ LeaseInv /\ [Next]_vars => (TypeOK /\ HoldsEvent /\ LeaseInv)'
    BY <1>2, <1>3
  <2> QED
    BY <1>1, <2>1, PTL DEF Spec
<1>4. CASE ~Owned
  BY <1>4, PTL
<1> QED
  BY <1>3, <1>4

\* With the token passed, a worker whose lease has not run out by its own
\* reckoning owns the row: no other worker holds the event meanwhile.
THEOREM LeasesExclusive == Owned /\ Spec => []ExclusiveLease
<1>1. TypeOK /\ HoldsEvent /\ LeaseInv => ExclusiveLease
  BY DEF LeaseInv
<1> QED
  BY <1>1, LeaseAlways, PTL

\* A step that settles or retries a row finds it inflight under the worker's token.
LEMMA SettlesOwnRow ==
  ASSUME HoldsEvent, LeaseInv, Owned, NEW w \in Workers, pc[w] # "idle",
         ~Refused(rows[job[w]], w)
  PROVE  /\ job[w] \in Events
         /\ rows[job[w]].state = "inflight"
         /\ rows[job[w]].attempts > 0
  BY NobodyAssumption DEF HoldsEvent, LeaseInv, OwnedOnlyInflight, Refused

\* What a step may do to one row, with the token passed.
RowStep(r, s) ==
  \/ s = r
  \/ r.state = "absent" /\ s = FreshRow
  \/ \E w \in Workers : Due(r) /\ s = Claimed(r, w)
  \/ s = Renewed(r) \/ s = Aged(r)
  \/ r.state = "inflight" /\ r.attempts > 0 /\ s \in {Acknowledged(r), Retried(r)}
  \/ Purging /\ r.state = "done" /\ s = NoRow

LEMMA RowSteps ==
  TypeOK /\ HoldsEvent /\ LeaseInv /\ Owned /\ [Next]_vars
    => \A e \in Events : RowStep(rows[e], rows'[e])
<1> SUFFICES ASSUME TypeOK, HoldsEvent, LeaseInv, Owned, [Next]_vars, NEW e \in Events
             PROVE  RowStep(rows[e], rows'[e])
  OBVIOUS
<1> USE DEF RowStep
<1>1. ASSUME NEW w \in Workers, Claim(w) PROVE RowStep(rows[e], rows'[e])
  BY <1>1 DEF Claim, Oldest, TypeOK
<1>2. ASSUME NEW w \in Workers, Renew(w) PROVE RowStep(rows[e], rows'[e])
  BY <1>2 DEF Renew, TypeOK
<1>3. ASSUME NEW w \in Workers, Acknowledge(w) PROVE RowStep(rows[e], rows'[e])
  BY <1>3, SettlesOwnRow DEF Acknowledge, TypeOK
<1>4. ASSUME NEW w \in Workers, Retry(w) PROVE RowStep(rows[e], rows'[e])
  BY <1>4, SettlesOwnRow DEF Retry, TypeOK
<1>5. ASSUME NEW p \in Producers, Insert(p) PROVE RowStep(rows[e], rows'[e])
  BY <1>5 DEF Insert, Present, TypeOK
<1>6. ASSUME PurgeDone PROVE RowStep(rows[e], rows'[e])
  BY <1>6 DEF PurgeDone, TypeOK
<1>7. ASSUME Tick PROVE RowStep(rows[e], rows'[e])
  BY <1>7 DEF Tick, TypeOK
<1>8. CASE UNCHANGED rows
  BY <1>8
<1> QED
  BY <1>1, <1>2, <1>3, <1>4, <1>5, <1>6, <1>7, <1>8
  DEF Next, WorkerStep, ProducerStep, Settle, LoseLease, Succeed, Raise, Mark, TurnedAway,
      CrashWorker, Offer, CrashProducer, table, vars

\* With the token passed, an event that is done or parked is never worked on
\* again, however late a worker that lost its lease comes back.
THEOREM SettledStaysSettled == Owned /\ Spec => SettledIsFinal
<1>1. ASSUME NEW r \in Row, NEW s, RowStep(r, s), r.state \in {"done", "failed"}
      PROVE  s.state \in {r.state, "absent"}
  <2>1. ~Due(r) /\ r.state # "absent" /\ r.state # "inflight"
    BY <1>1 DEF Due
  <2>2. s = r \/ s = Renewed(r) \/ s = Aged(r) \/ s = NoRow
    BY <1>1, <2>1 DEF RowStep
  <2>3. Renewed(r).state = r.state /\ Aged(r).state = r.state /\ NoRow.state = "absent"
    BY DEF Renewed, Aged, NoRow, Row
  <2> QED
    BY <2>2, <2>3
<1>2. TypeOK /\ HoldsEvent /\ LeaseInv /\ Owned /\ [Next]_vars
        => [\A e \in Events : rows[e].state \in {"done", "failed"} =>
              rows'[e].state \in {rows[e].state, "absent"}]_vars
  BY <1>1, RowSteps DEF TypeOK
<1>3. CASE Owned
  <2>1. TypeOK /\ HoldsEvent /\ LeaseInv /\ [Next]_vars
          => [\A e \in Events : rows[e].state \in {"done", "failed"} =>
                rows'[e].state \in {rows[e].state, "absent"}]_vars
    BY <1>2, <1>3
  <2> QED
    BY <1>3, <2>1, LeaseAlways, PTL DEF Spec, SettledIsFinal
<1>4. CASE ~Owned
  BY <1>4, PTL
<1> QED
  BY <1>3, <1>4

-----------------------------------------------------------------------------
(* The queue implements its contract *)

\* What a step does to one row, as the contract sees it: nothing, or one of the
\* contract's four actions.
ContractStep(r, s) ==
  \/ /\ PhaseOf(r) = "unknown" /\ PhaseOf(s) = "accepted"
     /\ s.attempts = r.attempts
  \/ /\ PhaseOf(r) = "accepted" /\ PhaseOf(s) = "accepted"
     /\ s.attempts = IF r.attempts = AttemptCap THEN r.attempts ELSE r.attempts + 1
  \/ /\ PhaseOf(r) = "accepted" /\ PhaseOf(s) = "finished"
     /\ r.attempts > 0 /\ s.attempts = r.attempts
  \/ /\ PhaseOf(r) = "accepted" /\ PhaseOf(s) = "parked"
     /\ r.attempts >= MaxAttempts /\ s.attempts = r.attempts

Unseen(r, s) == PhaseOf(s) = PhaseOf(r) /\ s.attempts = r.attempts

\* Time and renewals are not seen by the contract.
LEMMA TimeUnseen == \A r \in Row : Unseen(r, Aged(r)) /\ Unseen(r, Renewed(r))
  BY DEF Unseen, PhaseOf, Aged, Renewed, Row

\* The transactions that are seen.
LEMMA TransactionsSeen ==
  ASSUME NEW r \in Row, NEW w \in Workers
  PROVE  /\ r.state = "absent" /\ r.attempts = 0 => ContractStep(r, FreshRow)
         /\ Due(r) => ContractStep(r, Claimed(r, w))
         /\ r.state = "inflight" /\ r.attempts > 0 => ContractStep(r, Acknowledged(r))
         /\ r.state = "inflight" =>
              ContractStep(r, Retried(r)) \/ Unseen(r, Retried(r))
<1>1. r.state = "absent" /\ r.attempts = 0 => ContractStep(r, FreshRow)
  BY DEF ContractStep, PhaseOf, FreshRow, NoRow
<1>2. Due(r) => ContractStep(r, Claimed(r, w))
  BY DEF ContractStep, PhaseOf, Due, Claimed, Row
<1>3. r.state = "inflight" /\ r.attempts > 0 => ContractStep(r, Acknowledged(r))
  BY DEF ContractStep, PhaseOf, Acknowledged, Released, Row
<1>4. r.state = "inflight" => ContractStep(r, Retried(r)) \/ Unseen(r, Retried(r))
  BY DEF ContractStep, Unseen, PhaseOf, Retried, Released, Row
<1> QED
  BY <1>1, <1>2, <1>3, <1>4

\* One row moves and the others are left alone: a step of the contract.
LEMMA OneRowMoves ==
  ASSUME rows \in [Events -> Row], NEW e \in Events, NEW s,
         rows' = [rows EXCEPT ![e] = s],
         ContractStep(rows[e], s) \/ Unseen(rows[e], s)
  PROVE  [Contract!Next]_(Contract!vars)
<1> DEFINE ph == [f \in Events |-> PhaseOf(rows[f])]
           tr == [f \in Events |-> rows[f].attempts]
<1>1. /\ ph' = [ph EXCEPT ![e] = PhaseOf(s)]
      /\ tr' = [tr EXCEPT ![e] = s.attempts]
  OBVIOUS
<1>2. CASE Unseen(rows[e], s)
  <2>1. ph' = ph /\ tr' = tr
    BY <1>1, <1>2 DEF Unseen
  <2> QED
    BY <2>1 DEF Contract!vars
<1>3. CASE ContractStep(rows[e], s)
  <2>1. ph[e] = PhaseOf(rows[e]) /\ tr[e] = rows[e].attempts
    OBVIOUS
  <2>2. s.attempts = rows[e].attempts => tr' = tr
    BY <1>1, <2>1
  <2>3. PhaseOf(s) = PhaseOf(rows[e]) => ph' = ph
    BY <1>1, <2>1
  <2> HIDE DEF ph, tr
  <2>4. \/ /\ ph[e] = "unknown" /\ ph' = [ph EXCEPT ![e] = "accepted"]
           /\ tr' = tr
        \/ /\ ph[e] = "accepted" /\ ph' = ph
           /\ tr' = [tr EXCEPT ![e] = IF tr[e] = AttemptCap THEN tr[e] ELSE tr[e] + 1]
        \/ /\ ph[e] = "accepted" /\ tr[e] > 0
           /\ ph' = [ph EXCEPT ![e] = "finished"] /\ tr' = tr
        \/ /\ ph[e] = "accepted" /\ tr[e] >= MaxAttempts
           /\ ph' = [ph EXCEPT ![e] = "parked"] /\ tr' = tr
    BY <1>1, <1>3, <2>1, <2>2, <2>3 DEF ContractStep
  <2> USE DEF ph, tr
  <2> QED
    BY <2>4 DEF Contract!Next, Contract!Accept, Contract!Try, Contract!Finish, Contract!Park
<1> QED
  BY <1>2, <1>3

LEMMA StepContract ==
  TypeOK /\ HoldsEvent /\ LeaseInv /\ Owned /\ [Next]_vars
    => [Contract!Next]_(Contract!vars)
<1> SUFFICES ASSUME TypeOK, HoldsEvent, LeaseInv, Owned, [Next]_vars
             PROVE  [Contract!Next]_(Contract!vars)
  OBVIOUS
<1> DEFINE Goal == [Contract!Next]_(Contract!vars)
<1>0. rows \in [Events -> Row]
  BY DEF TypeOK
<1>1. ASSUME NEW w \in Workers, Claim(w) PROVE Goal
  <2>1. PICK e \in Events : Due(rows[e]) /\ rows' = [rows EXCEPT ![e] = Claimed(rows[e], w)]
    BY <1>1 DEF Claim, Oldest
  <2> QED
    BY <1>0, <2>1, TransactionsSeen, OneRowMoves
<1>2. ASSUME NEW w \in Workers, Renew(w) PROVE Goal
  <2>1. job[w] \in Events /\ rows' = [rows EXCEPT ![job[w]] = Renewed(rows[job[w]])]
    BY <1>2 DEF Renew, HoldsEvent
  <2> QED
    BY <1>0, <2>1, TimeUnseen, OneRowMoves
<1>3. ASSUME NEW w \in Workers, Acknowledge(w) PROVE Goal
  <2>1. /\ job[w] \in Events /\ rows[job[w]].state = "inflight" /\ rows[job[w]].attempts > 0
        /\ rows' = [rows EXCEPT ![job[w]] = Acknowledged(rows[job[w]])]
    BY <1>3, SettlesOwnRow DEF Acknowledge
  <2> QED
    BY <1>0, <2>1, TransactionsSeen, OneRowMoves
<1>4. ASSUME NEW w \in Workers, Retry(w) PROVE Goal
  <2>1. /\ job[w] \in Events /\ rows[job[w]].state = "inflight"
        /\ rows' = [rows EXCEPT ![job[w]] = Retried(rows[job[w]])]
    BY <1>4, SettlesOwnRow DEF Retry
  <2> QED
    BY <1>0, <2>1, TransactionsSeen, OneRowMoves
<1>5. ASSUME UNCHANGED rows PROVE Goal
  BY <1>5 DEF Contract!vars
<1>6. ASSUME NEW p \in Producers, Insert(p) PROVE Goal
  <2>1. CASE offer[p] \in Present
    BY <1>5, <1>6, <2>1 DEF Insert
  <2>2. CASE offer[p] \notin Present
    <3>1. /\ offer[p] \in Events /\ rows' = [rows EXCEPT ![offer[p]] = FreshRow]
          /\ rows[offer[p]].state = "absent"
      BY <1>6, <2>2 DEF Insert, Present, TypeOK
    <3>2. rows[offer[p]].attempts = 0
      BY <3>1 DEF LeaseInv, OwnedOnlyInflight
    <3>3. ContractStep(rows[offer[p]], FreshRow)
      BY <3>1, <3>2 DEF ContractStep, PhaseOf, FreshRow, NoRow
    <3> QED
      BY <1>0, <3>1, <3>3, OneRowMoves
  <2> QED
    BY <2>1, <2>2
<1>7. ASSUME Tick PROVE Goal
  <2>1. \A e \in Events : Unseen(rows[e], rows'[e])
    BY <1>0, <1>7, TimeUnseen DEF Tick
  <2> QED
    BY <2>1 DEF Unseen, Contract!vars
<1>8. ASSUME PurgeDone PROVE Goal
  <2>1. PICK gone \in SUBSET {e \in Events : rows[e].state = "done"} :
          gone # {} /\ rows' = [e \in Events |-> IF e \in gone THEN NoRow ELSE rows[e]]
    BY <1>8 DEF PurgeDone
  <2>2. PhaseOf(NoRow) = "unknown" /\ NoRow.attempts = 0
    BY DEF PhaseOf, NoRow
  <2>3. gone \in SUBSET {e \in Events : PhaseOf(rows[e]) = "finished"}
    BY <2>1 DEF PhaseOf
  <2>4. \A e \in Events :
          /\ PhaseOf(rows'[e]) = IF e \in gone THEN "unknown" ELSE PhaseOf(rows[e])
          /\ rows'[e].attempts = IF e \in gone THEN 0 ELSE rows[e].attempts
    BY <2>1, <2>2
  <2>5. Purging
    BY <1>8 DEF PurgeDone
  <2>6. Contract!Forget
    BY <2>1, <2>3, <2>4, <2>5 DEF Contract!Forget
  <2> QED
    BY <2>6 DEF Contract!Next
<1> QED
  BY <1>1, <1>2, <1>3, <1>4, <1>5, <1>6, <1>7, <1>8
  DEF Next, WorkerStep, ProducerStep, Settle, LoseLease, Succeed, Raise, Mark, TurnedAway,
      CrashWorker, Offer, CrashProducer, table, vars

\* With the token passed, every behaviour of the queue, its producers, its
\* workers and the operator's clean-up is a behaviour of the contract.
THEOREM QueueImplementsContract == Owned /\ Spec => ImplementsContract
<1>1. Init => Contract!Init
  BY DEF Init, Contract!Init, PhaseOf, NoRow
<1>2. CASE Owned
  <2>1. TypeOK /\ HoldsEvent /\ LeaseInv /\ [Next]_vars => [Contract!Next]_(Contract!vars)
    BY <1>2, StepContract
  <2> QED
    BY <1>1, <1>2, <2>1, LeaseAlways, PTL DEF Spec, ImplementsContract, Contract!Spec
<1>3. CASE ~Owned
  BY <1>3, PTL
<1> QED
  BY <1>2, <1>3

-----------------------------------------------------------------------------
(* The match worker: each of its steps is a step of the queue *)

\* A worker that handles the next event of its batch has one, and the event it
\* is about to insert is that one.
BatchInv ==
  \A w \in Workers :
    /\ stage[w] \in {"look", "insert", "acknowledge"} => batch[w] # <<>>
    /\ stage[w] = "insert" => offer[w] = Head(batch[w])

TypeInv == WorkerTypeOK /\ HoldsEvent /\ BatchInv

-----------------------------------------------------------------------------
(* The queue inside the worker *)

\* What a worker does to the queue, unless it dies, is a step of WorkQueue.
LEMMA LoopStepsQueue ==
  ASSUME TypeInv, NEW w \in Workers, LoopStep(w)
  PROVE  [Next]_vars
<1>1. w \in Producers
  BY DispatchersAssumption
<1>2. CASE ReadBatch(w) \/ AcknowledgeOutbox(w)
  BY <1>2 DEF ReadBatch, AcknowledgeOutbox
<1>3. CASE Look(w)
  <2>1. Head(batch[w]) \in Events
    BY <1>3, EventKindsAssumption DEF Look, TypeInv, BatchInv, WorkerTypeOK
  <2> QED
    BY <1>1, <1>3, <2>1 DEF Look, Next, ProducerStep
<1>4. CASE InsertNext(w) \/ Announced(w)
  BY <1>1, <1>4 DEF InsertNext, Announced, Next, ProducerStep
<1>5. CASE Announce(w)
  BY <1>1, <1>5, EventKindsAssumption DEF Announce, Next, ProducerStep
<1>6. CASE Poll(w)
  BY <1>6 DEF Poll, Next, WorkerStep
<1>7. CASE Handle(w)
  BY <1>7 DEF Handle, Next, WorkerStep
<1> QED
  BY <1>2, <1>3, <1>4, <1>5, <1>6, <1>7 DEF LoopStep

LEMMA StepsQueue ==
  TypeInv /\ [WorkerNext]_allVars => [Next]_vars \/ \E w \in Workers : Crash(w)
  BY LoopStepsQueue DEF WorkerNext, Commit, Next, allVars, vars

-----------------------------------------------------------------------------
(* Types of the worker *)

LEMMA CrashTypes ==
  ASSUME TypeInv, NEW w \in Workers, Crash(w)
  PROVE  TypeInv'
<1> USE DEF TypeInv, WorkerTypeOK
<1>1. TypeOK' /\ HoldsEvent'
  <2>1. crashes' \in 0..MaxCrashes
    BY CrashesAssumption DEF Crash, TypeOK
  <2>2. offer' \in [Producers -> Events \cup {NoEvent}]
    BY DEF Crash, TypeOK
  <2> QED
    BY <2>1, <2>2, GoIdleTypes DEF Crash, GoIdle, table, TypeOK, HoldsEvent
<1>2. stage' \in [Workers -> Stages] /\ batch' \in [Workers -> Seq(JobEvents)]
      /\ booting' \in [Workers -> BOOLEAN]
  BY DEF Crash, GoTo, Stages
<1>3. BatchInv'
  BY DEF Crash, GoTo, BatchInv, TypeOK
<1> QED
  BY <1>1, <1>2, <1>3 DEF Crash, outbox

\* The events that LetGo leaves are events of the outbox.
LEMMA LetGoTypes ==
  ASSUME unsent \in Seq(JobEvents), sent \subseteq JobEvents, NEW e \in JobEvents, LetGo(e)
  PROVE  unsent' \in Seq(JobEvents) /\ sent' \subseteq JobEvents
<1>1. \A i \in 1..Len(unsent) :
        SubSeq(unsent, 1, i - 1) \o SubSeq(unsent, i + 1, Len(unsent)) \in Seq(JobEvents)
  OBVIOUS
<1> QED
  BY <1>1 DEF LetGo

\* The outbox and the loop of a worker that does not die.
LEMMA LoopTypes ==
  ASSUME TypeInv, NEW w \in Workers, LoopStep(w)
  PROVE  /\ unsent' \in Seq(JobEvents) /\ sent' \subseteq JobEvents
         /\ batch' \in [Workers -> Seq(JobEvents)]
         /\ stage' \in [Workers -> Stages]
         /\ booting' \in [Workers -> BOOLEAN]
         /\ BatchInv'
<1> DEFINE Goal == /\ unsent' \in Seq(JobEvents) /\ sent' \subseteq JobEvents
                   /\ batch' \in [Workers -> Seq(JobEvents)]
                   /\ stage' \in [Workers -> Stages]
                   /\ booting' \in [Workers -> BOOLEAN]
                   /\ BatchInv'
<1> USE DEF TypeInv, WorkerTypeOK, BatchInv, Stages, GoTo, AfterBatch
<1>1. CASE ReadBatch(w)
  <2> DEFINE first == SubSeq(unsent, 1, IF Len(unsent) < BatchSize THEN Len(unsent) ELSE BatchSize)
  <2>1. first \in Seq(JobEvents) /\ (unsent # <<>> => first # <<>>)
    <3> DEFINE n == IF Len(unsent) < BatchSize THEN Len(unsent) ELSE BatchSize
    <3>1. n \in 0..Len(unsent) /\ (unsent # <<>> => n > 0)
      BY BatchAssumption
    <3>2. \A k \in 0..Len(unsent) : SubSeq(unsent, 1, k) \in Seq(JobEvents)
                                    /\ Len(SubSeq(unsent, 1, k)) = k
      OBVIOUS
    <3>3. first = SubSeq(unsent, 1, n)
      OBVIOUS
    <3> HIDE DEF n, first
    <3>4. first \in Seq(JobEvents) /\ Len(first) = n
      BY <3>1, <3>2, <3>3
    <3> QED
      BY <3>1, <3>4
  <2>2. /\ batch' = [batch EXCEPT ![w] = first]
        /\ stage' = [stage EXCEPT ![w] = IF unsent = <<>> THEN AfterBatch(w) ELSE "look"]
        /\ UNCHANGED <<offer, unsent, sent, booting>>
    BY <1>1 DEF ReadBatch, vars, outbox
  <2> HIDE DEF first
  <2>3. batch' \in [Workers -> Seq(JobEvents)] /\ stage' \in [Workers -> Stages]
    BY <2>1, <2>2
  <2>4. \A v \in Workers : v # w => batch'[v] = batch[v] /\ stage'[v] = stage[v]
    BY <2>2
  <2>5. stage'[w] # "insert" /\ stage'[w] # "acknowledge"
    BY <2>2
  <2>6. stage'[w] = "look" => batch'[w] # <<>>
    BY <2>1, <2>2
  <2> QED
    BY <2>2, <2>3, <2>4, <2>5, <2>6
<1>2. CASE Look(w)
  <2>1. UNCHANGED <<unsent, sent, batch, booting>> /\ stage[w] = "look"
    BY <1>2 DEF Look, outbox
  <2>2. CASE stage' = [stage EXCEPT ![w] = "acknowledge"] /\ UNCHANGED vars
    BY <2>1, <2>2 DEF vars
  <2>3. CASE stage' = [stage EXCEPT ![w] = "insert"] /\ Offer(w, Head(batch[w]))
    <3>1. offer' = [offer EXCEPT ![w] = Head(batch[w])]
      BY <2>3 DEF Offer
    <3>2. offer'[w] = Head(batch[w]) /\ \A v \in Workers : v # w => offer'[v] = offer[v]
      BY <3>1, DispatchersAssumption DEF TypeOK
    <3> QED
      BY <2>1, <2>3, <3>2
  <2> QED
    BY <1>2, <2>2, <2>3 DEF Look
<1>3. CASE InsertNext(w)
  <2>1. /\ UNCHANGED <<unsent, sent, batch, booting>> /\ stage[w] = "insert"
        /\ stage' = [stage EXCEPT ![w] = "acknowledge"]
        /\ offer' = [offer EXCEPT ![w] = NoEvent]
    BY <1>3 DEF InsertNext, Insert, outbox
  <2>2. \A v \in Workers : v # w => offer'[v] = offer[v]
    BY <2>1
  <2> QED
    BY <2>1, <2>2
<1>4. CASE AcknowledgeOutbox(w)
  <2>1. stage[w] = "acknowledge" /\ batch[w] \in Seq(JobEvents) /\ batch[w] # <<>>
    BY <1>4 DEF AcknowledgeOutbox
  <2>2. Head(batch[w]) \in JobEvents /\ Tail(batch[w]) \in Seq(JobEvents)
    BY <2>1
  <2>3. unsent' \in Seq(JobEvents) /\ sent' \subseteq JobEvents
    BY <1>4, <2>2, LetGoTypes DEF AcknowledgeOutbox
  <2>4. /\ batch' = [batch EXCEPT ![w] = Tail(batch[w])]
        /\ stage' = [stage EXCEPT ![w] = IF Tail(batch[w]) = <<>> THEN AfterBatch(w) ELSE "look"]
        /\ UNCHANGED <<offer, booting>>
    BY <1>4 DEF AcknowledgeOutbox, vars
  <2> QED
    BY <2>2, <2>3, <2>4
<1>5. CASE Announce(w)
  <2>1. PICK e : offer' = [offer EXCEPT ![w] = e]
    BY <1>5 DEF Announce, Offer
  <2>2. \A v \in Workers : v # w => offer'[v] = offer[v]
    BY <2>1
  <2> QED
    BY <1>5, <2>2 DEF Announce, outbox
<1>6. CASE Announced(w)
  <2>1. offer' = [offer EXCEPT ![w] = NoEvent]
    BY <1>6 DEF Announced, Insert
  <2>2. \A v \in Workers : v # w => offer'[v] = offer[v]
    BY <2>1
  <2> QED
    BY <1>6, <2>2 DEF Announced, outbox
<1>7. CASE Poll(w)
  <2>1. offer' = offer
    BY <1>7 DEF Poll, Claim, vars
  <2> QED
    BY <1>7, <2>1 DEF Poll, outbox
<1>8. CASE Handle(w)
  <2>1. offer' = offer
    BY <1>8 DEF Handle, Succeed, Raise, Settle, Acknowledge, Mark, Retry, TurnedAway
  <2> QED
    BY <1>8, <2>1 DEF Handle, outbox
<1> QED
  BY <1>1, <1>2, <1>3, <1>4, <1>5, <1>6, <1>7, <1>8 DEF LoopStep

LEMMA WorkerStepTypes == TypeInv /\ [WorkerNext]_allVars => TypeInv'
<1> SUFFICES ASSUME TypeInv, [WorkerNext]_allVars PROVE TypeInv'
  OBVIOUS
<1>1. [Next]_vars => TypeOK' /\ HoldsEvent'
  BY StepTypes DEF TypeInv, WorkerTypeOK
<1>2. ASSUME NEW w \in Workers, LoopStep(w) PROVE TypeInv'
  BY <1>1, <1>2, LoopStepsQueue, LoopTypes DEF TypeInv, WorkerTypeOK
<1>3. ASSUME NEW e \in JobEvents, Commit(e) PROVE TypeInv'
  <2>1. unsent' \in Seq(JobEvents)
    BY <1>3 DEF Commit, TypeInv, WorkerTypeOK
  <2> QED
    BY <1>1, <1>3, <2>1 DEF Commit, loop, TypeInv, WorkerTypeOK, BatchInv, vars
<1>4. CASE (PurgeDone \/ Tick) /\ UNCHANGED <<outbox, loop>>
  <2>1. [Next]_vars /\ offer' = offer
    BY <1>4 DEF Next, PurgeDone, Tick
  <2> QED
    BY <1>1, <1>4, <2>1 DEF outbox, loop, TypeInv, WorkerTypeOK, BatchInv
<1>5. CASE UNCHANGED allVars
  BY <1>1, <1>5 DEF allVars, outbox, loop, TypeInv, WorkerTypeOK, BatchInv, vars
<1> QED
  BY <1>2, <1>3, <1>4, <1>5, CrashTypes DEF WorkerNext

\* The outbox, the batches and the workers' positions always have the shape
\* WorkerTypeOK gives them; in particular a batch is never empty where its next
\* event is needed.
THEOREM WorkerTypes == WorkerSpec => []WorkerTypeOK
<1>1. WorkerInit => TypeInv
  BY InitTypes DEF WorkerInit, TypeInv, WorkerTypeOK, BatchInv, Stages
<1>2. TypeInv => WorkerTypeOK
  BY DEF TypeInv
<1> QED
  BY <1>1, <1>2, WorkerStepTypes, PTL DEF WorkerSpec

-----------------------------------------------------------------------------
(* Nothing is lost between the databases *)

Kept == Present \cup handled

\* What was sent was accepted, and so was the event a worker will acknowledge.
SentInv ==
  /\ SentWasAccepted
  /\ \A w \in Workers : stage[w] = "acknowledge" => Head(batch[w]) \in Kept

\* A crash settles nothing.
LEMMA CrashOutcome ==
  ASSUME TypeInv, OutcomeInv, NEW w \in Workers, Crash(w)
  PROVE  OutcomeInv' /\ Kept' = Kept
<1>1. UNCHANGED <<rows, processed, handled>>
  BY DEF Crash, table
<1>2. \A v \in Workers : pc'[v] = "idle" \/ (pc'[v] = pc[v] /\ job'[v] = job[v])
  BY DEF Crash, GoIdle, TypeInv, WorkerTypeOK, TypeOK
<1>3. AcknowledgesHandled'
  BY <1>1, <1>2 DEF OutcomeInv, AcknowledgesHandled
<1>4. DoneWasHandled' /\ ProcessedWasHandled' /\ ParkedAtBudget'
  BY <1>1 DEF OutcomeInv, DoneWasHandled, ProcessedWasHandled, ParkedAtBudget
<1>5. Kept' = Kept
  BY <1>1 DEF Kept, Present
<1> QED
  BY <1>3, <1>4, <1>5 DEF OutcomeInv

\* What the queue has accepted stays in it until it was handled: only the
\* clean-up takes rows out, and it takes finished ones.
LEMMA KeptGrows ==
  ASSUME TypeOK, HoldsEvent, OutcomeInv, [Next]_vars
  PROVE  Kept \subseteq Kept'
<1> USE DEF Kept, Present
<1>1. ASSUME NEW w \in Workers, Claim(w) PROVE Kept \subseteq Kept'
  <2>1. PICK e \in Events : rows' = [rows EXCEPT ![e] = Claimed(rows[e], w)]
    BY <1>1 DEF Claim
  <2>2. Claimed(rows[e], w).state # "absent"
    BY DEF Claimed, TypeOK, Row
  <2> QED
    BY <1>1, <2>1, <2>2 DEF Claim, TypeOK
<1>2. ASSUME NEW w \in Workers, Renew(w) PROVE Kept \subseteq Kept'
  BY <1>2 DEF Renew, Renewed, TypeOK, Row
<1>3. ASSUME NEW w \in Workers, Acknowledge(w) PROVE Kept \subseteq Kept'
  <2>1. Acknowledged(rows[job[w]]).state # "absent"
    BY <1>3 DEF Acknowledge, Acknowledged, Released, HoldsEvent, TypeOK, Row
  <2> QED
    BY <1>3, <2>1 DEF Acknowledge, TypeOK
<1>4. ASSUME NEW w \in Workers, Retry(w) PROVE Kept \subseteq Kept'
  <2>1. job[w] \in Events /\ Retried(rows[job[w]]).state # "absent"
    BY <1>4, RetriedWithinBudget DEF Retry, HoldsEvent, TypeOK
  <2> QED
    BY <1>4, <2>1 DEF Retry, TypeOK
<1>5. ASSUME NEW p \in Producers, Insert(p) PROVE Kept \subseteq Kept'
  BY <1>5 DEF Insert, FreshRow, NoRow, TypeOK
<1>6. ASSUME PurgeDone PROVE Kept \subseteq Kept'
  BY <1>6 DEF PurgeDone, OutcomeInv, DoneWasHandled, TypeOK
<1>7. ASSUME Tick PROVE Kept \subseteq Kept'
  <2>1. \A r \in Row : Aged(r).state = r.state
    BY DEF Aged, Row
  <2>2. \A e \in Events : rows'[e].state = rows[e].state
    BY <1>7, <2>1 DEF Tick, TypeOK
  <2> QED
    BY <1>7, <2>2 DEF Tick
<1>8. ASSUME rows' = rows, handled \subseteq handled' PROVE Kept \subseteq Kept'
  BY <1>8
<1>9. ASSUME NEW w \in Workers,
             LoseLease(w) \/ Succeed(w) \/ Raise(w) \/ Mark(w) \/ TurnedAway(w) \/ CrashWorker(w)
      PROVE  Kept \subseteq Kept'
  BY <1>8, <1>9 DEF LoseLease, Succeed, Raise, Mark, TurnedAway, CrashWorker, table
<1>10. ASSUME NEW p \in Producers, CrashProducer(p) \/ \E e \in Events : Offer(p, e)
       PROVE  Kept \subseteq Kept'
  BY <1>8, <1>10 DEF CrashProducer, Offer, table
<1>11. CASE UNCHANGED vars
  BY <1>8, <1>11 DEF vars
<1> QED
  BY <1>1, <1>2, <1>3, <1>4, <1>5, <1>6, <1>7, <1>9, <1>10, <1>11
  DEF Next, WorkerStep, ProducerStep, Settle

LEMMA LoopSent ==
  ASSUME TypeInv, OutcomeInv, SentInv, NEW w \in Workers, LoopStep(w), Kept \subseteq Kept'
  PROVE  SentInv'
<1> USE DEF TypeInv, WorkerTypeOK, SentInv, SentWasAccepted, Kept, GoTo, AfterBatch
<1>1. CASE ReadBatch(w)
  BY <1>1 DEF ReadBatch, outbox, vars
<1>2. CASE Look(w)
  <2>1. Head(batch[w]) \in processed => Head(batch[w]) \in handled
    BY DEF OutcomeInv, ProcessedWasHandled
  <2> QED
    BY <1>2, <2>1 DEF Look, outbox, vars
<1>3. CASE InsertNext(w)
  <2>1. Head(batch[w]) \in Present'
    <3>1. offer[w] = Head(batch[w]) /\ offer[w] \in Events
      BY <1>3, EventKindsAssumption DEF InsertNext, BatchInv
    <3> QED
      BY <1>3, <3>1 DEF InsertNext, Insert, FreshRow, NoRow, Present, TypeOK
  <2> QED
    BY <1>3, <2>1 DEF InsertNext, outbox
<1>4. CASE AcknowledgeOutbox(w)
  BY <1>4 DEF AcknowledgeOutbox, LetGo, vars
<1>5. CASE Announce(w) \/ Announced(w) \/ Poll(w) \/ Handle(w)
  <2>1. sent' = sent /\ batch' = batch
    BY <1>5 DEF Announce, Announced, Poll, Handle, outbox
  <2>2. \A v \in Workers : stage'[v] = "acknowledge" => stage[v] = "acknowledge"
    BY <1>5 DEF Announce, Announced, Poll, Handle
  <2> QED
    BY <2>1, <2>2
<1> QED
  BY <1>1, <1>2, <1>3, <1>4, <1>5 DEF LoopStep

LEMMA StepSent ==
  TypeInv /\ OutcomeInv /\ SentInv /\ [WorkerNext]_allVars => OutcomeInv' /\ SentInv'
<1> SUFFICES ASSUME TypeInv, OutcomeInv, SentInv, [WorkerNext]_allVars
             PROVE  OutcomeInv' /\ SentInv'
  OBVIOUS
<1>1. [Next]_vars => OutcomeInv' /\ Kept \subseteq Kept'
  BY StepOutcome, KeptGrows DEF TypeInv, WorkerTypeOK
<1>2. ASSUME NEW w \in Workers, LoopStep(w) PROVE OutcomeInv' /\ SentInv'
  BY <1>1, <1>2, LoopStepsQueue, LoopSent
<1>3. ASSUME NEW w \in Workers, Crash(w) PROVE OutcomeInv' /\ SentInv'
  <2>1. SentInv'
    BY <1>3, CrashOutcome DEF Crash, GoTo, outbox, SentInv, SentWasAccepted, Kept, TypeInv, WorkerTypeOK
  <2> QED
    BY <1>3, <2>1, CrashOutcome
<1>4. CASE [Next]_vars /\ UNCHANGED <<sent, loop>>
  BY <1>1, <1>4 DEF loop, SentInv, SentWasAccepted, Kept
<1>5. CASE UNCHANGED allVars
  BY <1>4, <1>5 DEF allVars, outbox
<1>6. ASSUME NEW e \in JobEvents, Commit(e) PROVE OutcomeInv' /\ SentInv'
  BY <1>4, <1>6 DEF Commit
<1>7. CASE (PurgeDone \/ Tick) /\ UNCHANGED <<outbox, loop>>
  BY <1>4, <1>7 DEF outbox, Next
<1> QED
  BY <1>2, <1>3, <1>5, <1>6, <1>7 DEF WorkerNext

\* An event the outbox lets go of is in the queue or was handled, although the
\* two databases share no transaction: the worker acknowledges only behind its
\* insert or behind a marker, and both outlive every crash and every clean-up
\* until the event was handled.
THEOREM SentSound == WorkerSpec => []SentWasAccepted
<1>1. WorkerInit => TypeInv /\ OutcomeInv /\ SentInv
  <2>1. WorkerInit => TypeInv
    BY InitTypes DEF WorkerInit, TypeInv, WorkerTypeOK, BatchInv, Stages
  <2>2. WorkerInit => OutcomeInv
    BY DEF WorkerInit, Init, OutcomeInv, AcknowledgesHandled, DoneWasHandled,
           ProcessedWasHandled, ParkedAtBudget, NoRow
  <2>3. WorkerInit => SentInv
    BY DEF WorkerInit, SentInv, SentWasAccepted
  <2> QED
    BY <2>1, <2>2, <2>3
<1>2. TypeInv /\ OutcomeInv /\ SentInv /\ [WorkerNext]_allVars => (TypeInv /\ OutcomeInv /\ SentInv)'
  BY WorkerStepTypes, StepSent
<1>3. SentInv => SentWasAccepted
  BY DEF SentInv
<1> QED
  BY <1>1, <1>2, <1>3, PTL DEF WorkerSpec

=============================================================================
