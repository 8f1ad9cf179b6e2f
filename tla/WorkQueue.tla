------------------------------- MODULE WorkQueue -------------------------------
(***************************************************************************)
(* The durable work queue of db/app/queue.py with the processes around it: *)
(* producers that offer an event (the outbox dispatcher, the upload        *)
(* handler, the resume worker, the worker's start-up pass), workers that   *)
(* claim it, handle it and settle it, and the clean-up an operator runs.   *)
(*                                                                         *)
(* Every action is one database transaction, or what a process does        *)
(* between two of them, so the steps of two processes interleave where the *)
(* code lets them.  A process may die between any two transactions.        *)
(*                                                                         *)
(* Owned = TRUE is SqlAnalysisQueue under ResumeWorker.step: the token is  *)
(* passed to acknowledge, retry and renew.  Owned = FALSE is SqlMatchQueue *)
(* under MatchWorker.step: no token is passed and no lease is renewed.     *)
(***************************************************************************)
EXTENDS QueueRows, FiniteSets

CONSTANTS
  Events,      \* primary keys: event ids, or analysis ids
  NoEvent,     \* a process that has none in hand
  Producers,
  Purging,     \* whether purge_done is ever run (no deployed process runs it)
  MaxCrashes   \* bound on the processes that die in one behaviour

ASSUME NoEventAssumption == NoEvent \notin Events
ASSUME PurgingAssumption == Purging \in BOOLEAN
ASSUME CrashesAssumption == MaxCrashes \in Nat

VARIABLES
  rows,       \* the work_queue table, by event_id
  before,     \* <<e, f>>: e's row was created before f's (created_at, event_id)
  processed,  \* the processed_events table
  offer,      \* per producer, the event it has looked up and is about to insert
  pc,         \* per worker, where its step stands
  job,        \* per worker, the event it holds
  trust,      \* per worker, the time left of the lease it obtained, as it believes
  handled,    \* history: the events of which some handling has run to its end
  crashes     \* how many processes have died

vars == <<rows, before, processed, offer, pc, job, trust, handled, crashes>>

table == <<rows, before, processed>>
worker == <<pc, job, trust>>

Present == {e \in Events : rows[e].state # "absent"}

TypeOK ==
  /\ rows \in [Events -> Row]
  /\ before \subseteq Events \X Events
  /\ processed \subseteq Events
  /\ offer \in [Producers -> Events \cup {NoEvent}]
  /\ pc \in [Workers -> {"idle", "working", "succeeded", "raised", "acknowledged"}]
  /\ job \in [Workers -> Events \cup {NoEvent}]
  /\ trust \in [Workers -> 0..Lease]
  /\ handled \subseteq Events
  /\ crashes \in 0..MaxCrashes

Init ==
  /\ rows = [e \in Events |-> NoRow]
  /\ before = {}
  /\ processed = {}
  /\ offer = [p \in Producers |-> NoEvent]
  /\ pc = [w \in Workers |-> "idle"]
  /\ job = [w \in Workers |-> NoEvent]
  /\ trust = [w \in Workers |-> 0]
  /\ handled = {}
  /\ crashes = 0

-----------------------------------------------------------------------------
(* enqueue_payload: two transactions *)

\* processed.seen(event_id) answers False; a True answer ends the call.
Offer(p, e) ==
  /\ offer[p] = NoEvent
  /\ e \notin processed
  /\ offer' = [offer EXCEPT ![p] = e]
  /\ UNCHANGED <<table, worker, handled, crashes>>

\* The row is inserted unless its key is there (found by session.get, or
\* refused by the primary key when two producers insert at once).
Insert(p) ==
  LET e == offer[p] IN
  /\ e # NoEvent
  /\ IF e \in Present
     THEN UNCHANGED <<rows, before>>
     ELSE /\ rows' = [rows EXCEPT ![e] = FreshRow]
          /\ before' = {x \in before : e \notin {x[1], x[2]}} \cup (Present \X {e})
  /\ offer' = [offer EXCEPT ![p] = NoEvent]
  /\ UNCHANGED <<processed, worker, handled, crashes>>

-----------------------------------------------------------------------------
(* The worker's step: claim, handle, settle *)

\* ORDER BY created_at, event_id LIMIT 1 over the due rows.
Oldest(e) ==
  /\ Due(rows[e])
  /\ \A f \in Events \ {e} : Due(rows[f]) => <<e, f>> \in before

\* claim_payload.
Claim(w) ==
  /\ pc[w] = "idle"
  /\ \E e \in Events :
       /\ Oldest(e)
       /\ rows' = [rows EXCEPT ![e] = Claimed(@, w)]
       /\ job' = [job EXCEPT ![w] = e]
  /\ pc' = [pc EXCEPT ![w] = "working"]
  /\ trust' = [trust EXCEPT ![w] = Lease]
  /\ UNCHANGED <<before, processed, offer, handled, crashes>>

\* renew, from keep_lease's thread or from check(); only ResumeWorker renews.
Renew(w) ==
  /\ Owned
  /\ pc[w] = "working"
  /\ Renewable(rows[job[w]], w)
  /\ rows' = [rows EXCEPT ![job[w]] = Renewed(@)]
  /\ trust' = [trust EXCEPT ![w] = Lease]
  /\ UNCHANGED <<before, processed, offer, pc, job, handled, crashes>>

GoIdle(w) ==
  /\ pc' = [pc EXCEPT ![w] = "idle"]
  /\ job' = [job EXCEPT ![w] = NoEvent]
  /\ trust' = [trust EXCEPT ![w] = 0]

\* check() raised LostLease: the step ends and settles nothing.
LoseLease(w) ==
  /\ Owned
  /\ pc[w] = "working"
  /\ ~Renewable(rows[job[w]], w)
  /\ GoIdle(w)
  /\ UNCHANGED <<table, offer, handled, crashes>>

\* The handler returned, or its failure was recorded as the outcome.
Succeed(w) ==
  /\ pc[w] = "working"
  /\ pc' = [pc EXCEPT ![w] = "succeeded"]
  /\ handled' = handled \cup {job[w]}
  /\ UNCHANGED <<table, offer, job, trust, crashes>>

\* The handler raised what the step answers with a retry.
Raise(w) ==
  /\ pc[w] = "working"
  /\ pc' = [pc EXCEPT ![w] = "raised"]
  /\ UNCHANGED <<table, offer, job, trust, handled, crashes>>

\* A mutant of Acknowledge: also after a handler that raised.
AcknowledgeAlways(w) ==
  LET e == job[w] IN
  /\ pc[w] \in {"succeeded", "raised"}
  /\ ~Refused(rows[e], w)
  /\ rows' = [rows EXCEPT ![e] = Acknowledged(@)]
  /\ pc' = [pc EXCEPT ![w] = "acknowledged"]
  /\ trust' = [trust EXCEPT ![w] = 0]
  /\ UNCHANGED <<before, processed, offer, job, handled, crashes>>

\* acknowledge, its first transaction: the row is done whatever its state was.
Acknowledge(w) ==
  LET e == job[w] IN
  /\ pc[w] = "succeeded"
  /\ ~Refused(rows[e], w)
  /\ rows' = [rows EXCEPT ![e] = Acknowledged(@)]
  /\ pc' = [pc EXCEPT ![w] = "acknowledged"]
  /\ trust' = [trust EXCEPT ![w] = 0]
  /\ UNCHANGED <<before, processed, offer, job, handled, crashes>>

\* acknowledge, its second transaction: processed.mark.
Mark(w) ==
  /\ pc[w] = "acknowledged"
  /\ processed' = processed \cup {job[w]}
  /\ GoIdle(w)
  /\ UNCHANGED <<rows, before, offer, handled, crashes>>

\* retry: back to pending after a backoff, or parked.
Retry(w) ==
  LET e == job[w] IN
  /\ pc[w] = "raised"
  /\ ~Refused(rows[e], w)
  /\ rows' = [rows EXCEPT ![e] = Retried(@)]
  /\ GoIdle(w)
  /\ UNCHANGED <<before, processed, offer, handled, crashes>>

\* acknowledge or retry returned early: the row is another worker's, or gone.
TurnedAway(w) ==
  /\ pc[w] \in {"succeeded", "raised"}
  /\ Refused(rows[job[w]], w)
  /\ GoIdle(w)
  /\ UNCHANGED <<table, offer, handled, crashes>>

-----------------------------------------------------------------------------
(* Clean-up, time and crashes *)

\* purge_done: older_than_seconds decides which of the done rows go.
PurgeDone ==
  /\ Purging
  /\ \E gone \in SUBSET {e \in Events : rows[e].state = "done"} :
       /\ gone # {}
       /\ rows' = [e \in Events |-> IF e \in gone THEN NoRow ELSE rows[e]]
       /\ before' = {x \in before : x[1] \notin gone /\ x[2] \notin gone}
  /\ UNCHANGED <<processed, offer, worker, handled, crashes>>

\* Time passes for the rows and for the workers alike.
Tick ==
  /\ rows' = [e \in Events |-> Aged(rows[e])]
  /\ trust' = [w \in Workers |-> OneLess(trust[w])]
  /\ UNCHANGED <<before, processed, offer, pc, job, handled, crashes>>

\* A process dies and is restarted: what it held in memory is lost.
CrashWorker(w) ==
  /\ crashes < MaxCrashes
  /\ pc[w] # "idle"
  /\ GoIdle(w)
  /\ crashes' = crashes + 1
  /\ UNCHANGED <<table, offer, handled>>

CrashProducer(p) ==
  /\ crashes < MaxCrashes
  /\ offer[p] # NoEvent
  /\ offer' = [offer EXCEPT ![p] = NoEvent]
  /\ crashes' = crashes + 1
  /\ UNCHANGED <<table, worker, handled>>

Settle(w) == Acknowledge(w) \/ Mark(w) \/ Retry(w) \/ TurnedAway(w)

WorkerStep(w) ==
  \/ Claim(w) \/ Renew(w) \/ LoseLease(w)
  \/ Succeed(w) \/ Raise(w) \/ Settle(w) \/ CrashWorker(w)

ProducerStep(p) == (\E e \in Events : Offer(p, e)) \/ Insert(p) \/ CrashProducer(p)

Next ==
  \/ \E w \in Workers : WorkerStep(w)
  \/ \E p \in Producers : ProducerStep(p)
  \/ PurgeDone
  \/ Tick

Spec == Init /\ [][Next]_vars

-----------------------------------------------------------------------------
(* Properties *)

\* While a worker believes its lease is running, the row is inflight under
\* its token for at least as long: two workers never hold one event at a
\* time (the module docstring's "Leases", with the token passed).
ExclusiveLease ==
  \A w \in Workers :
    trust[w] > 0 => /\ Renewable(rows[job[w]], w)
                    /\ rows[job[w]].lease >= trust[w]

\* A done row means some handling of that event ran to its end: no interleaving
\* of expiring leases, retries and late acknowledgements skips an event.
DoneWasHandled == \A e \in Events : rows[e].state = "done" => e \in handled

\* processed_events turns an event away for good, so it lists only events some
\* handling of which ran to its end.
ProcessedWasHandled == processed \subseteq handled

\* A row waits for another attempt only within its budget and is parked only
\* when the budget is spent ("past max_attempts the row is parked").
ParkedAtBudget ==
  \A e \in Events :
    /\ rows[e].state = "pending" => rows[e].attempts < MaxAttempts
    /\ rows[e].state = "failed" => rows[e].attempts >= MaxAttempts

\* What the two tables say of an event is true whatever leases expire in between:
\* done and processed mean handled, parked means the budget was spent.
OutcomesAreTrue == DoneWasHandled /\ ProcessedWasHandled /\ ParkedAtBudget

\* An event that is finished or parked is never worked on again: a late
\* worker's acknowledge or retry cannot bring it back (purge_done may drop it).
SettledIsFinal ==
  [][\A e \in Events :
       rows[e].state \in {"done", "failed"} =>
         rows'[e].state \in {rows[e].state, "absent"}]_vars

\* "Past max_attempts the row is parked ..., so a poison event cannot spin
\* forever" holds for handlers that answer: an attempt beyond the budget is only
\* ever made for a holder that died or whose lease ran out before it settled.
BeyondBudgetOnlyAfterLoss ==
  [][\A e \in Events :
       rows'[e].attempts > rows[e].attempts /\ rows[e].attempts >= MaxAttempts =>
         rows[e].state = "inflight" /\ rows[e].lease = 0]_vars

-----------------------------------------------------------------------------
(* The contract the queue keeps for a client that passes its token.        *)

PhaseOf(r) ==
  CASE r.state = "absent" -> "unknown"
    [] r.state \in {"pending", "inflight"} -> "accepted"
    [] r.state = "done" -> "finished"
    [] r.state = "failed" -> "parked"

Contract == INSTANCE QueueContract WITH
  phase <- [e \in Events |-> PhaseOf(rows[e])],
  tries <- [e \in Events |-> rows[e].attempts],
  Forgetting <- Purging

\* With the token passed the queue accepts an event once, tries it until it
\* finishes or its budget is spent, and then leaves it alone; purge_done forgets
\* finished events and nothing else.
ImplementsContract == Contract!Spec
=============================================================================
