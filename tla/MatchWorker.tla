------------------------------ MODULE MatchWorker ------------------------------
(***************************************************************************)
(* The match worker (orchestration/worker.py) with the outbox dispatcher   *)
(* (orchestration/job_events.py): a process that, on every step, copies    *)
(* committed job events from the `career_jobs` outbox into the durable     *)
(* queue of `career_app` and then claims and handles one event.            *)
(*                                                                         *)
(* The two databases share no transaction.  The queue is WorkQueue, whose  *)
(* actions are conjoined with the position of the process in its loop; the *)
(* producers of WorkQueue are here the workers themselves.                 *)
(***************************************************************************)
EXTENDS WorkQueue, Sequences

CONSTANTS
  JobEvents,    \* event ids the job side commits
  BootEvents,   \* the fresh ids recover() draws for its reconciliation events
  BatchSize     \* OutboxDispatcher's batch_size

ASSUME EventKindsAssumption ==
  /\ Events = JobEvents \cup BootEvents
  /\ JobEvents \cap BootEvents = {}
ASSUME BatchAssumption == BatchSize \in Nat \ {0}
ASSUME DispatchersAssumption == Producers = Workers

VARIABLES
  unsent,   \* job_change_events without acknowledged_at, oldest first
  sent,     \* job_change_events with acknowledged_at
  batch,    \* per worker, the rest of the batch dispatch_once is moving
  stage,    \* per worker, its position in recover() or step()
  booting   \* per worker, whether it is still in recover()

loop == <<batch, stage, booting>>
outbox == <<unsent, sent>>
allVars == <<vars, outbox, loop>>

Members(s) == {s[i] : i \in 1..Len(s)}
Committed == Members(unsent) \cup sent

Stages == {"read", "look", "insert", "acknowledge", "announce", "announcing", "claim", "work"}

WorkerTypeOK ==
  /\ TypeOK
  /\ unsent \in Seq(JobEvents) /\ sent \subseteq JobEvents
  /\ batch \in [Workers -> Seq(JobEvents)]
  /\ stage \in [Workers -> Stages]
  /\ booting \in [Workers -> BOOLEAN]

WorkerInit ==
  /\ Init
  /\ unsent = <<>> /\ sent = {}
  /\ batch = [w \in Workers |-> <<>>]
  /\ stage = [w \in Workers |-> "read"]
  /\ booting = [w \in Workers |-> TRUE]

GoTo(w, s) == stage' = [stage EXCEPT ![w] = s]

\* Where the process goes when the batch is moved: recover() enqueues its
\* reconciliation event, step() claims.
AfterBatch(w) == IF booting[w] THEN "announce" ELSE "claim"

\* save_with_event committed an event on the job side.
Commit(e) ==
  /\ e \notin Committed
  /\ unsent' = Append(unsent, e)
  /\ UNCHANGED <<vars, sent, loop>>

\* outbox.pending(limit): the oldest unacknowledged events.
ReadBatch(w) ==
  /\ stage[w] = "read"
  /\ batch' = [batch EXCEPT ![w] = SubSeq(unsent, 1, IF Len(unsent) < BatchSize
                                                      THEN Len(unsent) ELSE BatchSize)]
  /\ GoTo(w, IF unsent = <<>> THEN AfterBatch(w) ELSE "look")
  /\ UNCHANGED <<vars, outbox, booting>>

\* A mutant of Look: the answer of processed.seen is taken the wrong way round.
LookInverted(w) ==
  LET e == Head(batch[w]) IN
  /\ stage[w] = "look"
  /\ IF e \in processed
     THEN GoTo(w, "insert") /\ offer' = [offer EXCEPT ![w] = e]
          /\ UNCHANGED <<table, worker, handled, crashes>>
     ELSE GoTo(w, "acknowledge") /\ UNCHANGED vars
  /\ UNCHANGED <<outbox, batch, booting>>

\* queue.enqueue: processed.seen for the next event of the batch.
Look(w) ==
  LET e == Head(batch[w]) IN
  /\ stage[w] = "look"
  /\ IF e \in processed
     THEN GoTo(w, "acknowledge") /\ UNCHANGED vars
     ELSE GoTo(w, "insert") /\ Offer(w, e)
  /\ UNCHANGED <<outbox, batch, booting>>

\* queue.enqueue: the durable insert.
InsertNext(w) ==
  /\ stage[w] = "insert"
  /\ Insert(w)
  /\ GoTo(w, "acknowledge")
  /\ UNCHANGED <<outbox, batch, booting>>

\* UPDATE ... SET acknowledged_at ... WHERE event_id = e.
LetGo(e) ==
  /\ sent' = sent \cup {e}
  /\ \/ \E i \in 1..Len(unsent) :
          unsent[i] = e /\ unsent' = SubSeq(unsent, 1, i - 1) \o SubSeq(unsent, i + 1, Len(unsent))
     \/ e \notin Members(unsent) /\ unsent' = unsent

\* A mutant of AcknowledgeOutbox: it names the event in hand, which is gone by now.
AcknowledgeInHand(w) ==
  /\ stage[w] = "acknowledge"
  /\ LetGo(offer[w])
  /\ batch' = [batch EXCEPT ![w] = Tail(@)]
  /\ GoTo(w, IF Tail(batch[w]) = <<>> THEN AfterBatch(w) ELSE "look")
  /\ UNCHANGED <<vars, booting>>

\* outbox.acknowledge, after the insert and never before.
AcknowledgeOutbox(w) ==
  /\ stage[w] = "acknowledge"
  /\ LetGo(Head(batch[w]))
  /\ batch' = [batch EXCEPT ![w] = Tail(@)]
  /\ GoTo(w, IF Tail(batch[w]) = <<>> THEN AfterBatch(w) ELSE "look")
  /\ UNCHANGED <<vars, booting>>

\* recover(): a reconciliation event under a new id.
Announce(w) ==
  /\ stage[w] = "announce"
  /\ \E e \in BootEvents :
       /\ e \notin Present \cup handled
       /\ \A v \in Workers : offer[v] # e
       /\ Offer(w, e)
  /\ GoTo(w, "announcing")
  /\ UNCHANGED <<outbox, batch, booting>>

\* A mutant of Announced: recover() ends where it began.
AnnouncedAgain(w) ==
  /\ stage[w] = "announcing"
  /\ Insert(w)
  /\ GoTo(w, "read")
  /\ UNCHANGED <<outbox, batch, booting>>

Announced(w) ==
  /\ stage[w] = "announcing"
  /\ Insert(w)
  /\ booting' = [booting EXCEPT ![w] = FALSE]
  /\ GoTo(w, "read")
  /\ UNCHANGED <<outbox, batch>>

\* step(): the claim, or the end of a step that found nothing due.
Poll(w) ==
  /\ stage[w] = "claim"
  /\ IF \E e \in Events : Due(rows[e])
     THEN Claim(w) /\ GoTo(w, "work")
     ELSE GoTo(w, "read") /\ UNCHANGED vars
  /\ UNCHANGED <<outbox, batch, booting>>

\* step(): the handler, then acknowledge or retry.
Handle(w) ==
  /\ stage[w] = "work"
  /\ Succeed(w) \/ Raise(w) \/ Settle(w)
  /\ GoTo(w, IF pc'[w] = "idle" THEN "read" ELSE "work")
  /\ UNCHANGED <<outbox, batch, booting>>

\* The process dies anywhere in its loop and comes up in recover().
Crash(w) ==
  /\ crashes < MaxCrashes
  /\ crashes' = crashes + 1
  /\ GoIdle(w)
  /\ offer' = [offer EXCEPT ![w] = NoEvent]
  /\ batch' = [batch EXCEPT ![w] = <<>>]
  /\ booting' = [booting EXCEPT ![w] = TRUE]
  /\ GoTo(w, "read")
  /\ UNCHANGED <<table, handled, outbox>>

LoopStep(w) ==
  \/ ReadBatch(w) \/ Look(w) \/ InsertNext(w) \/ AcknowledgeOutbox(w)
  \/ Announce(w) \/ Announced(w) \/ Poll(w) \/ Handle(w)

WorkerNext ==
  \/ \E e \in JobEvents : Commit(e)
  \/ \E w \in Workers : LoopStep(w) \/ Crash(w)
  \/ PurgeDone /\ UNCHANGED <<outbox, loop>>
  \/ Tick /\ UNCHANGED <<outbox, loop>>

WorkerSpec == WorkerInit /\ [][WorkerNext]_allVars

\* The worker's loop never stops of itself and time passes; commits and
\* crashes are owed by nobody.
WorkerFairSpec ==
  /\ WorkerSpec
  /\ \A w \in Workers : WF_allVars(LoopStep(w))
  /\ WF_allVars(Tick /\ UNCHANGED <<outbox, loop>>)

-----------------------------------------------------------------------------
(* Properties *)

\* "Losing an event is not possible" (job_events.py): an event the outbox has
\* let go of has its row in the queue, or was handled and cleaned up; a crash
\* between the two databases only delivers it again.
SentWasAccepted == \A e \in sent : e \in Present \/ e \in handled

\* A committed job event is handled or parked in the end, although the only
\* dispatcher is the worker's own loop and a batch may be smaller than the
\* backlog.
CommittedIsSettled ==
  \A e \in JobEvents : e \in Committed ~> (e \in handled \/ rows[e].state = "failed")

\* Every process that comes up gets past recover(), and its reconciliation
\* event is in the queue by then.
BootsAnnounced ==
  \A w \in Workers : booting[w] ~> (~booting[w] /\ \E e \in BootEvents : e \in Present)
=============================================================================
