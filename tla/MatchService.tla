------------------------------ MODULE MatchService ------------------------------
(***************************************************************************)
(* Incremental matching and publication: MatchService.handle and           *)
(* OutboxDispatcher's events (orchestration/job_events.py), match runs     *)
(* (orchestration/runs.py), the publisher (orchestration/refresh.py) and   *)
(* the score and revision tables (db/app/matches.py).                      *)
(*                                                                         *)
(* Each action is one transaction of the handler, or the reads it makes at *)
(* one place; what it has read is kept in the worker's record and used     *)
(* later.  The score of a pair of versions never changes, so a ranking is  *)
(* the set of job versions in it.                                          *)
(***************************************************************************)
EXTENDS Integers, Sequences, FiniteSets, FiniteSetsExt

CONSTANTS
  Cands,               \* candidate ids, which order the batches
  Jobs,                \* job ids
  Workers,             \* match workers
  BatchSize,           \* candidates in a batch of list_active
  MaxJobVersion,       \* bound on the versions of a job
  MaxProfileVersion,   \* bound on the versions of a profile
  Expiring,            \* whether a candidate's retention period may run out
  Parking,             \* whether a failing event's attempts may run out
  MaxFailures,         \* bound on the handlers that raise
  MaxCrashes           \* bound on the workers that die

ASSUME IdsAssumption ==
  Cands \subseteq Nat \ {0} /\ IsFiniteSet(Cands) /\ Jobs \subseteq Nat \ {0}
ASSUME BoundsAssumption ==
  /\ BatchSize \in Nat \ {0}
  /\ MaxJobVersion \in Nat /\ MaxProfileVersion \in Nat
  /\ MaxFailures \in Nat /\ MaxCrashes \in Nat
ASSUME SwitchesAssumption == Expiring \in BOOLEAN /\ Parking \in BOOLEAN

-----------------------------------------------------------------------------
(* Events (contracts/models.py, DomainEvent) *)

ProfileReady(c, v) == [type |-> "profile.ready", id |-> c, version |-> v]
JobChanged(j, v) == [type |-> "job.updated", id |-> j, version |-> v]
JobExpired(j, v) == [type |-> "job.expired", id |-> j, version |-> v]
Reconcile(n) == [type |-> "reconciliation.requested", id |-> n, version |-> 0]

Events ==
  {ProfileReady(c, v) : c \in Cands, v \in 1..MaxProfileVersion}
    \cup {JobChanged(j, v) : j \in Jobs, v \in 1..MaxJobVersion}
    \cup {JobExpired(j, v) : j \in Jobs, v \in 1..MaxJobVersion}
    \cup {Reconcile(n) : n \in 1..MaxCrashes}

NoEvent == [type |-> "none", id |-> 0, version |-> 0]

VARIABLES
  jobs,        \* per job: its latest version (0: none yet) and whether it is active
  profiles,    \* per candidate: the current profile version (0: none yet)
  owed,        \* candidates whose newest profile is saved but not yet enqueued
  expired,     \* candidates whose retention period has run out
  scores,      \* match_results: <<candidate, profile version, job, job version>>
  revisions,   \* per candidate: the published revisions, oldest first
  queue,       \* per event: unknown, waiting, delayed (in its backoff), taken, done or parked
  runs,        \* match_runs, per event: state and checkpoint (0: none)
  work,        \* per worker: where its handler stands and what it has read
  raised,      \* history: whether a handler has raised since a worker last started
  overtaken,   \* history: reopened jobs whose scores an older closing has dropped
  failures, crashes

vars == <<jobs, profiles, owed, expired, scores, revisions, queue, runs, work,
          raised, overtaken, failures, crashes>>

world == <<jobs, profiles, owed, expired>>
counters == <<raised, overtaken, failures, crashes>>

JobVersions == Jobs \X (1..MaxJobVersion)
Revision == [profile : 0..MaxProfileVersion, ranking : SUBSET JobVersions]
Scores == Cands \X (1..MaxProfileVersion) \X Jobs \X (1..MaxJobVersion)

Idle == [pc |-> "idle", event |-> NoEvent, seen |-> {}, last |-> 0, found |-> {},
         todo |-> {}, plan |-> [profile |-> 0, ranking |-> {}], number |-> 0]

Places == {"idle", "start", "profile", "job", "page", "store", "checkpoint", "affected",
           "remove", "candidate", "rank", "compare", "number", "publish", "finish",
           "acknowledge", "fail", "retry"}

TypeOK ==
  /\ jobs \in [Jobs -> [version : 0..MaxJobVersion, active : BOOLEAN]]
  /\ profiles \in [Cands -> 0..MaxProfileVersion]
  /\ owed \subseteq Cands /\ expired \subseteq Cands
  /\ scores \subseteq Scores
  /\ revisions \in [Cands -> Seq(Revision)]
  /\ queue \in [Events -> {"unknown", "waiting", "delayed", "taken", "done", "parked"}]
  /\ runs \in [Events -> [state : {"none", "running", "ready", "failed"},
                          checkpoint : Cands \cup {0}]]
  /\ work \in [Workers -> [pc : Places, event : Events \cup {NoEvent}, seen : SUBSET Cands,
                           last : Cands \cup {0}, found : SUBSET Scores,
                           todo : SUBSET Cands, plan : Revision, number : Nat]]
  /\ raised \in BOOLEAN /\ overtaken \subseteq Jobs
  /\ failures \in 0..MaxFailures /\ crashes \in 0..MaxCrashes

\* The system as deployed and running: the first start's reconciliation event
\* has found no candidate yet.
Init ==
  /\ jobs = [j \in Jobs |-> [version |-> 0, active |-> FALSE]]
  /\ profiles = [c \in Cands |-> 0]
  /\ owed = {} /\ expired = {}
  /\ scores = {}
  /\ revisions = [c \in Cands |-> <<>>]
  /\ queue = [e \in Events |-> "unknown"]
  /\ runs = [e \in Events |-> [state |-> "none", checkpoint |-> 0]]
  /\ work = [w \in Workers |-> Idle]
  /\ raised = FALSE /\ overtaken = {} /\ failures = 0 /\ crashes = 0

-----------------------------------------------------------------------------
(* The world the handlers read *)

\* save_with_event for an import: a new content version, its event in the outbox.
ImportJob(j) ==
  LET v == jobs[j].version + 1 IN
  /\ v <= MaxJobVersion
  /\ jobs' = [jobs EXCEPT ![j] = [version |-> v, active |-> TRUE]]
  /\ queue' = [queue EXCEPT ![JobChanged(j, v)] = "waiting"]
  /\ overtaken' = overtaken \ {j}
  /\ UNCHANGED <<profiles, owed, expired, scores, revisions, runs, work,
                 raised, failures, crashes>>

\* mark_closed: an inactive version and its job.expired event.
CloseJob(j) ==
  LET v == jobs[j].version + 1 IN
  /\ jobs[j].active
  /\ v <= MaxJobVersion
  /\ jobs' = [jobs EXCEPT ![j] = [version |-> v, active |-> FALSE]]
  /\ queue' = [queue EXCEPT ![JobExpired(j, v)] = "waiting"]
  /\ overtaken' = overtaken \ {j}
  /\ UNCHANGED <<profiles, owed, expired, scores, revisions, runs, work,
                 raised, failures, crashes>>

\* ResumeWorker.process saves a profile version, and later enqueues profile.ready;
\* it asks about retention only when it begins.  An upload waits for the
\* analysis before it, so one event is owed at a time.
SaveProfile(c) ==
  /\ c \notin owed
  /\ profiles[c] < MaxProfileVersion
  /\ profiles' = [profiles EXCEPT ![c] = @ + 1]
  /\ owed' = owed \cup {c}
  /\ UNCHANGED <<jobs, expired, scores, revisions, queue, runs, work, counters>>

EnqueueProfile(c) ==
  /\ c \in owed
  /\ owed' = owed \ {c}
  /\ queue' = [queue EXCEPT ![ProfileReady(c, profiles[c])] = "waiting"]
  /\ UNCHANGED <<jobs, profiles, expired, scores, revisions, runs, work, counters>>

\* candidates.expires_at passes.
Expire(c) ==
  /\ Expiring
  /\ expired' = expired \cup {c}
  /\ UNCHANGED <<jobs, profiles, owed, scores, revisions, queue, runs, work, counters>>

-----------------------------------------------------------------------------
(* What the handler reads *)

\* A mutant of ListActive: a candidate without a profile is listed too.
ListEveryone(w, after) ==
  LET all == {c \in Cands : c > after /\ c \notin work[w].seen}
  IN {c \in all : Cardinality({d \in all : d < c}) < BatchSize}

\* SqlProfileRepository.list_active(now): the retention test uses the instant
\* at which the run started.
ListActive(w, after) ==
  LET all == {c \in Cands : c > after /\ profiles[c] > 0 /\ c \notin work[w].seen}
  IN {c \in all : Cardinality({d \in all : d < c}) < BatchSize}

\* RecommendationPublisher._rank: the scores of this profile version whose job
\* is active and still at the scored version.
Rank(c, p) ==
  {x \in JobVersions : /\ <<c, p, x[1], x[2]>> \in scores
                       /\ jobs[x[1]].active
                       /\ jobs[x[1]].version = x[2]}

Latest(c) == revisions[c][Len(revisions[c])]

\* SqlJobRepository.list_active.
ActiveJobs == {<<j, jobs[j].version>> : j \in {i \in Jobs : jobs[i].active}}

-----------------------------------------------------------------------------
(* Helpers of the handler's steps *)

Moves(w, record) == work' = [work EXCEPT ![w] = record]
Goes(w, place) == Moves(w, [work[w] EXCEPT !.pc = place])

\* After the candidate at the head of the list is dealt with.
NextCandidate(w) ==
  LET rest == work[w].todo \ {Min(work[w].todo)} IN
  Moves(w, [work[w] EXCEPT !.todo = rest, !.plan = Idle.plan, !.number = 0,
              !.pc = CASE rest # {} -> "candidate"
                       [] rest = {} /\ work[w].event.type = "reconciliation.requested" -> "checkpoint"
                       [] OTHER -> "finish"])

\* To publication for the candidates of a set, or past it.
PublishFor(w, cs) ==
  Moves(w, [work[w] EXCEPT !.todo = cs, !.pc = IF cs = {} THEN "finish" ELSE "candidate"])

-----------------------------------------------------------------------------
(* Claiming and starting a run *)

Held(e) == \E w \in Workers : work[w].event = e

JobEvents == {"job.updated", "job.expired"}

\* Two events of one job, or of one candidate, are enqueued in the order of their
\* versions.  Of any other two, a start's reconciliation among them, either may
\* be the older one.
Older(d, e) ==
  /\ d.id = e.id /\ d.version < e.version
  /\ {d.type, e.type} \subseteq JobEvents \/ {d.type, e.type} = {"profile.ready"}

\* queue.claim takes the oldest row that is due: never one behind a waiting row of
\* the same job or candidate, but one behind a row in its backoff, or behind a row
\* in flight whose holder died, which is claimed again when its lease is over.  A
\* lease that runs out under a live worker is WorkQueue's subject.
Claim(w, e) ==
  /\ work[w].pc = "idle"
  /\ queue[e] \in {"waiting", "delayed"} \/ (queue[e] = "taken" /\ ~Held(e))
  /\ ~ \E d \in Events : Older(d, e) /\ queue[d] = "waiting"
  /\ queue' = [queue EXCEPT ![e] = "taken"]
  /\ Moves(w, [Idle EXCEPT !.pc = "start", !.event = e])
  /\ UNCHANGED <<world, scores, revisions, runs, counters>>

\* runs.start keeps the row, and with it the checkpoint, of a redelivered event;
\* `now` is read once, here.  A reconciliation reads its checkpoint next.
Start(w) ==
  LET e == work[w].event IN
  /\ work[w].pc = "start"
  /\ runs' = [runs EXCEPT ![e] = [runs[e] EXCEPT !.state = "running"]]
  /\ Moves(w, [work[w] EXCEPT !.seen = expired,
                 !.last = IF e.type = "reconciliation.requested" THEN runs[e].checkpoint ELSE 0,
                 !.pc = CASE e.type = "profile.ready" -> "profile"
                          [] e.type = "job.updated" -> "job"
                          [] e.type = "job.expired" -> "affected"
                          [] OTHER -> "page"])
  /\ UNCHANGED <<world, scores, revisions, queue, counters>>

-----------------------------------------------------------------------------
(* _handle_profile_ready *)

\* An obsolete event ends its run; otherwise every active job is scored.
ReadProfile(w) ==
  LET e == work[w].event IN
  /\ work[w].pc = "profile"
  /\ IF profiles[e.id] = e.version /\ e.id \notin work[w].seen
     THEN Moves(w, [work[w] EXCEPT !.pc = "store",
                      !.found = {<<e.id, e.version, x[1], x[2]>> : x \in ActiveJobs}])
     ELSE Goes(w, "finish")
  /\ UNCHANGED <<world, scores, revisions, queue, runs, counters>>

-----------------------------------------------------------------------------
(* _handle_job_change and _retire_job *)

\* A superseded version ends the run, an inactive one is retired; an active one
\* is scored from the run's checkpoint on.
ReadJob(w) ==
  LET e == work[w].event IN
  /\ work[w].pc = "job"
  /\ Moves(w, [work[w] EXCEPT !.last = runs[e].checkpoint,
                 !.pc = CASE jobs[e.id].version # e.version -> "finish"
                          [] jobs[e.id].version = e.version /\ jobs[e.id].active -> "page"
                          [] OTHER -> "affected"])
  /\ UNCHANGED <<world, scores, revisions, queue, runs, counters>>

\* The next batch of candidates.  A changed job scores them and remembers them
\* in `touched`, to be published after the last batch; a reconciliation
\* publishes them at once.
ReadPage(w) ==
  LET e == work[w].event
      batch == ListActive(w, work[w].last)
  IN
  /\ work[w].pc = "page"
  /\ IF batch = {}
     THEN IF e.type = "job.updated"
          THEN PublishFor(w, work[w].todo)
          ELSE Goes(w, "finish")
     ELSE IF e.type = "job.updated"
          THEN Moves(w, [work[w] EXCEPT !.pc = "store", !.last = Max(batch),
                           !.todo = @ \cup batch,
                           !.found = {<<c, profiles[c], e.id, e.version>> : c \in batch}])
          ELSE Moves(w, [work[w] EXCEPT !.pc = "candidate", !.last = Max(batch), !.todo = batch])
  /\ UNCHANGED <<world, scores, revisions, queue, runs, counters>>

\* matches.upsert, a transaction for each score.
Store(w) ==
  /\ work[w].pc = "store"
  /\ \E s \in work[w].found :
       /\ scores' = scores \cup {s}
       /\ Moves(w, [work[w] EXCEPT !.found = @ \ {s}])
  /\ UNCHANGED <<world, revisions, queue, runs, counters>>

\* All of them are stored.
Stored(w) ==
  /\ work[w].pc = "store"
  /\ work[w].found = {}
  /\ IF work[w].event.type = "profile.ready"
     THEN PublishFor(w, {work[w].event.id})
     ELSE Goes(w, "checkpoint")
  /\ UNCHANGED <<world, scores, revisions, queue, runs, counters>>

\* A mutant of Checkpoint: the candidate after the batch, as if the listing
\* included the one it starts at.
CheckpointNext(w) ==
  LET e == work[w].event IN
  /\ work[w].pc = "checkpoint"
  /\ runs' = [runs EXCEPT ![e] = [runs[e] EXCEPT !.checkpoint =
                                     Max(Cands \cap {work[w].last, work[w].last + 1})]]
  /\ Goes(w, "page")
  /\ UNCHANGED <<world, scores, revisions, queue, counters>>

\* runs.checkpoint, after the batch is stored (or published).
Checkpoint(w) ==
  LET e == work[w].event IN
  /\ work[w].pc = "checkpoint"
  /\ runs' = [runs EXCEPT ![e] = [runs[e] EXCEPT !.checkpoint = work[w].last]]
  /\ Goes(w, "page")
  /\ UNCHANGED <<world, scores, revisions, queue, counters>>

\* _candidates_with_job, before the scores are dropped.
ReadAffected(w) ==
  LET j == work[w].event.id
      affected == {c \in Cands \ work[w].seen :
                     \E v \in 1..MaxJobVersion : <<c, profiles[c], j, v>> \in scores}
  IN
  /\ work[w].pc = "affected"
  /\ Moves(w, [work[w] EXCEPT !.pc = "remove", !.todo = affected])
  /\ UNCHANGED <<world, scores, revisions, queue, runs, counters>>

\* History only: the closing of an earlier version, handled when the work on the
\* reopened one has begun.
Reopened(e) ==
  LET job == jobs[e.id] IN
  job.active /\ job.version > e.version /\ queue[JobChanged(e.id, job.version)] # "waiting"

\* matches.remove_job drops the scores of every version of the job.
RemoveJob(w) ==
  LET e == work[w].event IN
  /\ work[w].pc = "remove"
  /\ scores' = {s \in scores : s[3] # e.id}
  /\ overtaken' = IF Reopened(e) THEN overtaken \cup {e.id} ELSE overtaken
  /\ PublishFor(w, work[w].todo)
  /\ UNCHANGED <<world, revisions, queue, runs, raised, failures, crashes>>

-----------------------------------------------------------------------------
(* publish_for *)

\* The profile, and the retention test at the run's `now`.
ReadCandidate(w) ==
  LET c == Min(work[w].todo) IN
  /\ work[w].pc = "candidate"
  /\ IF profiles[c] = 0 \/ c \in work[w].seen
     THEN NextCandidate(w)
     ELSE Moves(w, [work[w] EXCEPT !.pc = "rank", !.plan = [Idle.plan EXCEPT !.profile = profiles[c]]])
  /\ UNCHANGED <<world, scores, revisions, queue, runs, counters>>

ReadRanking(w) ==
  LET c == Min(work[w].todo)
      p == work[w].plan.profile
  IN
  /\ work[w].pc = "rank"
  /\ Moves(w, [work[w] EXCEPT !.pc = "compare", !.plan = [profile |-> p, ranking |-> Rank(c, p)]])
  /\ UNCHANGED <<world, scores, revisions, queue, runs, counters>>

\* A mutant of Compare: a revision for every event.
CompareNothing(w) ==
  /\ work[w].pc = "compare"
  /\ Goes(w, "number")
  /\ UNCHANGED <<world, scores, revisions, queue, runs, counters>>

\* recommendations.latest.
Compare(w) ==
  LET c == Min(work[w].todo) IN
  /\ work[w].pc = "compare"
  /\ IF revisions[c] # <<>> /\ Latest(c) = work[w].plan
     THEN NextCandidate(w)
     ELSE Goes(w, "number")
  /\ UNCHANGED <<world, scores, revisions, queue, runs, counters>>

\* recommendations.next_revision.
Number(w) ==
  LET c == Min(work[w].todo) IN
  /\ work[w].pc = "number"
  /\ Moves(w, [work[w] EXCEPT !.pc = "publish", !.number = Len(revisions[c]) + 1])
  /\ UNCHANGED <<world, scores, revisions, queue, runs, counters>>

\* recommendations.publish: where the revision is there already, an equal
\* result_count passes for a replay; another one, or a row that came between the
\* look-up and the insert, raises.
Publish(w) ==
  LET c == Min(work[w].todo)
      n == work[w].number
  IN
  /\ work[w].pc = "publish"
  /\ \/ /\ n > Len(revisions[c])
        /\ revisions' = [revisions EXCEPT ![c] = Append(@, work[w].plan)]
        /\ NextCandidate(w)
        /\ UNCHANGED raised
     \/ /\ n <= Len(revisions[c])
        /\ Cardinality(revisions[c][n].ranking) = Cardinality(work[w].plan.ranking)
        /\ NextCandidate(w)
        /\ UNCHANGED <<revisions, raised>>
     \/ /\ n <= Len(revisions[c])
        /\ Goes(w, "fail")
        /\ raised' = TRUE
        /\ UNCHANGED revisions
  /\ UNCHANGED <<world, scores, queue, runs, overtaken, failures, crashes>>

-----------------------------------------------------------------------------
(* The end of a run *)

\* runs.finish clears the checkpoint.
Finish(w) ==
  /\ work[w].pc = "finish"
  /\ runs' = [runs EXCEPT ![work[w].event] = [state |-> "ready", checkpoint |-> 0]]
  /\ Goes(w, "acknowledge")
  /\ UNCHANGED <<world, scores, revisions, queue, counters>>

\* queue.acknowledge, which asks for no token.
Acknowledge(w) ==
  /\ work[w].pc = "acknowledge"
  /\ queue' = [queue EXCEPT ![work[w].event] = "done"]
  /\ Moves(w, Idle)
  /\ UNCHANGED <<world, scores, revisions, runs, counters>>

\* A database or a model call of the handler raises.
Raise(w) ==
  /\ failures < MaxFailures
  /\ work[w].pc \in Places \ {"idle", "start", "acknowledge", "fail", "retry"}
  /\ failures' = failures + 1
  /\ raised' = TRUE
  /\ Goes(w, "fail")
  /\ UNCHANGED <<world, scores, revisions, queue, runs, overtaken, crashes>>

\* runs.fail keeps the checkpoint.
Fail(w) ==
  LET e == work[w].event IN
  /\ work[w].pc = "fail"
  /\ runs' = [runs EXCEPT ![e] = [runs[e] EXCEPT !.state = "failed"]]
  /\ Goes(w, "retry")
  /\ UNCHANGED <<world, scores, revisions, queue, counters>>

\* queue.retry, which asks for no token either: the row waits for its backoff, or
\* is parked (WorkQueue says when).
Retry(w) ==
  LET e == work[w].event IN
  /\ work[w].pc = "retry"
  /\ \E fate \in {"delayed"} \cup (IF Parking THEN {"parked"} ELSE {}) :
       queue' = [queue EXCEPT ![e] = fate]
  /\ Moves(w, Idle)
  /\ UNCHANGED <<world, scores, revisions, runs, counters>>

\* A mutant of Crash: the worker comes up without recover().
CrashWithoutRecovery(w) ==
  /\ crashes < MaxCrashes
  /\ work[w].pc # "idle"
  /\ crashes' = crashes + 1
  /\ raised' = FALSE
  /\ Moves(w, Idle)
  /\ UNCHANGED <<world, scores, revisions, queue, runs, overtaken, failures>>

\* The process dies and comes up again; recover() enqueues a reconciliation.
Crash(w) ==
  /\ crashes < MaxCrashes
  /\ work[w].pc # "idle"
  /\ crashes' = crashes + 1
  /\ raised' = FALSE
  /\ queue' = [queue EXCEPT ![Reconcile(crashes + 1)] = "waiting"]
  /\ Moves(w, Idle)
  /\ UNCHANGED <<world, scores, revisions, runs, overtaken, failures>>

HandlerStep(w) ==
  \/ Start(w) \/ ReadProfile(w) \/ ReadJob(w) \/ ReadPage(w)
  \/ Store(w) \/ Stored(w) \/ Checkpoint(w) \/ ReadAffected(w) \/ RemoveJob(w)
  \/ ReadCandidate(w) \/ ReadRanking(w) \/ Compare(w) \/ Number(w) \/ Publish(w)
  \/ Finish(w) \/ Acknowledge(w) \/ Fail(w) \/ Retry(w)

Next ==
  \/ \E j \in Jobs : ImportJob(j) \/ CloseJob(j)
  \/ \E c \in Cands : SaveProfile(c) \/ EnqueueProfile(c) \/ Expire(c)
  \/ \E w \in Workers :
       (\E e \in Events : Claim(w, e)) \/ HandlerStep(w) \/ Raise(w) \/ Crash(w)

Spec == Init /\ [][Next]_vars

\* Workers poll for ever; nobody owes a change, nor the event of a saved profile
\* (an analysis may fail in between, ResumeAnalysis).
FairSpec ==
  /\ Spec
  /\ \A w \in Workers : WF_vars(HandlerStep(w)) /\ WF_vars(\E e \in Events : Claim(w, e))

-----------------------------------------------------------------------------
(* Properties *)

Settled ==
  /\ owed = {}
  /\ \A e \in Events : queue[e] \in {"unknown", "done"}
  /\ \A w \in Workers : work[w].pc = "idle"

\* What a retained candidate's newest revision should hold.
Current(c) ==
  IF revisions[c] = <<>>
  THEN profiles[c] = 0
  ELSE Latest(c) = [profile |-> profiles[c], ranking |-> ActiveJobs]

\* "`handle` is safe to call twice for one event" (job_events.py): when every
\* event has been handled, each retained candidate's newest revision is for the
\* current profile and ranks exactly the active jobs at their current versions.
SettledIsCurrent == Settled => \A c \in Cands \ expired : Current(c)

\* "Crash/replay loses no job change" (plan.md, C-08): the same where no handler
\* has raised since a worker last started.
ReplayLosesNoChange == ~raised => SettledIsCurrent

\* The same where no closing overtook its reopened job: no order of profile events,
\* job events, crashes, redeliveries and batches leaves a candidate behind, and a
\* start's reconciliation repairs what earlier failures left.
RestartRepairs == overtaken = {} => ReplayLosesNoChange

\* A checkpoint skips only what is stored: every retained candidate up to it has
\* the job's score for its current profile, or a profile event that will score
\* it is still to be handled or has been given up (or an older closing of the job
\* has dropped the scores).
CheckpointCovers ==
  \A j \in Jobs, v \in 1..MaxJobVersion :
    LET run == runs[JobChanged(j, v)] IN
    jobs[j] = [version |-> v, active |-> TRUE] /\ j \notin overtaken =>
      \A c \in Cands \ expired :
        c <= run.checkpoint /\ profiles[c] > 0 =>
          \/ <<c, profiles[c], j, v>> \in scores
          \/ c \in owed
          \/ queue[ProfileReady(c, profiles[c])] \in {"waiting", "delayed", "taken", "parked"}

\* A new revision differs from the one before it: nothing is published twice
\* however often events are redelivered ("do not churn revisions").
NoChurn ==
  \A c \in Cands : \A n \in 1..(Len(revisions[c]) - 1) :
    revisions[c][n] # revisions[c][n + 1]

\* Once imports and uploads stop, every retained candidate's newest revision
\* becomes current and stays so, with nobody asking for it, unless a handler
\* raised and no worker has started since, an older closing overtook a reopened
\* job, an event is parked, or the newest profile was never announced.
EventuallyCurrent ==
  \A c \in Cands :
    <>[](~raised /\ overtaken = {} /\ c \notin owed /\ (\A e \in Events : queue[e] # "parked")
           => c \in expired \/ Current(c))
=============================================================================
