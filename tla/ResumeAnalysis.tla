----------------------------- MODULE ResumeAnalysis -----------------------------
(***************************************************************************)
(* From an upload to ranked jobs, for one candidate: the intake            *)
(* transaction (modules/resume/service.py), the resume worker              *)
(* (modules/resume/worker.py, lease.py) over the analysis queue, and the   *)
(* life of an analysis (db/app/analyses.py).                               *)
(*                                                                         *)
(* An upload is known by its analysis; its resume has the same name.  The  *)
(* rows of the queue are those of QueueRows, with the token passed.  Match *)
(* events are followed only as far as the analysis sees them.  Each action *)
(* is one transaction, or the reads the worker makes at one place; what it *)
(* has read stays in its record.                                           *)
(***************************************************************************)
EXTENDS QueueRows, Sequences

CONSTANTS
  Analyses,
  NoAnalysis,   \* a worker that has none in hand
  Lapsing,      \* whether the lease of a live worker may run out
  MaxCrashes    \* bound on the processes that die

ASSUME TokenAssumption == Owned
ASSUME NoAnalysisAssumption == NoAnalysis \notin Analyses
ASSUME LapsingAssumption == Lapsing \in BOOLEAN /\ MaxCrashes \in Nat

VARIABLES
  upload,      \* per upload, where its request stands
  files,       \* the object store
  quality,     \* per upload, what its document is good for
  analysis,    \* analysis_runs: per analysis, its state
  rows,        \* work_queue, queue "analysis"
  profiles,    \* candidate_profiles: the upload each version was built from
  announced,   \* work_queue, queue "match": each analysis' profile.ready
  published,   \* profile version of the newest recommendations (0: none)
  expired,     \* whether the candidate's retention period has run out
  work,        \* per worker, where its step stands and what it has read
  crashes

vars == <<upload, files, quality, analysis, rows, profiles, announced, published,
          expired, work, crashes>>

intake == <<upload, files, quality>>
matching == <<announced, published>>

Stages == <<"queued", "extracting", "profiling", "matching", "ready">>
Rank(s) == CHOOSE n \in 1..Len(Stages) : Stages[n] = s
Terminal == {"ready", "failed"}
Running(a) == analysis[a] \notin Terminal \cup {"none"}

States == {"none", "queued", "extracting", "profiling", "matching", "ready", "failed"}

Idle == [pc |-> "idle", on |-> NoAnalysis, version |-> 0, seen |-> "none"]

\* The places of process() inside keep_lease, and those around it.  "extracting",
\* "profiling", "matching" and "failed" come between the read and the write of
\* that state, "drop" and "close" between those of finish_matching.
Leased == {"enter", "begin", "extract", "extracting", "profile", "profiling", "save", "saving",
           "embed", "announce", "enqueue", "advance", "matching", "leave"}
Places == Leased \cup {"idle", "open", "refused", "failing", "failed", "retry", "acknowledge",
                       "fail", "drop", "ready", "close"}

TypeOK ==
  /\ upload \in [Analyses -> {"new", "stored", "late", "refused", "stray", "over"}]
  /\ files \subseteq Analyses
  /\ quality \in [Analyses -> {"good", "unreadable", "factless"}]
  /\ analysis \in [Analyses -> States]
  /\ rows \in [Analyses -> Row]
  /\ profiles \in Seq(Analyses)
  /\ announced \in [Analyses -> {"absent", "waiting", "done", "failed"}]
  /\ published \in 0..Len(profiles)
  /\ expired \in BOOLEAN
  /\ work \in [Workers -> [pc : Places, on : Analyses \cup {NoAnalysis}, version : Nat,
                           seen : States]]
  /\ crashes \in 0..MaxCrashes

Init ==
  /\ upload = [a \in Analyses |-> "new"]
  /\ files = {}
  /\ quality \in [Analyses -> {"good", "unreadable", "factless"}]
  /\ analysis = [a \in Analyses |-> "none"]
  /\ rows = [a \in Analyses |-> NoRow]
  /\ profiles = <<>>
  /\ announced = [a \in Analyses |-> "absent"]
  /\ published = 0
  /\ expired = FALSE
  /\ work = [w \in Workers |-> Idle]
  /\ crashes = 0

-----------------------------------------------------------------------------
(* Intake: ResumeService.accept *)

\* The clock is read, then object_store.put; the transaction asks whether the
\* candidate had expired at that instant ("late").
Store(a) ==
  /\ upload[a] = "new"
  /\ upload' = [upload EXCEPT ![a] = IF expired THEN "late" ELSE "stored"]
  /\ files' = files \cup {a}
  /\ UNCHANGED <<quality, analysis, rows, profiles, matching, expired, work, crashes>>

\* A mutant of Admissible: a candidate's other uploads are not looked at.
AdmissibleAlways(a) == upload[a] = "stored"

Admissible(a) == upload[a] = "stored" /\ \A b \in Analyses : ~Running(b)

\* The transaction, under the lock of the candidate's row.
Accept(a) ==
  /\ Admissible(a)
  /\ upload' = [upload EXCEPT ![a] = "over"]
  /\ analysis' = [analysis EXCEPT ![a] = "queued"]
  /\ rows' = [rows EXCEPT ![a] = FreshRow]
  /\ UNCHANGED <<files, quality, profiles, matching, expired, work, crashes>>

\* It raises: the candidate expired, an analysis is running, or the database failed.
Refuse(a) ==
  /\ upload[a] \in {"stored", "late"}
  /\ upload' = [upload EXCEPT ![a] = "refused"]
  /\ UNCHANGED <<files, quality, analysis, rows, profiles, matching, expired, work, crashes>>

\* A mutant of Compensate: the file stays.
CompensateNothing(a) ==
  /\ upload[a] = "refused"
  /\ upload' = [upload EXCEPT ![a] = "over"]
  /\ UNCHANGED <<files, quality, analysis, rows, profiles, matching, expired, work, crashes>>

\* object_store.delete, which may raise and leave the file.
Compensate(a) ==
  /\ upload[a] = "refused"
  /\ \/ upload' = [upload EXCEPT ![a] = "over"] /\ files' = files \ {a}
     \/ upload' = [upload EXCEPT ![a] = "stray"] /\ UNCHANGED files
  /\ UNCHANGED <<quality, analysis, rows, profiles, matching, expired, work, crashes>>

\* The API process dies.
CrashUpload(a) ==
  /\ crashes < MaxCrashes
  /\ upload[a] \in {"stored", "late", "refused"}
  /\ crashes' = crashes + 1
  /\ upload' = [upload EXCEPT ![a] = "stray"]
  /\ UNCHANGED <<files, quality, analysis, rows, profiles, matching, expired, work>>

-----------------------------------------------------------------------------
(* A worker's record *)

Moves(w, now) == work' = [work EXCEPT ![w] = now]
Goes(w, place) == Moves(w, [work[w] EXCEPT !.pc = place])

\* What a step of the worker on its own record leaves alone.
others == <<intake, matching, expired, crashes>>

-----------------------------------------------------------------------------
(* db/app/analyses.py: advance and fail read the row without a lock and write it *)
(* in the same transaction, over whatever was committed in between.              *)

\* session.get.
Reads(w, place) ==
  /\ Moves(w, [work[w] EXCEPT !.pc = place, !.seen = analysis[work[w].on]])
  /\ UNCHANGED <<others, analysis, rows, profiles>>

\* advance raises ConflictError where it reads that the analysis has failed.
Look(w, from, place) ==
  /\ work[w].pc = from
  /\ \/ analysis[work[w].on] # "failed" /\ Reads(w, place)
     \/ /\ analysis[work[w].on] = "failed" /\ Goes(w, "refused")
        /\ UNCHANGED <<others, analysis, rows, profiles>>

\* The state is written where it differs from the one read and, by advance, is
\* not of an earlier stage.
Unwritten(seen, s) == s = seen \/ (s # "failed" /\ Rank(s) < Rank(seen))
Put(a, seen, s) == analysis' = [analysis EXCEPT ![a] = IF Unwritten(seen, s) THEN @ ELSE s]

Mark(w, from, s, place) ==
  /\ work[w].pc = from
  /\ Put(work[w].on, work[w].seen, s)
  /\ Goes(w, place)
  /\ UNCHANGED <<others, rows, profiles>>

-----------------------------------------------------------------------------
(* The steps of ResumeWorker *)

\* claim.  WorkQueue says which of several due rows is the oldest.
Claim(w, a) ==
  /\ work[w].pc = "idle"
  /\ Due(rows[a])
  /\ rows' = [rows EXCEPT ![a] = Claimed(@, w)]
  /\ Moves(w, [Idle EXCEPT !.pc = "open", !.on = a])
  /\ UNCHANGED <<others, analysis, profiles>>

\* A mutant of Open: it does not ask how the analysis stands.
OpenAny(w) ==
  /\ work[w].pc = "open"
  /\ Goes(w, "enter")
  /\ UNCHANGED <<others, analysis, rows, profiles>>

\* analyses.get: an analysis that is over is only acknowledged.
Open(w) ==
  /\ work[w].pc = "open"
  /\ Goes(w, IF Running(work[w].on) THEN "enter" ELSE "acknowledge")
  /\ UNCHANGED <<others, analysis, rows, profiles>>

\* check() renews the lease or raises LostLease, which ends the step.
Check(w, from, to) ==
  LET a == work[w].on IN
  /\ work[w].pc = from
  /\ IF Renewable(rows[a], w)
     THEN rows' = [rows EXCEPT ![a] = Renewed(@)] /\ Goes(w, to)
     ELSE Moves(w, Idle) /\ UNCHANGED rows
  /\ UNCHANGED <<others, analysis, profiles>>

Enter(w) == Check(w, "enter", "begin")
CheckSave(w) == Check(w, "save", "saving")
Leave(w) == Check(w, "leave", "acknowledge")

\* A mutant of CheckAnnounce: the event is taken for enqueued.
CheckAnnounceOnly(w) == Check(w, "announce", "advance")

CheckAnnounce(w) == Check(w, "announce", "enqueue")

\* A mutant of Begin: the profile a former attempt saved is not looked for.
BeginAnew(w) ==
  /\ work[w].pc = "begin"
  /\ IF expired
     THEN Goes(w, "refused")
     ELSE Moves(w, [work[w] EXCEPT !.pc = "extract", !.version = Len(profiles) + 1])
  /\ UNCHANGED <<others, analysis, rows, profiles>>

\* process: the candidate and its newest profile.
Begin(w) ==
  LET a == work[w].on
      n == Len(profiles)
  IN
  /\ work[w].pc = "begin"
  /\ CASE expired -> Goes(w, "refused")
       [] ~expired /\ n > 0 /\ profiles[n] = a ->
            Moves(w, [work[w] EXCEPT !.pc = "embed", !.version = n])
       [] OTHER -> Moves(w, [work[w] EXCEPT !.pc = "extract", !.version = n + 1])
  /\ UNCHANGED <<others, analysis, rows, profiles>>

\* extract_resume raises ResumeExtractionError for what it cannot read; the
\* refusals of the language model end the same way.
Extracted(w) == IF quality[work[w].on] = "unreadable" THEN "refused" ELSE "profile"

Extract(w) == Look(w, "extract", "extracting")
Extracting(w) == Mark(w, "extracting", "extracting", Extracted(w))

Profile(w) == Look(w, "profile", "profiling")
Profiling(w) == Mark(w, "profiling", "profiling", "save")

\* profiles.save: a version is immutable, so another resume's profile under this
\* number is a conflict; the same profile once more is no change.
SaveProfile(w) ==
  LET v == work[w].version IN
  /\ work[w].pc = "saving"
  /\ IF v > Len(profiles)
     THEN profiles' = Append(profiles, work[w].on) /\ Goes(w, "embed")
     ELSE /\ Goes(w, IF profiles[v] = work[w].on THEN "embed" ELSE "refused")
          /\ UNCHANGED profiles
  /\ UNCHANGED <<others, analysis, rows>>

\* The text to embed: a profile without supported facts raises
\* NO_SUPPORTED_PROFILE_FACTS, after it was saved.
Embed(w) ==
  /\ work[w].pc = "embed"
  /\ Goes(w, IF quality[work[w].on] = "factless" THEN "refused" ELSE "announce")
  /\ UNCHANGED <<others, analysis, rows, profiles>>

\* match_queue.enqueue: one event for an analysis, however often it is replayed.
Enqueue(w) ==
  LET a == work[w].on IN
  /\ work[w].pc = "enqueue"
  /\ announced' = [announced EXCEPT ![a] = IF @ = "absent" THEN "waiting" ELSE @]
  /\ Goes(w, "advance")
  /\ UNCHANGED <<intake, published, expired, crashes, analysis, rows, profiles>>

AwaitMatches(w) == Look(w, "advance", "matching")
Awaiting(w) == Mark(w, "matching", "matching", "leave")

\* A dependency, a database or anything unforeseen raises inside process, or where
\* keep_lease is entered or left.
Stumble(w) ==
  /\ work[w].pc \in Leased
  /\ Goes(w, "retry")
  /\ UNCHANGED <<others, analysis, rows, profiles>>

-----------------------------------------------------------------------------
(* The end of a step *)

\* A mutant of RenewToFail: the failure is not recorded.
RenewOnly(w) ==
  /\ work[w].pc = "refused"
  /\ Goes(w, "acknowledge")
  /\ UNCHANGED <<others, analysis, rows, profiles>>

\* An error that is not retried: the failure is recorded if the lease is renewed.
RenewToFail(w) ==
  LET a == work[w].on IN
  /\ work[w].pc = "refused"
  /\ IF Renewable(rows[a], w)
     THEN rows' = [rows EXCEPT ![a] = Renewed(@)] /\ Goes(w, "failing")
     ELSE Goes(w, "acknowledge") /\ UNCHANGED rows
  /\ UNCHANGED <<others, analysis, profiles>>

\* analyses.fail.
ReadFailing(w) == work[w].pc = "failing" /\ Reads(w, "failed")
RecordFailure(w) == Mark(w, "failed", "failed", "acknowledge")

\* acknowledge, with the token; an analysis id is never enqueued again.
Acknowledge(w) ==
  LET a == work[w].on IN
  /\ work[w].pc = "acknowledge"
  /\ rows' = IF Refused(rows[a], w) THEN rows ELSE [rows EXCEPT ![a] = Acknowledged(@)]
  /\ Moves(w, Idle)
  /\ UNCHANGED <<others, analysis, profiles>>

Retry(w) ==
  LET a == work[w].on IN
  /\ work[w].pc = "retry"
  /\ rows' = IF Refused(rows[a], w) THEN rows ELSE [rows EXCEPT ![a] = Retried(@)]
  /\ Moves(w, Idle)
  /\ UNCHANGED <<others, analysis, profiles>>

-----------------------------------------------------------------------------
(* finish_matching, at the start of a step and after a retry *)

\* What it decides for an analysis in flight: none of these is no change.
Parked(a) == rows[a].state = "failed" \/ announced[a] = "failed"

\* A mutant of Outlived: the retention period is not asked for.
OutlivedNever(a) == FALSE

Outlived(a) == analysis[a] = "matching" /\ profiles # <<>> /\ expired

\* A mutant of Ranked: any recommendations do.
RankedByAny(a) == analysis[a] = "matching" /\ published > 0

Ranked(a) == analysis[a] = "matching" /\ published > 0 /\ published = Len(profiles)

\* The reads for one analysis, then the one update they lead to.
Examine(w, a) ==
  /\ work[w].pc = "idle"
  /\ Running(a)
  /\ \/ (Parked(a) \/ Outlived(a)) /\ Moves(w, [Idle EXCEPT !.pc = "fail", !.on = a])
     \/ /\ Ranked(a) /\ ~Parked(a) /\ ~Outlived(a)
        /\ Moves(w, [Idle EXCEPT !.pc = "ready", !.on = a])
  /\ UNCHANGED <<others, analysis, rows, profiles>>

ReadDropped(w) == work[w].pc = "fail" /\ Reads(w, "drop")

\* advance raises where the analysis has failed meanwhile, and the process ends.
ReadClosed(w) ==
  /\ work[w].pc = "ready"
  /\ \/ analysis[work[w].on] # "failed" /\ Reads(w, "close")
     \/ /\ analysis[work[w].on] = "failed" /\ Moves(w, Idle)
        /\ UNCHANGED <<others, analysis, rows, profiles>>

Conclude(w) ==
  LET a == work[w].on IN
  /\ \/ work[w].pc = "drop" /\ Put(a, work[w].seen, "failed")
     \/ work[w].pc = "close" /\ Put(a, work[w].seen, "ready")
  /\ Moves(w, Idle)
  /\ UNCHANGED <<others, rows, profiles>>

-----------------------------------------------------------------------------
(* The match worker, as far as analyses see it (MatchService) *)

\* The event of the current profile publishes; an obsolete one does not.
Match(a) ==
  /\ announced[a] = "waiting"
  /\ announced' = [announced EXCEPT ![a] = "done"]
  /\ published' = IF ~expired /\ profiles[Len(profiles)] = a THEN Len(profiles) ELSE published
  /\ UNCHANGED <<intake, analysis, rows, profiles, expired, work, crashes>>

ParkMatch(a) ==
  /\ announced[a] = "waiting"
  /\ announced' = [announced EXCEPT ![a] = "failed"]
  /\ UNCHANGED <<intake, published, analysis, rows, profiles, expired, work, crashes>>

\* A job event or a reconciliation publishes for the current profile.
Republish ==
  /\ ~expired /\ published < Len(profiles)
  /\ published' = Len(profiles)
  /\ UNCHANGED <<intake, announced, analysis, rows, profiles, expired, work, crashes>>

-----------------------------------------------------------------------------
(* Time and crashes *)

Expire ==
  /\ expired' = TRUE
  /\ UNCHANGED <<intake, matching, analysis, rows, profiles, work, crashes>>

\* The worker's step still runs on the row.  keep_lease renews it every 15
\* seconds for 300; it stops when a renewal raises, or with the whole process.
Held(a) == \E w \in Workers : work[w].pc # "idle" /\ work[w].on = a /\ rows[a].owner = w

Tick ==
  /\ rows' = [a \in Analyses |->
                IF ~Lapsing /\ Held(a) THEN [Aged(rows[a]) EXCEPT !.lease = rows[a].lease]
                                       ELSE Aged(rows[a])]
  /\ UNCHANGED <<intake, matching, analysis, profiles, expired, work, crashes>>

\* The worker dies, or raises outside process, and is started again.
Crash(w) ==
  /\ crashes < MaxCrashes
  /\ work[w].pc # "idle"
  /\ crashes' = crashes + 1
  /\ Moves(w, Idle)
  /\ UNCHANGED <<intake, matching, analysis, rows, profiles, expired>>

Process(w) ==
  \/ Enter(w) \/ Begin(w) \/ Extract(w) \/ Extracting(w) \/ Profile(w) \/ Profiling(w)
  \/ CheckSave(w) \/ SaveProfile(w) \/ Embed(w) \/ CheckAnnounce(w) \/ Enqueue(w)
  \/ AwaitMatches(w) \/ Awaiting(w) \/ Leave(w) \/ Stumble(w)

Step(w) ==
  \/ \E a \in Analyses : Claim(w, a) \/ Examine(w, a)
  \/ Open(w) \/ Process(w) \/ RenewToFail(w) \/ ReadFailing(w) \/ RecordFailure(w)
  \/ Acknowledge(w) \/ Retry(w) \/ ReadDropped(w) \/ ReadClosed(w) \/ Conclude(w)

Next ==
  \/ \E a \in Analyses :
       Store(a) \/ Accept(a) \/ Refuse(a) \/ Compensate(a) \/ CrashUpload(a)
         \/ Match(a) \/ ParkMatch(a)
  \/ \E w \in Workers : Step(w) \/ Crash(w)
  \/ Republish \/ Expire \/ Tick

Spec == Init /\ [][Next]_vars

\* The worker's loop polls for ever, time passes, and the match worker settles
\* its events (MatchWorker); nobody owes an upload.
FairSpec ==
  /\ Spec
  /\ \A w \in Workers : WF_vars(Step(w))
  /\ \A a \in Analyses : WF_vars(Match(a) \/ ParkMatch(a))
  /\ WF_vars(Tick)

-----------------------------------------------------------------------------
(* Properties *)

\* "A second inflight upload for that candidate returns 409" (A05_A06_INTAKE.md),
\* for one worker: however uploads overlap, a candidate never has two analyses
\* that are not over.
OneRunning ==
  \A a, b \in Analyses : Running(a) /\ Running(b) => a = b

\* An analysis waits for matching only when its profile is stored and its event
\* is in the match queue, so that somebody will end the wait.
WaitingIsAnnounced ==
  \A a \in Analyses : analysis[a] = "matching" =>
    announced[a] # "absent" /\ \E v \in 1..Len(profiles) : profiles[v] = a

\* An analysis becomes ready over recommendations for its own profile, never
\* over those of an earlier resume.
ReadyIsOwn ==
  [][\A a \in Analyses : analysis[a] # "ready" /\ analysis'[a] = "ready" =>
       published > 0 /\ profiles[published] = a]_vars

\* "Resume retries reuse the persisted profile" (A05_A06_INTAKE.md): a resume
\* yields one profile version, however often one worker dies and starts over.
OneProfileEach ==
  \A m, n \in 1..Len(profiles) : profiles[m] = profiles[n] => m = n

\* "A stale task cannot drag a finished run backwards" (analyses.py), for one
\* worker: a finished analysis keeps its outcome.
FinishedIsFinal ==
  [][\A a \in Analyses : analysis[a] \in Terminal => analysis'[a] = analysis[a]]_vars

\* A row that is done leaves no analysis behind on which nobody works any more,
\* where a live worker keeps its lease.
DoneHasOutcome ==
  \A a \in Analyses : rows[a].state = "done" => analysis[a] \in Terminal \cup {"matching"}

\* "Irrecoverable extraction/NLP failures are terminal" (A05_A06_INTAKE.md): while
\* the candidate is retained, an upload nobody can read is failed when the work on
\* it is done.
UnreadableIsTerminal ==
  \A a \in Analyses :
    quality[a] = "unreadable" /\ ~expired /\ rows[a].state = "done" => analysis[a] \in Terminal

\* An accepted upload has its file, and any other file belongs to a request that is
\* still being answered, or whose process died or whose clean-up failed.
FilesAccountedFor ==
  \A a \in Analyses :
    /\ analysis[a] # "none" => a \in files
    /\ a \in files /\ analysis[a] = "none" => upload[a] \in {"stored", "late", "refused", "stray"}

\* Every accepted upload ends: the browser that polls it sees ready or failed.
EveryUploadEnds == \A a \in Analyses : Running(a) ~> ~Running(a)
=============================================================================
