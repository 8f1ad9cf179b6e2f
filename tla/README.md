# Verification of AI Career Match

TLA+ models, TLC runs and TLAPS proofs for the backend of this repository: the
service that takes a résumé, builds a candidate profile from it, imports job
postings and keeps a ranked list of jobs current for every retained candidate.

All paths below are relative to `services/backend/app` unless they start with
`apps/`, `docs/` or `services/`.

## 1. The system

Two PostgreSQL databases share no transaction: `career_jobs` (postings, their
versions, the outbox of job events, import runs, raw snapshots) and
`career_app` (candidates, sessions, profiles, analyses, the durable queue,
scores, recommendation revisions, explanations). The processes are

- the **API** (FastAPI, several threads at once): uploads, status polling,
  recommendations, explanations, job imports;
- the **worker** (`services/backend/scripts/run_worker.py`): `recover()` once,
  then for ever one step of the résumé worker and one step of the match worker;
- the **import command line** and **operator commands** (closing a posting,
  purging finished queue rows, retention clean-up);
- the **web client**, which polls.

| Component | State | Operations | What makes it correct |
|---|---|---|---|
| durable queue, `db/app/queue.py` | `work_queue`, `processed_events` | enqueue (two transactions), claim with a lease, renew, acknowledge (two transactions), retry or park, purge | one live holder at a time; only handled work is finished; parked exactly at the budget; nothing accepted is lost |
| outbox dispatcher and match worker, `orchestration/job_events.py`, `orchestration/worker.py` | `job_change_events.acknowledged_at`, position in the loop | read a batch, enqueue, acknowledge, claim, handle, settle, `recover()` | an event the outbox lets go of is in the queue; each committed event is settled; each start announces a reconciliation |
| match service, runs, publisher, `orchestration/job_events.py`, `runs.py`, `refresh.py`, `db/app/matches.py` | `match_results`, `match_runs` with a checkpoint, `recommendation_revisions` | four event handlers, checkpoint, rank, compare, number, publish | the newest revision is for the current profile and ranks exactly the active jobs; a checkpoint skips only stored scores; no revision repeats the last |
| job import, `modules/jobs/ingest.py`, `db/jobs/repository.py`, `db/jobs/sources.py` | `jobs`, `job_versions`, `job_change_events`, `job_import_runs`, `job_raw_snapshots` | `import_url`, `mark_closed`, `save_with_event` | each version has a true event and is a change; the job row points at the newest; runs tell what happened |
| intake, résumé worker, analyses, `modules/resume/service.py`, `worker.py`, `lease.py`, `db/app/analyses.py`, `db/app/profiles.py` | `analysis_runs`, `resume_uploads`, `candidate_profiles`, the object store, the rows of queue `analysis` | `accept`, `step`, `process`, `keep_lease`, `finish_matching`, `advance`, `fail` | one running analysis per candidate; an outcome is final and its own; every upload ends |
| sessions, uploads and retention, `db/app/sessions.py`, `db/app/profiles.py`, `orchestration/retention.py`, `core/storage.py` | `candidates.expires_at`, `sessions`, every table that carries a candidate's id, the object store | start, resolve, accept, write, the sweep | a purge leaves nothing a résumé could be read from; nothing begins after expiry |
| explanations, `modules/explanations`, `db/app/explanations.py` | one row per candidate, job and revision | request, model call, save | an explanation belongs to the ranking it stands beside; a ready one is not lost |
| résumé parsing and profile building, `modules/resume/parsers`, `extraction.py`, `validation.py`, `profile*.py`, `summary.py` | none | blocks, text with offsets, sections, dates, profile, refusals | every offset of every reference is right; overlapping months count once; nothing denied is claimed |
| text processing and embeddings, `nlp`, `core/inference.py` | stored vectors with their identity | normalise, find skills with their assertion, embed behind a gate | evidence quotes its mention; one vector space |
| posting normalisation, `modules/jobs/normalize.py`, `html_text.py` | none | page to posting to requirements | a requirement is quoted from the posting |
| matching algorithms and retrieval, `modules/matching`, `search` | stored vectors of jobs | compare skills, score, rank, rerank, search, rebuild | each verdict is proved on both sides; lists are fair |
| recommendation reads, `modules/matching/service.py` | none | newest revision, page by page | one coherent revision per response |
| web client, `apps/web/src` | component state | polling, explanation panel | no answer for an earlier target is shown, nothing is said to be written that is not |

How they interact: an import commits a version and its event in `career_jobs`.
The worker's own loop copies events into the queue of `career_app` (insert
first, acknowledge the outbox after). An upload commits its analysis and its
queue row in one transaction; the résumé worker claims it, saves a profile
version and enqueues `profile.ready`. The match worker claims events of both
kinds, writes scores, and publishes revisions. `finish_matching` looks at the
published revision and ends the analysis. The browser only reads.

What is hard here: leases that run out under a worker that is still alive; a
process that dies between two transactions, or between two databases;
redelivery, and a checkpoint that a redelivery resumes behind; events handled
in another order than the changes they announce; rows read in one transaction
and used in a later one; one step of several failing. `PROJECT.json` lists
each of these at its line, with the property that covers it.

## 2. Modules

| Module | Models | Notes |
|---|---|---|
| `QueueRows` | one row of `work_queue` and what each transaction does to it | shared by `WorkQueue` and `ResumeAnalysis` |
| `WorkQueue` | the queue with producers, workers, clean-up, crashes | `Owned` chooses whether the client passes its lease token (résumé worker) or not (match worker) |
| `QueueContract` | the abstract queue: accepted, tried, finished or parked, possibly forgotten | `WorkQueue` implements it (`ImplementsContract`) |
| `QueueRowsProofs` | proofs about a row | the lemma on rows serves every module that has some |
| `MatchWorker` | outbox, dispatcher and the worker's loop | EXTENDS `WorkQueue`; its actions are conjoined with the position in the loop |
| `MatchWorkerProofs` | proofs about `WorkQueue`, with the refinement of `QueueContract`, and about `MatchWorker` | a step of the worker is a step of the queue |
| `MatchService` | handlers, match runs, scores, publication | takes the queue as its contract: an event is waiting, in its backoff, taken, done or parked |
| `MatchServiceProofs` | proofs about `MatchService` | |
| `JobImport` | imports and closings as overlapping requests | several transactions each |
| `JobImportProofs` | proofs about `JobImport` | |
| `ResumeAnalysis` | upload, résumé worker, analysis | rows of `QueueRows` with tokens; match events as far as an analysis sees them |
| `ResumeAnalysisProofs` | proofs about `ResumeAnalysis` | |
| `CandidateData` | a candidate's rows and files, their writers, expiry and the sweep | a row is [table, of, key]; only whether a foreign key guards it matters |
| `Explanations` | explanation requests, from the route to the cache | EXTENDS `CandidateData` |
| `JobPage` | a browser tab on one job, and the answers it gets | EXTENDS `Explanations`; its specification is checked and proved about |
| `JobPageProofs` | proofs about `CandidateData`, `Explanations` and `JobPage` | |
| `DocumentText` | an upload's checks, a DOCX or PDF as blocks, the assembled text with its offsets, normalisation, evidence | operators |
| `SkillText` | skill mentions with their assertion, requirements of a posting | operators |
| `ResumeLines` | lines, sections, confirmed mentions, entries of a section | operators |
| `ResumeProfile` | dates, experience, projects, education, skills, the profile and its validators | operators |
| `PairScore` | skill comparison, the score and its rounding, the orders of lists | operators |
| `MatchPipeline` | a résumé from its bytes to a ranking, with postings and vectors | the state machine over the five modules above |
| `DocumentTextProofs` | proofs about lists, folds and texts, and about `DocumentText` | lemmas only; what they are for is in the next module |
| `MatchPipelineProofs` | proofs about the other four modules of operators and about `MatchPipeline` | EXTENDS `DocumentTextProofs` |
| `MC*` | constants and symmetry for TLC | |

How state and actions correspond to the code:

- **One action is one transaction**, or the reads a process makes at one place
  with what it remembers of them. Anything between two transactions is a place
  (`pc`, `stage`) where other processes step in and where the process may die.
- **An unlocked read and the write that follows it** in one transaction are two
  actions, since READ COMMITTED lets others commit in between: `advance`, `fail`
  and `finish_matching` of an analysis (`ResumeAnalysis`) read the state
  (`Look`, `Reads`) and write by what they read (`Mark`, `Conclude`).
- **An upload's request** reads the clock, stores the file, and then opens its
  transaction, which compares the expiry with the instant read before (`late`). Its
  clean-up after a refusal may fail and leave the file (`stray`).
- **Instants are times left.** `available_at` and `lease_expires_at` are kept as
  ticks until they pass (`wait`, `lease`), and `Tick` lowers all of them. "The
  lease has run out" is `lease = 0`.
- **Attempts saturate** at `AttemptCap`, above every number the code compares
  them with.
- **A posting's content** is a model value, equal where `content_hash` is.
- **A score** is its key (candidate, profile version, job, job version): the
  same pair always scores the same, so a ranking is the set of job versions in
  it, and the order inside a ranking is left out.
- **A document** is good, unreadable, or without facts to embed.
- **A lease token** is the worker's name. The code draws a new token for each
  step; a worker has one claim at a time, so no stale claim of its own can be
  confused with a new one.

- **A candidate's data** are rows with the candidate's id and a key; what a
  profile or a score says is left out of `CandidateData`, whose subject is who
  may still write what while a purge is under way. A transaction whose
  statements other transactions can interleave with (the purge) is two actions:
  what it will delete, and its commit.
- **Text** in the pipeline is a sequence of words. A word carries the blank
  after it; a tab and a line break (`tab`, `nl`) are elements of their own, so an
  offset is a position in the sequence and the folding of white space is a real
  mapping between two sequences.
  Everything below a word (letters, Unicode forms, the look-arounds of the alias
  patterns, which become word boundaries) is left out; where a word inside
  another one matters (`java` in `javascript`), `Inside` says which.
- **A similarity** is an integer in thousandths and a displayed score counts
  tenths of a percent, so that rounding is exact arithmetic on fractions. A
  TF-IDF or embedding similarity is any number of a small set.
- **Named entities** are what an external model finds: any one line of the
  résumé, or none, may be an organisation.

Definitions named "A mutant of ..." in a comment are plausible bugs of the
definition below them. They are not part of any specification; each shows that
a property fails where the code would be wrong.

## 3. Runs

| Run | Instance | What it shows |
|---|---|---|
| `WorkQueue_tokens` | 2 events, 2 workers, 1 producer, lease 2, budget 2, 2 crashes, clean-up | with tokens: leases exclude each other, only handled events are finished, parking exactly at the budget, an attempt beyond the budget only after a lost holder, and the refinement of `QueueContract` |
| `MatchWorker` | 2 job events, batch of 1, 1 worker, 1 crash, clean-up | nothing is lost between the databases; each committed event is settled; each start gets through `recover()` |
| `MatchService_crash` | 2 candidates in batches of 1, 1 job with 2 versions, 1 failure, 1 crash, parking | a restart repairs every revision; checkpoints cover what they skip; no churn |
| `MatchService_live` | 1 candidate with 2 profiles, 1 job with 2 versions, expiry, 1 crash | once imports and uploads stop, the newest revision becomes current for good |
| `MatchService_reopened` (violation) | 1 candidate, 1 job with 3 versions, 1 crash | a redelivered closing drops the scores of the job as reopened |
| `MatchService_touched` (violation) | as `_crash` with one failure and no crash | a handler that raises after its checkpoint leaves a candidate behind |
| `JobImport` | 1 job, 2 texts, 3 imports, 2 closings | versions, events, job row and runs agree however requests overlap and break off |
| `ResumeAnalysis_live` | 2 uploads, 1 worker, budget 2, 1 crash, expiry | no two running analyses, one profile per résumé, no wait without an event, outcomes final and own, files accounted for, every upload ends |
| `ResumeAnalysis_unfinished` (violation) | 1 worker whose lease runs out | an unreadable document whose failure is not recorded on a row that is acknowledged |
| `JobPage` | 1 candidate, 2 uploads, 2 explanation requests, 2 profile versions, 2 revisions, the sweep, one tab | a purge leaves nothing readable but what is named; nothing begins after expiry; explanations are cached beside their ranking; the panel's text is of the ranking on the page, but for the cases that are named |
| `MatchPipeline` | every résumé of up to 3 of 10 paragraphs, 5 kinds of upload, 4 pages of 2 jobs, 4 backends, 3 similarities | evidence, denied skills, months, verdicts and lists |
| `MatchPipeline_rounding` (violation) | as above, résumés of 1 paragraph | a ranking that puts a lower unrounded score first |

Why the bounds are enough. Two workers suffice where the question is who holds a
row: a third would only repeat what the second does, and the proofs of section 5
cover any number. A lease of two ticks lets a lease be renewed, age and expire;
a budget of two lets a row be retried once and then parked. Two candidates in
batches of one put a checkpoint between them, which is where redelivery matters.
Two versions of a job let an event be obsolete, a posting close and a closed
posting be ranked; the third, in `MatchService_reopened`, lets it be reopened
while the closing is still to be handled, with one candidate, since what goes
wrong then goes wrong for each. `RestartRepairs`, `CheckpointCovers` and
`EventuallyCurrent` leave out exactly the jobs in `overtaken`, and a reopened
job is in no passing run of TLC: the theorems `RepairSound` and
`CheckpointSound` cover it, for any number of versions. Two texts with three
imports let a text come back; two closings race each other and the imports. In
`JobPage` one candidate is enough, because no action relates two of them (the
proofs cover any number); two uploads let one run beside the other's analysis,
two revisions and two requests let an answer be late for a target and two
writers meet in one cache entry. `ClosedAfterExpiry` closes the tab once its
session has ended: what it would show from then on are errors, which may come at
any time before as well. In `MatchPipeline` a paragraph of the constants is
written to hit one case of the code each (a negated and a claimed mention of one
skill, an alias that continues on the next page, a heading in the middle,
overlapping and enclosing employment periods, a year without a month, a project
without a description, a table with a deletion), and three of them are combined
in every order, split over header and body or over pages, in texts of up to
`MaxTextChars` words. The page set has a posting in plain HTML, one in
structured data behind a broken block, one without any fact and one that denies
what it requires. A behaviour ends with the first list shown, since a list is
computed from stored results only. Bounds named in the modules: `AttemptCap`,
`MaxCrashes`, `MaxFailures`, `MaxJobVersion`, `MaxProfileVersion`, `MaxProfile`,
`MaxRevision`, `MaxParagraphs`, `MaxTextChars`, `MaxPages` (the last two are
limits of the code made small). `CHECK_DEADLOCK FALSE` is set where requests,
versions and uploads run out and the system may stop.

## 4. Fairness

- The worker's loop never ends by itself, so its steps are weakly fair
  (`WorkerFairSpec`, `FairSpec`). That is the `while not stopping` loop of
  `run_worker.py`, which sleeps a second when nothing is due.
- Time passes (`Tick`).
- The queue hands out the oldest due row. `MatchService` says so of two events of
  one job, or of one candidate's profiles, whose versions tell which is older
  (`Older`); between any others, a reconciliation and the events enqueued before
  or after it among them, either may come first. That allows every order of
  `created_at`, and more.
- In `ResumeAnalysis` each match event is settled in the end; that is what
  `CommittedIsSettled` shows for the same queue and the same worker.
- `JobPage` and `MatchPipeline` assume no fairness: their properties are about
  what may never be, whoever stops.
- Nothing is fair that somebody outside must do: imports, uploads, closings,
  expiry, crashes, failures, purges. Nor is the event of a saved profile: an
  analysis may fail between the two, so `EventuallyCurrent` leaves out a
  candidate whose newest profile was never announced.

## 5. Proofs

Each theorem holds for every value of the constants its module's assumptions
allow, where TLC checks one instance. Three shapes recur. A type invariant
needs what a process between two steps has in hand. A statement about a table
needs what each process has read and is about to act on (its *place*). And a
fact a process remembers survives the others' steps because something only
grows: a history, the set of finished work, the set of saved profiles.

`QueueRowsProofs` and the first part of `MatchWorkerProofs`, for any number of
events, workers, producers and crashes and any lease, backoff and budget:

- `TypeCorrect`. The invariant is `TypeOK` with `HoldsEvent` (a worker in the
  middle of a step holds an event), without which the settling actions are not
  defined on rows.
- `OutcomesSound`: `OutcomesAreTrue`, which is `DoneWasHandled`,
  `ProcessedWasHandled` and `ParkedAtBudget`, with or without tokens. The
  strengthening `OutcomeInv` adds that a worker about to acknowledge knows that
  its handling ended.
- `BudgetSound`: `BeyondBudgetOnlyAfterLoss`. Only a claim counts an attempt;
  by `ParkedAtBudget` a pending row is within its budget, so the claim was of a
  row inflight whose lease was over.
- `LeasesExclusive`: with tokens, `ExclusiveLease`. The strengthening `LeaseInv`
  adds that only rows inflight have an owner, and that only a worker in the
  middle of its step trusts a lease; then a claim by another worker means that
  the first one's lease had already run out by its own reckoning.
- `SettledStaysSettled`: with tokens, a finished or parked row is never worked
  on again, because a row that is not inflight has no owner to match a token.
- `QueueImplementsContract`: with tokens, each step of the queue is a step of
  `QueueContract` or leaves it unchanged. A finished row had an attempt, because
  only a claim makes a row inflight.

The theorems with tokens assume `Owned`. The assumption is needed: without it
`Refused` never compares the owner, and a late worker's `retry` reopens a row
that another has finished (section 6).

The second part of `MatchWorkerProofs`, for any number of workers and events,
over the theorems on the queue:

- `WorkerTypes`: `WorkerTypeOK`. The strengthening `BatchInv` says that a
  dispatcher between its look-up and its acknowledgement has a batch, and that
  what it offers is the head of it.
- `SentSound`: `SentWasAccepted`. What the queue keeps of an event (a row, or
  that it was handled) never goes away, so a dispatcher about to acknowledge has
  an event that is still kept, whoever else crashed or cleaned up meanwhile.

`JobImportProofs`, for any number of jobs, texts, imports and closings:

- `TypeCorrect`, with `HasText`: a request past its first read has a text.
- `HistorySound`: `HistoryIsTrue`, which is `EventsDescribeVersions`,
  `VersionsAnnounced`, `EachVersionIsAChange` and `CurrentIsNewest`. None is
  inductive alone, and the four need each other. `SavingInv` says what a request
  that is saving still knows: the version it read is still there, because
  histories only grow; an import's text differs from it, a closing's is the same
  and the version is open; the row it read pointed between that version and the
  end of the history. If the commit meets its version, `EachVersionIsAChange`
  says whether that version is open, so the event is true of it; and the job row
  it read was already at that version, so its update leaves `current_version`
  alone. If not, the version is the next one.
- `ReportsSound`: `RunsTellTheTruth`. `ProgressInv` says of each place what the
  import has left so far (no event before its commit, a snapshot from the fetch
  on, a stored open version behind the commit), `ReportInv` what its run's
  status then means.

`JobPageProofs`, for any number of candidates, uploads and requests:

- `TypeCorrect`, with what a run and the sweep have read (`RunInv`, `SweepInv`)
  and what an explanation request has (`RequestInv`).
- `NothingReadableAfterPurge`: `PurgedForGood`. A purge's commit takes every row
  that is there by then, and a row a foreign key guards cannot follow it.
- `StrayFilesSound`: `StrayFilesBeganInTime`. `FilesInv` says that while the
  sweep works on a candidate each of its accepted files is still on the sweep's
  list unless it was committed after the list was read, and that the list is
  empty before the rows go.
- `CacheSound`: `CachedBesideItsRanking`. `CacheInv`: a revision number ranks one
  profile version for ever, and a task that is writing has one of them in hand.
- `ExpiryStopsNewWork` and `ReadyLostSound`, action properties, from the types.
- `PendingSound` and `ProseSound`: what the panel shows (`ProseBesideItsRanking`).
  `PageInv` says what a page opened by a link can still be waiting for: answers
  about that link only.

`ResumeAnalysisProofs`, for any number of uploads, workers and crashes:

- `TypeCorrect`, with `InHand` (a worker in the middle of a step has an analysis).
- `WaitingSound`, leases running out or not, and whatever stale write falls on the
  analysis. `PlaceInv` says what a worker's place proves of its analysis: a
  profile behind the save, an event in the queue behind the enqueue. What it
  proves only grows (`Kept`), so no other worker can take it away.
- `FilesSound`: `FilesAccountedFor`, with a clean-up that may itself fail.
- `DoneSound`: `DoneHasOutcome`, where no lease of a live worker runs out
  (`~Lapsing`). `HoldInv`: the row of the analysis in hand can be renewed, so the
  failure is recorded before the row is acknowledged. `ResumeAnalysis_unfinished`
  shows that the assumption is needed.
- `OneRunningSound`, `OneProfileSound`, `OutcomesFinal` and `ReadySound`, for one
  worker (`Solo`, the deployment the documents ask for), leases running out or
  not. `advance` and `fail` are a read and a write with other processes in
  between; `SoloPlace` says that what the only worker has read of its analysis
  still stands when it writes, because an upload touches no analysis but its
  own. A new one is accepted only where none is running, so the one in hand stays
  the only one. `NewestInv`: a running analysis that has a profile has the newest
  one. Section 6 says what two workers can do.

`MatchServiceProofs`, for any number of candidates, jobs, versions, batches and
crashes:

- `TypeCorrect`. `TypeInv` adds that a place of a handler belongs to its event
  (`Suits`) and that a worker in `publish_for` has a candidate. `MinMax` gives
  the least and the greatest candidate of a batch.
- `ChurnFree`: `NoChurn`, for one worker (`Solo`). `Chosen` says that a plan on its
  way to the table is not the newest revision and carries the next number; with
  two workers another publication can come in between (section 6).
- `CheckpointSound`: `CheckpointCovers`, for one worker. `CheckpointCovers` alone
  says nothing of a run in progress, so `CoverInv` follows both kinds of run.
  `AtPage`: the candidates a job event has passed are scored, awaited, or among
  the scores it is still storing; a batch leaves no gap (`ListingHasNoGap`).
  `AtProfile`: once a profile event has scored, it has scored every version but
  those whose own event nobody has claimed yet. `AtEnd`: a job event that is past
  its last batch has covered everyone. `Announced`: a new version has no
  checkpoint, and no closing of a version that stands is in the queue.
  `RemovalKeeps` is the step where an older closing drops the scores of a job: the
  version that stands has not been begun, or the job is `overtaken`.
- `RepairSound`: `RestartRepairs`, for one worker. What holds when everything has
  settled has to be said of every state on the way there: `RepairInv` says that
  every retained candidate with a profile is `Fine`. Its newest profile is still
  to be handled (`ProfilePending`), or a reconciliation has still to list it
  (`RepairPending`), or a worker has it in hand to publish (`Coming`), or its
  newest revision agrees with the ranking on every job but those whose own event
  has still to reach it (`UpToDate`). `PlanFine` says the same of a plan on its
  way to the table, `AllAffected` of the candidates whose scores are about to be
  dropped. A handler that raises may leave a candidate in none of these states;
  the next start enqueues a reconciliation, which puts each in the second.
  `SettledRepairs` reads the property off: with nothing pending only `UpToDate` is
  left, and by `AtEnd` the ranking holds every active job.

`DocumentTextProofs` and `MatchPipelineProofs`, for every document of any number
of nodes, any limits, registry of skills, calendar, set of postings, order of
backends and similarities:

- `StagesAgree` (`TypeOK`) and `MonthsAreRight` (`MonthsAreCounted`), from
  `ResumeInv`: the draft is a document (`DraftOK`), a source is what `assemble_text`
  makes of some non-empty chunks within the limits (`TextOK`), each stage has what
  it works on (`StageOK`), and the profile's jobs are dated (`MadeOK`). TLC's
  `TypeOK` alone says nothing of a source's shape, on which all the rest depends.
  That `union_years` counts each month once is `SweepCounts`, over the sorted
  intervals (`SpansInTime`): what has been totalled, with the run that is being
  measured, is exactly the months covered so far (`CountedFurther`), because no
  later interval starts before that run.
- `EvidenceIsExact` (`EvidenceQuotesMention`), from `EvidenceInv`: no failure is
  about evidence (`CodeOK`), and an analysis is of the words of its source, with
  mentions that are proven (`AnalysedOK`). The argument is about offsets. The
  evidence of an assembled text covers all of it but line breaks (`Covers`,
  `AssembledIsAccepted`: hence `validate_source` never refuses it); dropping the
  blanks is a mapping that puts the words of two pieces end to end
  (`WordsOfTwo`); so the pieces that `evidence_for` cuts out of a span read, put
  together, the words of the span, wherever page and paragraph boundaries fall
  inside it.
- `SkillsAreSound` (`SkillsAreClaimed`), from `ClaimInv` beside the two above: an
  analysis is what `find_skills` makes of the source, and a profile's skills are
  claimed by it. The evidence of a mention touches exactly the rows that the
  mention touches (`MentionClaims`): between two chunks there are only line breaks,
  and no word of a row is one (`LinesAreWithin`), so no row lies in a gap.
  A confirmed mention touches rows of sections that count, and no others.
- `VerdictsAreRight` (`VerdictsAreProven`), from `VerdictInv`: the skills of a
  profile and the requirements of a posting carry evidence that begins with a
  mention of an alias of their name, and a stored verdict is about the stored
  requirements. A skill is its own canonical key, so distinct keys are distinct
  skills, and the evidence that a verdict collects without repetition still begins
  with the one that proves it.
- `SafeRanking` (`RankingIsFair`), from `RankInv`: a stored posting is normalised,
  and a stored result keeps the unrounded fraction, of at most 100 %, that its
  score is rounded from. Half-to-even rounding is shown to be monotone on
  fractions (`RoundedIsMonotone`), and a sorted list to be in order and to leave
  out only what belongs below it (`FairPrefix`). It says nothing of how ties
  of the displayed score are broken, and a ranking does not follow the unrounded
  scores within one percentage (`MatchPipeline_rounding`).

They assume of the constants what the code fixes: `LimitsAssumption` (limits are
numbers), `AliasesAssumption` (`ALIASES` is finite, no alias is empty, shared by two
skills or the name of another skill; the table in `nlp/skills.py` is so),
`CalendarAssumption` (a date word is a unit with numbers), `InputsAssumption` (a
draft and a page are made of what the parsers can meet) and `NumbersAssumption`
(similarities and the current month are integers). TLC evaluates them on the run
`MatchPipeline`, and it checked the five inductive invariants there before they
were proved.

Selections are written with `Picked` and `Filtered` (recursive functions) and the
intervals are sorted as places with `InOrder`, because the provers have no
definition to expand of the library's `SelectSeq` and `SortSeq`.

`SkillsAreClaimed` speaks of the rows that the evidence of a skill touches. The
stronger statement, that every piece of that evidence touches a row, is false of
some résumés that no run contains: a mention that crosses a page break may have a
piece alone on a line that is a heading or a boundary, and so is no row. What
holds, and what the code relies on, is that the evidence touches a row, and only
rows of sections that count.

Every invariant that a passing run checks is the consequent of a theorem. Left
to TLC are the liveness properties, which TLAPS does not prove
(`CommittedIsSettled`, `BootsAnnounced`, `EventuallyCurrent` and `EveryUploadEnds`),
under the fairness of section 4.

## 6. What the runs found

Four runs end in a violation, each of a sentence of the repository
(`PROJECT.json`, "findings"):

1. A `job.expired` event goes straight to `_retire_job`, without the version check
   of `job.updated` (`job_events.py:139-147`), and `remove_job` deletes the scores
   of every version (`matches.py:88-92`). A closing whose worker died, or that is
   in its backoff, may be handled after the job was imported again and matched:
   the reopened job leaves every ranking. No start repairs it, because a
   reconciliation publishes only what is stored.
2. A job-change handler that raises after a checkpoint publishes nobody before
   that checkpoint (`job_events.py:151-164`); the next start repairs it.
3. An irrecoverable failure met after the lease has run out is acknowledged and
   never recorded; the analysis stays unfinished and blocks further uploads
   (`modules/resume/worker.py:53-71`). In the trace a document nobody can read is
   claimed, the lease lapses during the extraction, the renewal before `fail` is
   refused, and the row is acknowledged.
4. Rankings are sorted by the rounded score, which `scoring.py:77` computes and
   `score_pair` stores (`refresh.py:104`), although the comment at `refresh.py:102`,
   `plan.md:473` and `docs/matching/scoring.md:118` speak of the unrounded one. Two
   jobs that display the same percentage may be in the wrong order; what is lost
   is order among equal percentages and nothing else (`RankingIsFair`).

Deviations seen while modelling that no run shows:

- `retry` sets any row it finds to pending or failed, and the match queue passes
  no token (`queue.py:168-187`, `272-273`): a worker whose lease ran out can
  reopen an event another has finished (`tests/app/test_queue.py:72`: "an
  acknowledged event is never reclaimed"). It takes two processes at once.
- Attempts are bounded only for handlers that answer. A row whose holder always
  dies, or always loses its lease, is claimed without end (`queue.py:117-150`
  against the docstring at `queue.py:16-18`); `BeyondBudgetOnlyAfterLoss` says
  exactly that.
- `enqueue` asks `processed_events` before its insert, and `acknowledge` finishes
  the row before it marks the event: a purge in between lets a delivered event
  in again (`queue.py:91-114`, `164-166`; docstring at `queue.py:12`).
- With two workers, a ranking read earlier can take the newer revision number,
  and one revision can repeat another (`refresh.py:53-66`,
  `matches.py:13-16`); a replayed publication is recognised by its
  `result_count` only (`matches.py:130-136`).
- With two résumé workers, one that starts on an analysis the other has finished
  finds a newer résumé's profile, builds a further version from the old résumé,
  and the newer analysis becomes ready over it (`worker.py:94-96`, against
  "Resume retries reuse the persisted profile", `docs/resume/A05_A06_INTAKE.md`);
  and `fail` overwrites ready (`analyses.py:82-89` against its docstring, lines
  5-7). The documents ask for a single worker until this is reviewed.
- `advance` and `fail` read the row without a lock, check what they read, and
  write in a second statement (`analyses.py:62-89`). With two résumé workers a
  failure committed in between is overwritten, with no lease lost: one worker
  reads the analysis to set it to matching, its match event is parked meanwhile,
  the other worker's `finish_matching` fails the analysis, a new upload is
  accepted, and the first worker's late write sets the failed analysis to
  matching. Two analyses then run, against the docstring of `analyses.py`
  (lines 5-7) and the 409 of `A05_A06_INTAKE.md`. `OneRunning` is therefore stated,
  checked and proved for one worker; TLC shows the violation when a second worker
  is added to `ResumeAnalysis_live`.
- A profile saved by an analysis that then fails for lack of facts is current
  but never announced; the list stays at the previous profile until some other
  event (`modules/resume/worker.py:121-136`).
- The retention re-check before a publication uses the start of the run
  (`refresh.py:49-54`).
- A read returns the newest revision as stored, with jobs closed since
  (`modules/matching/service.py:21` against `plan.md:124`).
- Rows no foreign key ties to a candidate (`match_results`,
  `recommendation_revisions`, `explanations`) that a run or a request writes
  after the purge stay for ever: no later sweep looks at that candidate again
  (`retention.py:53-93`). `work_queue` rows with file references are not purged
  at all. An upload begun before expiry may commit after the sweep has listed
  the files, and leave a readable one (against the comment at
  `retention.py:70-71`); `StrayFilesBeganInTime` says exactly when.
- A candidate who expires during a run still gains a revision (`refresh.py:49-52`
  says otherwise, as above).
- A page opened with `?revision=`, as every recommendation card links it
  (`RecommendationCard.tsx:37`), shows the newest ranking
  (`JobDetail.tsx:27,43`) and asks for the text of the revision in its link
  (`JobDetail.tsx:84`). Once a newer one is published, with no race at all,
  prose stands beside another ranking than its own, against
  `JobDetail.tsx:14-16` and `explanations/router.py:5-6`. A page opened without
  one can do so as well, while the newer answer is on its way, or after an
  earlier request's late answer. `ProseBesideItsRanking` names these cases and
  excludes any other. After a failed POST it keeps saying "still being
  generated", and hides the error (`ExplanationPanel.tsx:69-88`). A ready
  explanation is overwritten by the "unavailable" of an overlapping request
  (`db/app/explanations.py:34`).
- `rebuild.py` stores job vectors as preprocessing "matching-text-v1" where
  `pairs.py` requires "shared-text-v1": after a rebuild each pair of those jobs is
  a dependency failure, retried until it is parked. With the local hashing
  backend no candidate is ever embedded, because `VersionedEmbedder` asks for the
  pinned model.
- A last project line "Project: X |" gives an empty description, which the
  contract refuses: an unexpected error, retried until it is parked, where a
  résumé should be refused or accepted.
- "machine learning, Python" makes Python uncertain, because "learning" is one of
  the hedges looked for in the same clause. An alias matches across the line
  break between two blocks. A skill denied in the skills section may still earn
  partial credit from a project's text, and "java" inside "javascript" does too.
- A profile is saved before `NO_SUPPORTED_PROFILE_FACTS` is raised for it.
- Two overlapping imports of one page announce one version twice
  (`db/jobs/repository.py:103-112` against "unchanged content emits no new
  event", `services/backend/tests/jobs/test_ingest.py:100`). Importing a closed
  posting with the same text reports "unchanged" and leaves it closed. An older
  page fetched earlier may become the newest version. A run that hits a version
  conflict keeps the status "queued" (`ingest.py:169-170`).

## 7. What is not modelled

- Letters: tokenisation, Unicode forms and combining marks, the regular
  expressions below a word, fuzzy spellings of dates, languages other than as
  the outcome of a detector. XML and PDF decoding are what their errors are; a
  table is one level deep.
- Floating point. Scores are exact fractions, so a tie that only binary rounding
  breaks is not seen; cosines, TF-IDF and the cross encoder are inputs.
- The transport and containers of the language models (`nlp/remote.py`,
  `core/inference.py` beyond its gates), prompts and wording.
- In `MatchService`: a posting's own `expires_at`, `matching_enabled`,
  `set_refresh_state`. Its workers claim a taken row only after its holder died;
  that a lease runs out under a live worker is `WorkQueue`'s subject.
- The order of due rows in `ResumeAnalysis` (any due row may be claimed), and in
  `MatchService` between events of different jobs and candidates and around a
  reconciliation (section 4); `WorkQueue` models the order.
- `limit(1000)` of `finish_matching`, and rows of other candidates; response
  shaping and paging of reads; the upload form and layout of the web client.
- In `accept`, a commit that succeeds and whose answer is lost: the request would
  delete the file of an upload that was accepted. A `LostLease` raised on a row
  that could still be renewed is, for the row and the analysis, the same as
  `Crash`.
- `BootsAnnounced` accepts any start's event as the announcement, so it does not
  tell which start made it. A registry of aliases sorted the wrong way round
  would pass `VerdictsAreProven`, which catches matches inside longer words.
- HTTP, configuration, migrations, infrastructure, research code.

## 8. Plan

The modules in the order they were built:

1. `WorkQueue` with `QueueRows`, `QueueContract`, and the proofs about them.
2. `MatchWorker`, composing the queue with the outbox, `MatchWorkerProofs`.
3. `MatchService`, over the queue's contract, `MatchServiceProofs`.
4. `JobImport`, `JobImportProofs`.
5. `ResumeAnalysis`, `ResumeAnalysisProofs`.
6. `CandidateData`, `Explanations`, `JobPage` and their proofs.
7. `MatchPipeline` over `DocumentText`, `SkillText`, `ResumeLines`,
   `ResumeProfile` and `PairScore`, `DocumentTextProofs` and `MatchPipelineProofs`.

Left: the behaviour of section 6's two-worker deviations under an abstract
specification of a match service with several workers, and the action
properties of `MatchPipeline` (what a refused extraction leaves alone).
