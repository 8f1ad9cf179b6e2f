------------------------------- MODULE JobImport -------------------------------
(***************************************************************************)
(* Importing and closing job postings: JobIngestionService                 *)
(* (modules/jobs/ingest.py) over SqlJobRepository.save_with_event          *)
(* (db/jobs/repository.py), the import runs and the raw snapshots          *)
(* (db/jobs/sources.py).                                                   *)
(*                                                                         *)
(* Requests run at once (API threads, the command line), each in several   *)
(* transactions; one may raise or die between any two of them.  The        *)
(* transaction of save_with_event reads, and writes at its commit, so two  *)
(* of them overlap: Look and Commit.  Its reads count as one, because a    *)
(* version that is committed between them makes the insert fail anyway.    *)
(* Event ids are fresh for every request.                                  *)
(***************************************************************************)
EXTENDS Integers, Sequences

CONSTANTS
  Jobs,       \* job ids: one for each canonical URL
  Texts,      \* what a page may say, as far as content_hash tells it apart
  NoText,
  Imports,    \* calls of import_url; a call is its import run
  Closings    \* calls of mark_closed

ASSUME TextsAssumption == NoText \notin Texts
ASSUME RequestsAssumption == Imports \cap Closings = {}

Requests == Imports \cup Closings

VARIABLES
  versions,    \* job_versions: per job, its versions 1, 2, ...
  row,         \* jobs: per job, current_version (0: no row) and active
  outbox,      \* job_change_events
  runs,        \* job_import_runs: per import, its status
  snapshots,   \* job_raw_snapshots: per import, the text it kept
  req          \* per request: where it stands and what it has read

vars == <<versions, row, outbox, runs, snapshots, req>>

Version == [text : Texts, active : BOOLEAN]
JobRow == [current : Nat, active : BOOLEAN]
NoRow == [current |-> 0, active |-> FALSE]
EventTypes == {"job.created", "job.updated", "job.expired"}
Event == [id : Requests, type : EventTypes, job : Jobs, version : Nat \ {0}]

Places == {"new", "fetch", "snapshot", "decide", "same", "look", "commit", "complete", "over"}

\* `base` is the version that get() answered with (0: none), `found` whether
\* save_with_event met the version it was to insert, `read` the job row it read.
Request == [pc : Places, job : Jobs, text : Texts \cup {NoText}, base : Nat,
            found : BOOLEAN, read : JobRow]

TypeOK ==
  /\ versions \in [Jobs -> Seq(Version)]
  /\ row \in [Jobs -> JobRow]
  /\ outbox \subseteq Event
  /\ runs \in [Imports -> {"none", "queued", "success", "unchanged", "failed"}]
  /\ snapshots \in [Imports -> Texts \cup {NoText}]
  /\ req \in [Requests -> Request]

Init ==
  /\ versions = [j \in Jobs |-> <<>>]
  /\ row = [j \in Jobs |-> NoRow]
  /\ outbox = {}
  /\ runs = [i \in Imports |-> "none"]
  /\ snapshots = [i \in Imports |-> NoText]
  /\ \E target \in [Requests -> Jobs] :
       req = [r \in Requests |-> [pc |-> "new", job |-> target[r], text |-> NoText, base |-> 0,
                                 found |-> FALSE, read |-> NoRow]]

Latest(j) == versions[j][Len(versions[j])]

tables == <<versions, row, outbox>>
records == <<runs, snapshots>>

GoTo(r, place) == req' = [req EXCEPT ![r].pc = place]

-----------------------------------------------------------------------------
(* import_url *)

\* import_runs.start, for a URL of an approved host.
Start(i) ==
  /\ req[i].pc = "new"
  /\ runs' = [runs EXCEPT ![i] = "queued"]
  /\ GoTo(i, "fetch")
  /\ UNCHANGED <<tables, snapshots>>

\* fetch_single_posting returned the page as it is at that moment.
Fetch(i) ==
  /\ req[i].pc = "fetch"
  /\ \E t \in Texts : req' = [req EXCEPT ![i].pc = "snapshot", ![i].text = t]
  /\ UNCHANGED <<tables, records>>

\* It raised SourceFetchError.
FailFetch(i) ==
  /\ req[i].pc = "fetch"
  /\ runs' = [runs EXCEPT ![i] = "failed"]
  /\ GoTo(i, "over")
  /\ UNCHANGED <<tables, snapshots>>

\* raw_snapshots.save.
Snapshot(i) ==
  /\ req[i].pc = "snapshot"
  /\ snapshots' = [snapshots EXCEPT ![i] = req[i].text]
  /\ GoTo(i, "decide")
  /\ UNCHANGED <<tables, runs>>

\* jobs.get, then the comparison of the content hashes, which leave `active` out.
Decide(i) ==
  LET j == req[i].job IN
  /\ req[i].pc = "decide"
  /\ IF versions[j] # <<>> /\ Latest(j).text = req[i].text
     THEN GoTo(i, "same")
     ELSE req' = [req EXCEPT ![i].pc = "look", ![i].base = Len(versions[j])]
  /\ UNCHANGED <<tables, records>>

\* import_runs.complete, after save_with_event or instead of it.
Complete(i) ==
  /\ req[i].pc \in {"complete", "same"}
  /\ runs' = [runs EXCEPT ![i] = IF req[i].pc = "same" THEN "unchanged" ELSE "success"]
  /\ GoTo(i, "over")
  /\ UNCHANGED <<tables, snapshots>>

-----------------------------------------------------------------------------
(* mark_closed *)

\* jobs.get: an unknown or closed job is left alone.
Close(k) ==
  LET j == req[k].job IN
  /\ req[k].pc = "new"
  /\ IF versions[j] # <<>> /\ Latest(j).active
     THEN req' = [req EXCEPT ![k].pc = "look", ![k].base = Len(versions[j]),
                             ![k].text = Latest(j).text]
     ELSE GoTo(k, "over")
  /\ UNCHANGED <<tables, records>>

-----------------------------------------------------------------------------
(* save_with_event *)

Opens(r) == r \in Imports

\* A mutant of Look: the version number is free for any content.
LookTrusting(r) ==
  LET j == req[r].job
      v == req[r].base + 1
  IN
  /\ req[r].pc = "look"
  /\ req' = [req EXCEPT ![r].pc = "commit", ![r].read = row[j], ![r].found = v <= Len(versions[j])]
  /\ UNCHANGED <<tables, records>>

\* The reads: the version's number may be taken, by the same text (a replay) or
\* by another (JobVersionConflict; the caller lets it pass, and so ends).
Look(r) ==
  LET j == req[r].job
      v == req[r].base + 1
      taken == v <= Len(versions[j])
  IN
  /\ req[r].pc = "look"
  /\ IF taken /\ versions[j][v].text # req[r].text
     THEN GoTo(r, "over")
     ELSE req' = [req EXCEPT ![r].pc = "commit", ![r].read = row[j], ![r].found = taken]
  /\ UNCHANGED <<tables, records>>

\* The job row after the flush, which updates only the columns that differ from
\* what was read.
Flushed(now, read, v, active) ==
  IF read = NoRow
  THEN [current |-> v, active |-> active]
  ELSE [current |-> IF v > read.current THEN v ELSE now.current,
        active |-> IF active # read.active THEN active ELSE now.active]

TypeOf(r) ==
  IF ~Opens(r) THEN "job.expired" ELSE IF req[r].base = 0 THEN "job.created" ELSE "job.updated"

\* A mutant of EventOf: it names the version the request started from.
EventOfBase(r) ==
  [id |-> r, type |-> TypeOf(r), job |-> req[r].job, version |-> req[r].base]

EventOf(r) ==
  [id |-> r, type |-> TypeOf(r), job |-> req[r].job, version |-> req[r].base + 1]

\* A mutant of Commit: the insert replaces a version that came meanwhile.
CommitOver(r) ==
  LET j == req[r].job
      v == req[r].base + 1
      new == [text |-> req[r].text, active |-> Opens(r)]
  IN
  /\ req[r].pc = "commit"
  /\ versions' = IF req[r].found THEN versions
                 ELSE [versions EXCEPT ![j] = Append(SubSeq(@, 1, v - 1), new)]
  /\ row' = [row EXCEPT ![j] = Flushed(@, req[r].read, v, Opens(r))]
  /\ outbox' = outbox \cup {EventOf(r)}
  /\ GoTo(r, IF Opens(r) THEN "complete" ELSE "over")
  /\ UNCHANGED records

\* The writes, all or none: a version with this number that was committed since
\* the reads breaks the primary key, and the transaction is rolled back.
Commit(r) ==
  LET j == req[r].job
      v == req[r].base + 1
      new == [text |-> req[r].text, active |-> Opens(r)]
  IN
  /\ req[r].pc = "commit"
  /\ req[r].found \/ v > Len(versions[j])
  /\ versions' = IF req[r].found THEN versions ELSE [versions EXCEPT ![j] = Append(@, new)]
  /\ row' = [row EXCEPT ![j] = Flushed(@, req[r].read, v, Opens(r))]
  /\ outbox' = outbox \cup {EventOf(r)}
  /\ GoTo(r, IF Opens(r) THEN "complete" ELSE "over")
  /\ UNCHANGED records

RollBack(r) ==
  /\ req[r].pc = "commit"
  /\ ~req[r].found /\ req[r].base + 1 <= Len(versions[req[r].job])
  /\ GoTo(r, "over")
  /\ UNCHANGED <<tables, records>>

\* A call raises what nobody catches, or the process dies: the run keeps its status.
Break(r) ==
  /\ req[r].pc \notin {"new", "over"}
  /\ GoTo(r, "over")
  /\ UNCHANGED <<tables, records>>

-----------------------------------------------------------------------------

Next ==
  \/ \E i \in Imports :
       Start(i) \/ Fetch(i) \/ FailFetch(i) \/ Snapshot(i) \/ Decide(i) \/ Complete(i)
  \/ \E k \in Closings : Close(k)
  \/ \E r \in Requests : Look(r) \/ Commit(r) \/ RollBack(r) \/ Break(r)

Spec == Init /\ [][Next]_vars

-----------------------------------------------------------------------------
(* Properties *)

\* An event tells the match worker the truth about the version it names, however
\* importers and closers of one job overlap: created and updated name an open
\* version, expired a closed one, and created is version 1.
EventsDescribeVersions ==
  \A e \in outbox :
    /\ e.version <= Len(versions[e.job])
    /\ versions[e.job][e.version].active <=> e.type # "job.expired"
    /\ e.version = 1 <=> e.type = "job.created"

\* Each version has an event: the match worker hears of every change (the
\* outbox is written in the version's transaction).
VersionsAnnounced ==
  \A j \in Jobs : \A v \in 1..Len(versions[j]) :
    \E e \in outbox : e.job = j /\ e.version = v

\* The first version is open, and each later one changes something: an open one
\* brings a text that differs from the version before it (so a closed posting
\* reopens only with a new text), a closed one closes an open version and keeps
\* its text.
EachVersionIsAChange ==
  \A j \in Jobs :
    /\ versions[j] # <<>> => versions[j][1].active
    /\ \A v \in 2..Len(versions[j]) :
         LET new == versions[j][v]
             old == versions[j][v - 1]
         IN IF new.active THEN new.text # old.text ELSE old.active /\ new.text = old.text

\* jobs.current_version is the newest version, although its update is computed
\* from a row read before other transactions committed.
CurrentIsNewest == \A j \in Jobs : row[j].current = Len(versions[j])

\* The history of a job is one the match worker can rely on, however importers and
\* closers overlap: true events, none missing, every version a change, and the job
\* row at the newest.
HistoryIsTrue ==
  EventsDescribeVersions /\ VersionsAnnounced /\ EachVersionIsAChange /\ CurrentIsNewest

\* A run reports what became of its snapshot: success, a version was stored open
\* with that text and announced under this run's event; unchanged, the job had
\* that text already; failed, the run left nothing behind.
RunsTellTheTruth ==
  \A i \in Imports :
    LET j == req[i].job
        event == {e \in outbox : e.id = i}
    IN
    /\ runs[i] = "success" =>
         \E e \in event : versions[j][e.version] = [text |-> snapshots[i], active |-> TRUE]
    /\ runs[i] = "unchanged" =>
         /\ event = {}
         /\ \E v \in 1..Len(versions[j]) : versions[j][v].text = snapshots[i]
    /\ runs[i] = "failed" => event = {} /\ snapshots[i] = NoText
=============================================================================
