--------------------------- MODULE CandidateData ---------------------------
(***************************************************************************)
(* Everything kept about one retained candidate, who writes it, and the    *)
(* retention sweep that removes it: db/app/sessions.py, the candidate rows *)
(* of db/app/profiles.py, the intake of modules/resume/service.py, and     *)
(* orchestration/retention.py.  The writers (an upload, the resume worker, *)
(* the match worker) use several transactions each, and so does the sweep. *)
(*                                                                         *)
(* A row is [table, of, key].  Tables of Guarded reference the candidate's *)
(* row by a foreign key; match_results, recommendation_revisions and       *)
(* explanations only carry the candidate's id.  Instants are reduced to    *)
(* whether expires_at has passed.  What a profile, a score or a ranking    *)
(* says is left out: MatchService and ResumeAnalysis model who computes    *)
(* it.  One resume worker step and one match run work at a time.           *)
(***************************************************************************)
EXTENDS Naturals, FiniteSets

CONSTANTS
  Candidates,
  Uploads,      \* upload requests
  Owner,        \* the candidate each upload is for
  MaxProfile,   \* bound on profile versions
  MaxRevision   \* bound on published revisions

ASSUME OwnerAssumption == Owner \in [Uploads -> Candidates]
ASSUME BoundsAssumption == MaxProfile \in Nat /\ MaxRevision \in Nat

VARIABLES
  candidate,  \* the row: not "new" yet, "here", or "gone"
  current,    \* current_profile_version, 0 for none
  enabled,    \* candidates with matching_enabled
  expired,    \* candidates whose expires_at has passed
  sessions,   \* candidates with a session row
  rows,       \* the rows of all other tables
  files,      \* uploads whose bytes are in the object store
  upload,     \* progress of each upload request
  analysis,   \* the resume worker's progress with each upload
  run,        \* the match worker's run
  sweep       \* the retention sweep

dataVars == <<candidate, current, enabled, expired, sessions, rows, files,
              upload, analysis, run, sweep>>

Guarded == {"resume_uploads", "analysis_runs", "candidate_profiles"}
Unguarded == {"match_results", "recommendation_revisions", "explanations"}
Row(t, c, k) == [table |-> t, of |-> c, key |-> k]
RowsOf(c) == {r \in rows : r.of = c}
Keys(t, c) == {r.key : r \in {x \in rows : x.table = t /\ x.of = c}}

Here(c) == candidate[c] = "here"
HasProfile(c, v) == Row("candidate_profiles", c, <<v>>) \in rows
NoUpload == [at |-> "idle", fresh |-> FALSE, late |-> FALSE]
NoRun == [at |-> "idle", fresh |-> {}, of |-> "nobody", version |-> 0, revision |-> 0]
NoSweep == [at |-> "idle", todo |-> {}, of |-> "nobody", left |-> {}, doomed |-> {}]

Init ==
  /\ candidate = [c \in Candidates |-> "new"]
  /\ current = [c \in Candidates |-> 0]
  /\ enabled = {} /\ expired = {} /\ sessions = {}
  /\ rows = {} /\ files = {}
  /\ upload = [u \in Uploads |-> NoUpload]
  /\ analysis = [u \in Uploads |-> "none"]
  /\ run = NoRun
  /\ sweep = NoSweep
-----------------------------------------------------------------------------
(* Sessions.                                                               *)

\* start: the candidate and its session in one transaction, with one expiry.
Start(c) ==
  /\ candidate[c] = "new"
  /\ candidate' = [candidate EXCEPT ![c] = "here"]
  /\ enabled' = enabled \union {c}
  /\ sessions' = sessions \union {c}
  /\ UNCHANGED <<current, expired, rows, files, upload, analysis, run, sweep>>

\* A mutant of Resolves: the expiry is not looked at.
ResolvesAnyAge(c) == c \in sessions

\* resolve / require_candidate: the token of c reaches c's data.
Resolves(c) == c \in sessions /\ c \notin expired

\* The clock passes expires_at, which is never moved.
Expire(c) ==
  /\ Here(c) /\ c \notin expired
  /\ expired' = expired \union {c}
  /\ UNCHANGED <<candidate, current, enabled, sessions, rows, files, upload, analysis, run, sweep>>

SetMatchingEnabled(c) ==
  /\ Here(c)
  /\ \E on \in {enabled \union {c}, enabled \ {c}} : on # enabled /\ enabled' = on
  /\ UNCHANGED <<candidate, current, expired, sessions, rows, files, upload, analysis, run, sweep>>
-----------------------------------------------------------------------------
(* An upload: the session is resolved, then accept reads the clock and     *)
(* stores the bytes, then one transaction looks at the candidate again.    *)

UploadResolve(u) ==
  /\ upload[u].at = "idle" /\ Resolves(Owner[u])
  /\ upload' = [upload EXCEPT ![u].at = "resolved"]
  /\ UNCHANGED <<candidate, current, enabled, expired, sessions, rows, files, analysis, run, sweep>>

\* The object store.
Put(u) == files' = files \union {u}
Readable(u) == u \in files
Delete(u) == files' = files \ {u}

UploadStore(u) ==
  /\ upload[u].at = "resolved"
  /\ Put(u)
  /\ upload' = [upload EXCEPT ![u].at = "stored", ![u].fresh = Owner[u] \notin expired]
  /\ UNCHANGED <<candidate, current, enabled, expired, sessions, rows, analysis, run, sweep>>

Unoccupied(c) ==
  \A v \in Uploads : Row("analysis_runs", c, <<v>>) \in rows => analysis[v] = "ended"

\* A mutant of Acceptable: the expiry is left to the sweep.
AcceptableIfHere(u) == Here(Owner[u]) /\ Unoccupied(Owner[u])

\* The candidate's expiry is compared with the instant accept read at its start.
Acceptable(u) == Here(Owner[u]) /\ upload[u].fresh /\ Unoccupied(Owner[u])

\* `late` records, for StrayFilesBeganInTime only, that the sweep had already
\* read which files this candidate has.
UploadAccept(u) ==
  /\ upload[u].at = "stored" /\ Acceptable(u)
  /\ rows' = rows \union {Row("resume_uploads", Owner[u], <<u>>), Row("analysis_runs", Owner[u], <<u>>)}
  /\ analysis' = [analysis EXCEPT ![u] = "queued"]
  /\ upload' = [upload EXCEPT ![u].at = "accepted",
                              ![u].late = sweep.of = Owner[u] /\ sweep.at \in {"files", "deleting"}]
  /\ UNCHANGED <<candidate, current, enabled, expired, sessions, files, run, sweep>>

\* Refused, or the transaction failed: the bytes are taken out again, unless
\* that fails too or the process dies.
UploadRefuse(u) ==
  /\ upload[u].at = "stored"
  /\ \/ Delete(u) /\ upload' = [upload EXCEPT ![u] = [NoUpload EXCEPT !.at = "refused"]]
     \/ files' = files /\ upload' = [upload EXCEPT ![u].at = "abandoned"]
  /\ UNCHANGED <<candidate, current, enabled, expired, sessions, rows, analysis, run, sweep>>
-----------------------------------------------------------------------------
(* The resume worker, as far as it writes: bytes, profile, vector.         *)

\* Bytes that are gone end the analysis as failed.
ReadFile(u) ==
  /\ analysis[u] = "queued"
  /\ analysis' = [analysis EXCEPT ![u] = IF Readable(u) THEN "read" ELSE "ended"]
  /\ UNCHANGED <<candidate, current, enabled, expired, sessions, rows, files, upload, run, sweep>>

\* save: an unknown candidate is NotFound, which ends the analysis.
SaveProfile(u) ==
  LET c == Owner[u]
      v == current[c] + 1
  IN /\ analysis[u] = "read"
     /\ \/ /\ Here(c) /\ v <= MaxProfile
           /\ rows' = rows \union {Row("candidate_profiles", c, <<v>>)}
           /\ current' = [current EXCEPT ![c] = v]
           /\ analysis' = [analysis EXCEPT ![u] = "saved"]
        \/ /\ ~Here(c)
           /\ analysis' = [analysis EXCEPT ![u] = "ended"]
           /\ UNCHANGED <<rows, current>>
     /\ UNCHANGED <<candidate, enabled, expired, sessions, files, upload, run, sweep>>

\* The vector references the profile row; without it the insert fails.
SaveEmbedding(u) ==
  LET c == Owner[u]
      v == current[c]
  IN /\ analysis[u] = "saved"
     /\ rows' = IF HasProfile(c, v)
                THEN rows \union {Row("candidate_embeddings", c, <<v>>)} ELSE rows
     /\ analysis' = [analysis EXCEPT ![u] = "ended"]
     /\ UNCHANGED <<candidate, current, enabled, expired, sessions, files, upload, run, sweep>>
-----------------------------------------------------------------------------
(* A match run, as far as it writes about one candidate.  `fresh` holds    *)
(* the candidates that had not expired when the run read the clock.        *)

\* list_active and is_active compare expires_at with the run's instant.
IsActive(c) == Here(c) /\ c \in enabled /\ c \in run.fresh

RunStart ==
  /\ run.at = "idle"
  /\ run' = [NoRun EXCEPT !.at = "running", !.fresh = {c \in Candidates : Here(c)} \ expired]
  /\ UNCHANGED <<candidate, current, enabled, expired, sessions, rows, files, upload, analysis, sweep>>

\* list_active: a batch with its current profile; scoring then takes a while.
RunRead(c) ==
  /\ run.at = "running" /\ IsActive(c) /\ HasProfile(c, current[c])
  /\ run' = [run EXCEPT !.at = "scoring", !.of = c, !.version = current[c]]
  /\ UNCHANGED <<candidate, current, enabled, expired, sessions, rows, files, upload, analysis, sweep>>

RunUpsert ==
  /\ run.at = "scoring"
  /\ rows' = rows \union {Row("match_results", run.of, <<run.version>>)}
  /\ run' = [run EXCEPT !.at = "scored"]
  /\ UNCHANGED <<candidate, current, enabled, expired, sessions, files, upload, analysis, sweep>>

Revisions(c) == {k[1] : k \in Keys("recommendation_revisions", c)}

\* latest_revision: 0 before the first one.
LatestRevision(c) == {n \in Revisions(c) \union {0} : \A m \in Revisions(c) : m <= n}

\* publish_for: retention looked at again, the ranking read and numbered.
\* Whether it differs from the published one is left open.
RunRank ==
  LET c == run.of IN
  /\ run.at = "scored"
  /\ \/ /\ IsActive(c) /\ HasProfile(c, current[c])
        /\ \E n \in LatestRevision(c) :
             /\ n < MaxRevision
             /\ run' = [run EXCEPT !.at = "ranked", !.version = current[c], !.revision = n + 1]
     \/ run' = NoRun
  /\ UNCHANGED <<candidate, current, enabled, expired, sessions, rows, files, upload, analysis, sweep>>

\* publish: the revision and its entries in one transaction; a number that is
\* not above the published ones is refused.
RunPublish ==
  LET c == run.of IN
  /\ run.at = "ranked"
  /\ rows' = IF \A n \in Revisions(c) : n < run.revision
             THEN rows \union {Row("recommendation_revisions", c, <<run.revision, run.version>>)}
             ELSE rows
  /\ run' = NoRun
  /\ UNCHANGED <<candidate, current, enabled, expired, sessions, files, upload, analysis, sweep>>
-----------------------------------------------------------------------------
(* The retention sweep, run_once.  Any exception in it ends the sweep.     *)

SweepStart ==
  LET due == {c \in expired : Here(c)} IN
  /\ sweep.at = "idle" /\ due # {}
  /\ sweep' = [NoSweep EXCEPT !.at = "between", !.todo = due]
  /\ UNCHANGED <<candidate, current, enabled, expired, sessions, rows, files, upload, analysis, run>>

\* purge, first transaction: which files there are.
SweepRead(c) ==
  /\ sweep.at = "between" /\ c \in sweep.todo
  /\ sweep' = [sweep EXCEPT !.at = "files", !.of = c, !.todo = @ \ {c},
                            !.left = {k[1] : k \in Keys("resume_uploads", c)}]
  /\ UNCHANGED <<candidate, current, enabled, expired, sessions, rows, files, upload, analysis, run>>

SweepFile(u) ==
  /\ sweep.at = "files" /\ u \in sweep.left
  /\ Delete(u)
  /\ sweep' = [sweep EXCEPT !.left = @ \ {u}]
  /\ UNCHANGED <<candidate, current, enabled, expired, sessions, rows, upload, analysis, run>>

\* purge, second transaction: what its statements delete; others do not see
\* it before the commit, and what others insert now it does not delete.
SweepDelete ==
  /\ sweep.at = "files" /\ sweep.left = {}
  /\ sweep' = [sweep EXCEPT !.at = "deleting", !.doomed = RowsOf(sweep.of)]
  /\ UNCHANGED <<candidate, current, enabled, expired, sessions, rows, files, upload, analysis, run>>

\* A mutant of Referenced: only the vectors' foreign key is enforced.
ReferencedByVectors(c) == {r \in RowsOf(c) : r.table = "candidate_embeddings"}

\* The candidate's row goes last.  A row that still references it, or a
\* profile, refuses the transaction.
Referenced(c) == {r \in RowsOf(c) : r.table \in Guarded \union {"candidate_embeddings"}}

SweepCommit ==
  LET c == sweep.of IN
  /\ sweep.at = "deleting" /\ Referenced(c) \subseteq sweep.doomed
  /\ rows' = rows \ sweep.doomed
  /\ sessions' = sessions \ {c}
  /\ enabled' = enabled \ {c}
  /\ candidate' = [candidate EXCEPT ![c] = "gone"]
  /\ sweep' = IF sweep.todo = {} THEN NoSweep
              ELSE [NoSweep EXCEPT !.at = "between", !.todo = sweep.todo]
  /\ UNCHANGED <<current, expired, files, upload, analysis, run>>

\* The store or the database fails, or a foreign key does.
SweepFail ==
  /\ sweep.at \in {"files", "deleting"}
  /\ sweep' = NoSweep
  /\ UNCHANGED <<candidate, current, enabled, expired, sessions, rows, files, upload, analysis, run>>
-----------------------------------------------------------------------------
DataNext ==
  \/ \E c \in Candidates : \/ Start(c) \/ Expire(c) \/ SetMatchingEnabled(c)
                           \/ RunRead(c) \/ SweepRead(c)
  \/ \E u \in Uploads : \/ UploadResolve(u) \/ UploadStore(u) \/ UploadAccept(u) \/ UploadRefuse(u)
                        \/ ReadFile(u) \/ SaveProfile(u) \/ SaveEmbedding(u) \/ SweepFile(u)
  \/ RunStart \/ RunUpsert \/ RunRank \/ RunPublish
  \/ SweepStart \/ SweepDelete \/ SweepCommit \/ SweepFail

DataSpec == Init /\ [][DataNext]_dataVars
-----------------------------------------------------------------------------
UploadRows == {Row(t, Owner[u], <<u>>) : t \in {"resume_uploads", "analysis_runs"}, u \in Uploads}
VersionRows ==
  {Row(t, c, <<v>>) : t \in {"candidate_profiles", "candidate_embeddings", "match_results"},
                      c \in Candidates, v \in 1 .. MaxProfile}
RevisionRows ==
  {Row("recommendation_revisions", c, <<n, v>>) :
     c \in Candidates, n \in 1 .. MaxRevision, v \in 1 .. MaxProfile}
ExplanationRows ==
  {Row("explanations", c, <<n, v, s>>) :
     c \in Candidates, n \in 1 .. MaxRevision, v \in 1 .. MaxProfile, s \in {"ready", "unavailable"}}

UploadState ==
  [at : {"idle", "resolved", "stored", "accepted", "refused", "abandoned"},
   fresh : BOOLEAN, late : BOOLEAN]
RunState ==
  [at : {"idle", "running", "scoring", "scored", "ranked"}, fresh : SUBSET Candidates,
   of : Candidates \union {"nobody"}, version : 0 .. MaxProfile, revision : 0 .. MaxRevision]
AllRows == UploadRows \union VersionRows \union RevisionRows \union ExplanationRows

\* The type invariant.
DataTypeOK ==
  /\ candidate \in [Candidates -> {"new", "here", "gone"}]
  /\ current \in [Candidates -> 0 .. MaxProfile]
  /\ enabled \subseteq Candidates /\ expired \subseteq Candidates /\ sessions \subseteq Candidates
  /\ rows \subseteq AllRows
  /\ files \subseteq Uploads
  /\ upload \in [Uploads -> UploadState]
  /\ analysis \in [Uploads -> {"none", "queued", "read", "saved", "ended"}]
  /\ run \in RunState
  /\ sweep \in [at : {"idle", "between", "files", "deleting"}, todo : SUBSET Candidates,
                of : Candidates \union {"nobody"}, left : SUBSET Uploads,
                doomed : SUBSET AllRows]

\* Once a candidate is purged, nothing the application reads a resume back from
\* is left: no upload, analysis, profile or vector (retention.py:56-93), even
\* though uploads and the resume worker insert such rows during the purge.
\* What stays are rows no foreign key ties to the candidate.
PurgedForGood ==
  \A c \in Candidates : candidate[c] = "gone" =>
    /\ \A r \in RowsOf(c) : r.table \in Unguarded
    /\ c \notin sessions

\* The bytes of a purged candidate are deleted (retention.py:70-73), except of
\* an upload that read the clock before expiry and committed after the sweep
\* had read which files there are, and of one whose compensation failed.
StrayFilesBeganInTime ==
  \A u \in files : candidate[Owner[u]] = "gone" =>
    \/ upload[u].at \in {"stored", "abandoned"}
    \/ upload[u].at = "accepted" /\ upload[u].fresh /\ upload[u].late
=============================================================================
