---------------------------- MODULE JobPageProofs ----------------------------
(***************************************************************************)
(* Proofs about JobPage, and with it about Explanations and CandidateData, *)
(* for any number of candidates, uploads and requests and any bounds.      *)
(***************************************************************************)
EXTENDS JobPage, TLAPS

-----------------------------------------------------------------------------
(* What every step of CandidateData, of its writers and of its sweep, keeps *)

\* A run that works on a candidate knows a profile version, and a revision
\* once it has ranked.
RunInv ==
  /\ run.at \in {"scoring", "scored", "ranked"} =>
       run.of \in Candidates /\ run.version \in 1 .. MaxProfile
  /\ run.at = "ranked" => run.revision \in 1 .. MaxRevision

\* The sweep is at a candidate that is there and not on its list, and its
\* statements delete rows of that candidate only.
SweepInv ==
  /\ \A c \in sweep.todo : Here(c)
  /\ sweep.at \in {"files", "deleting"} => sweep.of \in Candidates \ sweep.todo /\ Here(sweep.of)
  /\ \A r \in sweep.doomed : r.of = sweep.of
  /\ sweep.at # "deleting" => sweep.doomed = {}

DataInv == DataTypeOK /\ RunInv /\ SweepInv

-----------------------------------------------------------------------------
(* Rows of a candidate *)

LEMMA RowKinds ==
  ASSUME NEW r \in AllRows
  PROVE  /\ r = Row(r.table, r.of, r.key)
         /\ r.of \in Candidates
         /\ r.table \in Guarded \union Unguarded \union {"candidate_embeddings"}
         /\ r.table \in {"resume_uploads", "analysis_runs"} =>
              \E u \in Uploads : r.of = Owner[u] /\ r.key = <<u>>
         /\ r.table \in {"candidate_profiles", "candidate_embeddings", "match_results"} =>
              \E v \in 1 .. MaxProfile : r.key = <<v>>
         /\ r.table = "recommendation_revisions" =>
              \E n \in 1 .. MaxRevision, v \in 1 .. MaxProfile : r.key = <<n, v>>
         /\ r.table = "explanations" =>
              \E n \in 1 .. MaxRevision, v \in 1 .. MaxProfile, s \in {"ready", "unavailable"} :
                 r.key = <<n, v, s>>
<1>1. CASE r \in UploadRows
  <2>1. PICK t \in {"resume_uploads", "analysis_runs"}, u \in Uploads : r = Row(t, Owner[u], <<u>>)
    BY <1>1 DEF UploadRows
  <2> QED
    BY <2>1, OwnerAssumption DEF Row, Guarded, Unguarded
<1>2. CASE r \in VersionRows
  <2>1. PICK t \in {"candidate_profiles", "candidate_embeddings", "match_results"},
             c \in Candidates, v \in 1 .. MaxProfile : r = Row(t, c, <<v>>)
    BY <1>2 DEF VersionRows
  <2> QED
    BY <2>1 DEF Row, Guarded, Unguarded
<1>3. CASE r \in RevisionRows
  <2>1. PICK c \in Candidates, n \in 1 .. MaxRevision, v \in 1 .. MaxProfile :
               r = Row("recommendation_revisions", c, <<n, v>>)
    BY <1>3 DEF RevisionRows
  <2> QED
    BY <2>1 DEF Row, Guarded, Unguarded
<1>4. CASE r \in ExplanationRows
  <2>1. PICK c \in Candidates, n \in 1 .. MaxRevision, v \in 1 .. MaxProfile,
             s \in {"ready", "unavailable"} : r = Row("explanations", c, <<n, v, s>>)
    BY <1>4 DEF ExplanationRows
  <2> QED
    BY <2>1 DEF Row, Guarded, Unguarded
<1> QED
  BY <1>1, <1>2, <1>3, <1>4 DEF AllRows

LEMMA NewRows ==
  /\ \A u \in Uploads, t \in {"resume_uploads", "analysis_runs"} : Row(t, Owner[u], <<u>>) \in AllRows
  /\ \A c \in Candidates, v \in 1 .. MaxProfile,
        t \in {"candidate_profiles", "candidate_embeddings", "match_results"} : Row(t, c, <<v>>) \in AllRows
  /\ \A c \in Candidates, n \in 1 .. MaxRevision, v \in 1 .. MaxProfile :
        Row("recommendation_revisions", c, <<n, v>>) \in AllRows
  /\ \A c \in Candidates, n \in 1 .. MaxRevision, v \in 1 .. MaxProfile, s \in {"ready", "unavailable"} :
        Row("explanations", c, <<n, v, s>>) \in AllRows
<1>1. ASSUME NEW u \in Uploads, NEW t \in {"resume_uploads", "analysis_runs"}
      PROVE  Row(t, Owner[u], <<u>>) \in AllRows
  BY DEF AllRows, UploadRows
<1>2. ASSUME NEW c \in Candidates, NEW v \in 1 .. MaxProfile,
             NEW t \in {"candidate_profiles", "candidate_embeddings", "match_results"}
      PROVE  Row(t, c, <<v>>) \in AllRows
  BY DEF AllRows, VersionRows
<1>3. ASSUME NEW c \in Candidates, NEW n \in 1 .. MaxRevision, NEW v \in 1 .. MaxProfile
      PROVE  Row("recommendation_revisions", c, <<n, v>>) \in AllRows
  BY DEF AllRows, RevisionRows
<1>4. ASSUME NEW c \in Candidates, NEW n \in 1 .. MaxRevision, NEW v \in 1 .. MaxProfile,
             NEW s \in {"ready", "unavailable"}
      PROVE  Row("explanations", c, <<n, v, s>>) \in AllRows
  BY DEF AllRows, ExplanationRows
<1> QED
  BY <1>1, <1>2, <1>3, <1>4

\* A profile that is there has a version within the bound.
LEMMA ProfileVersions ==
  ASSUME DataTypeOK, NEW c, NEW v, HasProfile(c, v)
  PROVE  v \in 1 .. MaxProfile
<1> DEFINE r == Row("candidate_profiles", c, <<v>>)
<1>1. r \in AllRows
  BY DEF DataTypeOK, HasProfile
<1>2. r.table = "candidate_profiles" /\ r.key = <<v>>
  BY DEF Row
<1>3. \E w \in 1 .. MaxProfile : r.key = <<w>>
  BY <1>1, <1>2, RowKinds
<1> QED
  BY <1>2, <1>3

\* Revisions are numbered within the bound.
LEMMA RevisionNumbers ==
  ASSUME DataTypeOK, NEW c
  PROVE  /\ Revisions(c) \subseteq 1 .. MaxRevision
         /\ \A k \in Keys("recommendation_revisions", c) :
              \E n \in 1 .. MaxRevision, v \in 1 .. MaxProfile : k = <<n, v>>
<1>1. ASSUME NEW k \in Keys("recommendation_revisions", c)
      PROVE  \E n \in 1 .. MaxRevision, v \in 1 .. MaxProfile : k = <<n, v>>
  <2>1. PICK r \in rows : r.table = "recommendation_revisions" /\ r.of = c /\ r.key = k
    BY DEF Keys
  <2>2. r \in AllRows
    BY DEF DataTypeOK
  <2> QED
    BY <2>1, <2>2, RowKinds
<1> QED
  BY <1>1 DEF Revisions

-----------------------------------------------------------------------------
(* Types of the data *)

\* Changing a field keeps an upload's progress, or a run, in its type.
LEMMA UploadStates ==
  /\ [NoUpload EXCEPT !.at = "refused"] \in UploadState
  /\ \A r \in UploadState :
       /\ [r EXCEPT !.at = "resolved"] \in UploadState
       /\ [r EXCEPT !.at = "abandoned"] \in UploadState
  /\ \A r \in UploadState, b \in BOOLEAN :
       /\ [r EXCEPT !.at = "stored", !.fresh = b] \in UploadState
       /\ [r EXCEPT !.at = "accepted", !.late = b] \in UploadState
  BY DEF UploadState, NoUpload

LEMMA RunStates ==
  /\ NoRun \in RunState
  /\ \A F \in SUBSET Candidates : [NoRun EXCEPT !.at = "running", !.fresh = F] \in RunState
  /\ \A r \in RunState, v \in 0 .. MaxProfile, n \in 0 .. MaxRevision :
       [r EXCEPT !.at = "ranked", !.version = v, !.revision = n] \in RunState
<1>1. NoRun \in RunState
  BY BoundsAssumption DEF RunState, NoRun
<1>2. ASSUME NEW F \in SUBSET Candidates
      PROVE  [NoRun EXCEPT !.at = "running", !.fresh = F] \in RunState
  BY <1>1 DEF RunState
<1>3. ASSUME NEW r \in RunState, NEW v \in 0 .. MaxProfile, NEW n \in 0 .. MaxRevision
      PROVE  [r EXCEPT !.at = "ranked", !.version = v, !.revision = n] \in RunState
  BY DEF RunState
<1> QED
  BY <1>1, <1>2, <1>3

LEMMA DataInit == Init => DataInv
<1> SUFFICES ASSUME Init PROVE DataInv
  OBVIOUS
<1>1. DataTypeOK
  BY BoundsAssumption DEF Init, DataTypeOK, UploadState, RunState, NoUpload, NoRun, NoSweep
<1> QED
  BY <1>1 DEF Init, DataInv, RunInv, SweepInv, NoRun, NoSweep

LEMMA DataStep == DataInv /\ [DataNext]_dataVars => DataInv'
<1> SUFFICES ASSUME DataInv, [DataNext]_dataVars PROVE DataInv'
  OBVIOUS
<1> USE DEF DataInv, RunInv, SweepInv, Here
<1>1. ASSUME NEW c \in Candidates, Start(c) PROVE DataInv'
  BY <1>1 DEF Start, DataTypeOK
<1>2. ASSUME NEW c \in Candidates, Expire(c) PROVE DataInv'
  BY <1>2 DEF Expire, DataTypeOK
<1>3. ASSUME NEW c \in Candidates, SetMatchingEnabled(c) PROVE DataInv'
  BY <1>3 DEF SetMatchingEnabled, DataTypeOK
<1>4. ASSUME NEW u \in Uploads, UploadResolve(u) PROVE DataInv'
  BY <1>4, UploadStates DEF UploadResolve, DataTypeOK
<1>5. ASSUME NEW u \in Uploads, UploadStore(u) PROVE DataInv'
  <2>1. upload' \in [Uploads -> UploadState]
    <3>1. PICK b \in BOOLEAN : upload' = [upload EXCEPT ![u].at = "stored", ![u].fresh = b]
      BY <1>5, Zenon DEF UploadStore
    <3> QED
      BY <3>1, UploadStates DEF DataTypeOK
  <2> QED
    BY <1>5, <2>1 DEF UploadStore, Put, DataTypeOK
<1>6. ASSUME NEW u \in Uploads, UploadAccept(u) PROVE DataInv'
  <2>1. upload' \in [Uploads -> UploadState]
    <3>1. PICK b \in BOOLEAN : upload' = [upload EXCEPT ![u].at = "accepted", ![u].late = b]
      BY <1>6, Zenon DEF UploadAccept
    <3> QED
      BY <3>1, UploadStates DEF DataTypeOK
  <2>2. rows' \subseteq AllRows
    BY <1>6, NewRows DEF UploadAccept, DataTypeOK
  <2> QED
    BY <1>6, <2>1, <2>2 DEF UploadAccept, DataTypeOK
<1>7. ASSUME NEW u \in Uploads, UploadRefuse(u) PROVE DataInv'
  <2>1. upload' \in [Uploads -> UploadState]
    <3>1. CASE upload' = [upload EXCEPT ![u] = [NoUpload EXCEPT !.at = "refused"]]
      BY <3>1, UploadStates DEF DataTypeOK
    <3>2. CASE upload' = [upload EXCEPT ![u].at = "abandoned"]
      BY <3>2, UploadStates DEF DataTypeOK
    <3> QED
      BY <1>7, <3>1, <3>2 DEF UploadRefuse
  <2> QED
    BY <1>7, <2>1 DEF UploadRefuse, Delete, DataTypeOK
<1>8. ASSUME NEW u \in Uploads, ReadFile(u) PROVE DataInv'
  BY <1>8 DEF ReadFile, DataTypeOK
<1>9. ASSUME NEW u \in Uploads, SaveProfile(u) PROVE DataInv'
  <2>1. Owner[u] \in Candidates /\ current[Owner[u]] \in 0 .. MaxProfile
    BY OwnerAssumption DEF DataTypeOK
  <2>2. analysis' \in [Uploads -> {"none", "queued", "read", "saved", "ended"}]
    BY <1>9 DEF SaveProfile, DataTypeOK
  <2>3. rows' \subseteq AllRows /\ current' \in [Candidates -> 0 .. MaxProfile]
    <3>1. CASE Here(Owner[u]) /\ current[Owner[u]] + 1 <= MaxProfile
      <4>1. current[Owner[u]] + 1 \in 1 .. MaxProfile
        BY <2>1, <3>1, BoundsAssumption
      <4>2. Row("candidate_profiles", Owner[u], <<current[Owner[u]] + 1>>) \in AllRows
        BY <2>1, <4>1, NewRows
      <4> QED
        BY <1>9, <2>1, <3>1, <4>1, <4>2, BoundsAssumption DEF SaveProfile, DataTypeOK
    <3>2. CASE ~Here(Owner[u])
      BY <1>9, <3>2 DEF SaveProfile, DataTypeOK
    <3> QED
      BY <1>9, <3>1, <3>2 DEF SaveProfile
  <2> QED
    BY <1>9, <2>2, <2>3 DEF SaveProfile, DataTypeOK
<1>10. ASSUME NEW u \in Uploads, SaveEmbedding(u) PROVE DataInv'
  <2>1. Owner[u] \in Candidates
    BY OwnerAssumption
  <2>2. HasProfile(Owner[u], current[Owner[u]]) =>
          Row("candidate_embeddings", Owner[u], <<current[Owner[u]]>>) \in AllRows
    BY <2>1, NewRows, ProfileVersions
  <2>3. rows' \subseteq AllRows
    BY <1>10, <2>2 DEF SaveEmbedding, DataTypeOK
  <2> QED
    BY <1>10, <2>3 DEF SaveEmbedding, DataTypeOK
<1>11. ASSUME RunStart PROVE DataInv'
  <2>1. {c \in Candidates : Here(c)} \ expired \in SUBSET Candidates
    OBVIOUS
  <2> QED
    BY ZenonT(40), <1>11, <2>1, RunStates DEF RunStart, RunState, DataTypeOK
<1>12. ASSUME NEW c \in Candidates, RunRead(c) PROVE DataInv'
  BY <1>12, ProfileVersions DEF RunRead, RunState, DataTypeOK
<1>13. ASSUME RunUpsert PROVE DataInv'
  BY <1>13, NewRows DEF RunUpsert, RunState, DataTypeOK
<1>14. ASSUME RunRank PROVE DataInv'
  <2>1. CASE run' = NoRun
    BY <1>14, <2>1, RunStates DEF RunRank, NoRun, DataTypeOK
  <2>2. CASE run' # NoRun
    <3>1. PICK n \in LatestRevision(run.of) :
            n < MaxRevision /\ run' = [run EXCEPT !.at = "ranked", !.version = current[run.of],
                                                  !.revision = n + 1]
      BY <1>14, <2>2 DEF RunRank
    <3>2. n + 1 \in 1 .. MaxRevision /\ n + 1 \in 0 .. MaxRevision
      BY <3>1, RevisionNumbers, BoundsAssumption DEF LatestRevision
    <3>3. current[run.of] \in 1 .. MaxProfile /\ current[run.of] \in 0 .. MaxProfile
      <4>1. current[run.of] \in 1 .. MaxProfile
        BY <1>14, <2>2, ProfileVersions DEF RunRank
      <4> QED
        BY <4>1, BoundsAssumption
    <3>4. run' \in RunState
      <4>1. run \in RunState
        BY DEF DataTypeOK
      <4>2. [run EXCEPT !.at = "ranked", !.version = current[run.of], !.revision = n + 1] \in RunState
        BY <4>1, <3>2, <3>3, RunStates
      <4> QED
        BY <4>2, <3>1
    <3>5. run'.at = "ranked" /\ run'.of = run.of /\ run'.version = current[run.of] /\ run'.revision = n + 1
      BY <3>1 DEF DataTypeOK, RunState
    <3> QED
      BY <1>14, <3>2, <3>3, <3>4, <3>5 DEF RunRank, DataTypeOK
  <2> QED
    BY <2>1, <2>2
<1>15. ASSUME RunPublish PROVE DataInv'
  BY <1>15, NewRows, BoundsAssumption DEF RunPublish, NoRun, RunState, DataTypeOK
<1>16. ASSUME SweepStart PROVE DataInv'
  BY <1>16 DEF SweepStart, NoSweep, DataTypeOK
<1>17. ASSUME NEW c \in Candidates, SweepRead(c) PROVE DataInv'
  <2>1. {k[1] : k \in Keys("resume_uploads", c)} \subseteq Uploads
    BY RowKinds DEF Keys, DataTypeOK
  <2> QED
    BY <1>17, <2>1 DEF SweepRead, DataTypeOK
<1>18. ASSUME NEW u \in Uploads, SweepFile(u) PROVE DataInv'
  BY <1>18 DEF SweepFile, Delete, DataTypeOK
<1>19. ASSUME SweepDelete PROVE DataInv'
  BY <1>19 DEF SweepDelete, RowsOf, DataTypeOK
<1>20. ASSUME SweepCommit PROVE DataInv'
  BY <1>20 DEF SweepCommit, NoSweep, DataTypeOK
<1>21. ASSUME SweepFail PROVE DataInv'
  BY <1>21 DEF SweepFail, NoSweep, DataTypeOK
<1>22. ASSUME UNCHANGED dataVars PROVE DataInv'
  BY <1>22 DEF dataVars, DataTypeOK
<1> QED
  BY <1>1, <1>2, <1>3, <1>4, <1>5, <1>6, <1>7, <1>8, <1>9, <1>10, <1>11, <1>12, <1>13, <1>14,
     <1>15, <1>16, <1>17, <1>18, <1>19, <1>20, <1>21, <1>22 DEF DataNext

-----------------------------------------------------------------------------
(* The purge of the data *)

\* Only the end of a sweep takes rows away, all of the candidate it removes.
LEMMA DataRowsStay ==
  ASSUME DataInv, [DataNext]_dataVars
  PROVE  /\ \A r \in rows \ rows' : SweepCommit /\ r.of = sweep.of
         /\ \A c \in Candidates : candidate[c] = "gone" => candidate'[c] = "gone"
<1> USE DEF DataInv, SweepInv, Here
<1>1. ASSUME SweepCommit
      PROVE  /\ \A r \in rows \ rows' : r.of = sweep.of
             /\ \A c \in Candidates : candidate[c] = "gone" => candidate'[c] = "gone"
  BY <1>1 DEF SweepCommit, DataTypeOK
<1>2. ASSUME NEW c \in Candidates, Start(c)
      PROVE  rows' = rows /\ \A d \in Candidates : candidate[d] = "gone" => candidate'[d] = "gone"
  BY <1>2 DEF Start, DataTypeOK
<1>3. ASSUME ~SweepCommit, \A c \in Candidates : ~Start(c)
      PROVE  rows \subseteq rows' /\ candidate' = candidate
  BY <1>3 DEF DataNext, dataVars, Expire, SetMatchingEnabled, RunRead, SweepRead, UploadResolve,
              UploadStore, UploadAccept, UploadRefuse, ReadFile, SaveProfile, SaveEmbedding,
              SweepFile, RunStart, RunUpsert, RunRank, RunPublish, SweepStart, SweepDelete, SweepFail
<1> QED
  BY <1>1, <1>2, <1>3

\* A row is added about a candidate that is there, or it is one no foreign key
\* guards, or a vector of a profile that is there.  Revisions count up.
LEMMA DataRowsNew ==
  ASSUME DataInv, [DataNext]_dataVars, NEW r \in rows' \ rows
  PROVE  /\ \/ Here(r.of)
            \/ r.table \in Unguarded
            \/ \E v : HasProfile(r.of, v)
         /\ r.table # "explanations"
         /\ r.table = "recommendation_revisions" =>
              /\ \A n \in Revisions(r.of) : n < r.key[1]
              /\ rows' \ rows = {r}
         /\ candidate' = candidate
<1>1. \/ \E u \in Uploads : UploadAccept(u) \/ SaveProfile(u) \/ SaveEmbedding(u)
      \/ RunUpsert \/ RunPublish
  <2>1. SweepCommit => rows' \subseteq rows
    BY DEF SweepCommit
  <2> QED
    BY <2>1 DEF DataNext, dataVars, Expire, SetMatchingEnabled, RunRead, SweepRead, UploadResolve,
                UploadStore, UploadRefuse, ReadFile, Start,
                SweepFile, RunStart, RunRank, SweepStart, SweepDelete, SweepFail
<1>2. ASSUME NEW u \in Uploads, UploadAccept(u)
      PROVE  Here(r.of) /\ r.table \in {"resume_uploads", "analysis_runs"} /\ candidate' = candidate
  BY <1>2 DEF UploadAccept, Acceptable, Row
<1>3. ASSUME NEW u \in Uploads, SaveProfile(u)
      PROVE  Here(r.of) /\ r.table = "candidate_profiles" /\ candidate' = candidate
  BY <1>3 DEF SaveProfile, Row
<1>4. ASSUME NEW u \in Uploads, SaveEmbedding(u)
      PROVE  HasProfile(r.of, current[Owner[u]]) /\ r.table = "candidate_embeddings" /\ candidate' = candidate
  BY <1>4 DEF SaveEmbedding, Row
<1>5. ASSUME RunUpsert
      PROVE  r.table = "match_results" /\ candidate' = candidate
  BY <1>5 DEF RunUpsert, Row
<1>6. ASSUME RunPublish
      PROVE  /\ r.table = "recommendation_revisions" /\ candidate' = candidate
             /\ \A n \in Revisions(r.of) : n < r.key[1]
             /\ rows' \ rows = {r}
  <2>1. r = Row("recommendation_revisions", run.of, <<run.revision, run.version>>)
        /\ \A n \in Revisions(run.of) : n < run.revision
    BY <1>6 DEF RunPublish
  <2> QED
    BY <1>6, <2>1 DEF RunPublish, Row
<1> QED
  BY <1>1, <1>2, <1>3, <1>4, <1>5, <1>6 DEF Unguarded

LEMMA PurgeStep ==
  ASSUME DataInv, PurgedForGood, [DataNext]_dataVars
  PROVE  PurgedForGood'
<1> USE DEF DataInv, SweepInv, Here
<1>1. ASSUME SweepCommit PROVE PurgedForGood'
  <2> SUFFICES ASSUME NEW c \in Candidates, candidate'[c] = "gone"
               PROVE  /\ \A r \in rows' : r.of = c => r.table \in Unguarded
                      /\ c \notin sessions'
    BY DEF PurgedForGood, RowsOf
  <2>1. CASE c = sweep.of
    <3>1. ASSUME NEW r \in rows', r.of = c PROVE r.table \in Unguarded
      <4>1. r \in AllRows /\ r \in rows /\ r \notin sweep.doomed
        BY <1>1, <3>1 DEF SweepCommit, DataTypeOK
      <4>2. r.table \in Guarded \union Unguarded \union {"candidate_embeddings"}
        BY <4>1, RowKinds
      <4> QED
        BY <1>1, <2>1, <3>1, <4>1, <4>2 DEF SweepCommit, Referenced, RowsOf
    <3> QED
      BY <1>1, <2>1, <3>1 DEF SweepCommit
  <2>2. CASE c # sweep.of
    BY <1>1, <2>2 DEF SweepCommit, DataTypeOK, PurgedForGood, RowsOf
  <2> QED
    BY <2>1, <2>2
<1>2. ASSUME ~SweepCommit PROVE PurgedForGood'
  <2> SUFFICES ASSUME NEW c \in Candidates, candidate'[c] = "gone"
               PROVE  /\ \A r \in rows' : r.of = c => r.table \in Unguarded
                      /\ c \notin sessions'
    BY DEF PurgedForGood, RowsOf
  <2>1. candidate[c] = "gone" /\ c \notin sessions'
    BY <1>2 DEF PurgedForGood, DataTypeOK, DataNext, dataVars, Start, Expire, SetMatchingEnabled, RunRead,
              SweepRead, UploadResolve, UploadStore, UploadAccept, UploadRefuse, ReadFile, SaveProfile,
              SaveEmbedding, SweepFile, RunStart, RunUpsert, RunRank, RunPublish, SweepStart,
              SweepDelete, SweepFail
  <2>2. \A r \in rows : r.of = c => r.table \in Unguarded
    BY <2>1 DEF PurgedForGood, RowsOf
  <2>3. \A v : ~HasProfile(c, v)
    BY <2>2 DEF HasProfile, Row, Unguarded
  <2>4. \A r \in rows' \ rows : r.of = c => r.table \in Unguarded
    BY <2>1, <2>3, DataRowsNew
  <2> QED
    BY <2>1, <2>2, <2>4
<1> QED
  BY <1>1, <1>2

-----------------------------------------------------------------------------
(* The bytes *)

\* What the sweep can rely on: bytes are stored before they are accepted and
\* taken out when they are refused; an accepted upload began in time and has
\* its row as long as the candidate is not purged; and while the sweep is at a
\* candidate, its list holds every accepted file that was there when it read.
FilesInv ==
  /\ \A u \in files : upload[u].at \in {"stored", "accepted", "abandoned"}
  /\ \A u \in Uploads : upload[u].at = "accepted" =>
       /\ upload[u].fresh
       /\ candidate[Owner[u]] # "gone" => Row("resume_uploads", Owner[u], <<u>>) \in rows
  /\ sweep.at \in {"files", "deleting"} =>
       \A u \in files : Owner[u] = sweep.of /\ upload[u].at = "accepted" /\ ~upload[u].late => u \in sweep.left
  /\ sweep.at = "deleting" => sweep.left = {}

BytesInv == FilesInv /\ StrayFilesBeganInTime

LEMMA BytesInit == Init => BytesInv
  BY DEF Init, BytesInv, FilesInv, StrayFilesBeganInTime, NoUpload, NoSweep

LEMMA BytesStep ==
  ASSUME DataInv, BytesInv, [DataNext]_dataVars
  PROVE  BytesInv'
<1> USE OwnerAssumption DEF DataInv, SweepInv, Here
<1>1. ASSUME NEW c \in Candidates, Start(c) PROVE BytesInv'
  BY <1>1 DEF Start, BytesInv, FilesInv, StrayFilesBeganInTime, DataTypeOK
<1>2. ASSUME NEW u \in Uploads, UploadResolve(u) PROVE BytesInv'
  BY <1>2 DEF UploadResolve, BytesInv, FilesInv, StrayFilesBeganInTime, DataTypeOK, UploadState
<1>3. ASSUME NEW u \in Uploads, UploadStore(u) PROVE BytesInv'
  BY <1>3 DEF UploadStore, Put, BytesInv, FilesInv, StrayFilesBeganInTime, DataTypeOK, UploadState
<1>4. ASSUME NEW u \in Uploads, UploadAccept(u) PROVE BytesInv'
  BY <1>4 DEF UploadAccept, Acceptable, BytesInv, FilesInv, StrayFilesBeganInTime, DataTypeOK, UploadState
<1>5. ASSUME NEW u \in Uploads, UploadRefuse(u) PROVE BytesInv'
  <2>1. CASE Delete(u) /\ upload' = [upload EXCEPT ![u] = [NoUpload EXCEPT !.at = "refused"]]
    <3>1. upload'[u].at = "refused" /\ u \notin files' /\ files' \subseteq files
          /\ \A v \in Uploads : v # u => upload'[v] = upload[v]
      BY <2>1 DEF Delete, NoUpload, DataTypeOK
    <3> QED
      BY <1>5, <3>1 DEF UploadRefuse, BytesInv, FilesInv, StrayFilesBeganInTime, DataTypeOK
  <2>2. CASE files' = files /\ upload' = [upload EXCEPT ![u].at = "abandoned"]
    <3>1. upload'[u].at = "abandoned" /\ \A v \in Uploads : v # u => upload'[v] = upload[v]
      BY <2>2 DEF DataTypeOK, UploadState
    <3> QED
      BY <1>5, <2>2, <3>1 DEF UploadRefuse, BytesInv, FilesInv, StrayFilesBeganInTime, DataTypeOK
  <2> QED
    BY <1>5, <2>1, <2>2 DEF UploadRefuse
<1>6. ASSUME NEW c \in Candidates, SweepRead(c) PROVE BytesInv'
  <2>1. sweep'.at = "files" /\ sweep'.of = c /\ sweep'.left = {k[1] : k \in Keys("resume_uploads", c)}
    BY <1>6 DEF SweepRead, DataTypeOK
  <2>2. ASSUME NEW u \in files, Owner[u] = c, upload[u].at = "accepted"
        PROVE  u \in sweep'.left
    <3>1. Row("resume_uploads", c, <<u>>) \in rows
      BY <1>6, <2>2 DEF SweepRead, BytesInv, FilesInv, DataTypeOK
    <3>2. <<u>> \in Keys("resume_uploads", c)
      BY <3>1 DEF Keys, Row
    <3> QED
      BY <2>1, <3>2
  <2> QED
    BY <1>6, <2>1, <2>2 DEF SweepRead, BytesInv, FilesInv, StrayFilesBeganInTime
<1>7. ASSUME NEW u \in Uploads, SweepFile(u) PROVE BytesInv'
  BY <1>7 DEF SweepFile, Delete, BytesInv, FilesInv, StrayFilesBeganInTime, DataTypeOK, UploadState
<1>8. ASSUME SweepStart \/ SweepDelete \/ SweepFail PROVE BytesInv'
  <2>1. sweep'.at \in {"files", "deleting"} =>
          sweep.at = "files" /\ sweep'.of = sweep.of /\ sweep'.left = sweep.left /\ sweep.left = {}
    <3>1. CASE SweepStart
      <4>1. \E due : sweep' = [NoSweep EXCEPT !.at = "between", !.todo = due]
        BY <3>1, Zenon DEF SweepStart
      <4> QED
        BY <4>1 DEF NoSweep
    <3>2. CASE SweepDelete
      <4>1. \E dead : sweep' = [sweep EXCEPT !.at = "deleting", !.doomed = dead]
        BY <3>2, Zenon DEF SweepDelete
      <4> QED
        BY <3>2, <4>1 DEF SweepDelete, DataTypeOK
    <3>3. CASE SweepFail
      BY <3>3 DEF SweepFail, NoSweep
    <3> QED
      BY <1>8, <3>1, <3>2, <3>3
  <2>2. UNCHANGED <<candidate, rows, files, upload>>
    BY <1>8 DEF SweepStart, SweepDelete, SweepFail
  <2> QED
    BY <2>1, <2>2 DEF BytesInv, FilesInv, StrayFilesBeganInTime
<1>9. ASSUME SweepCommit PROVE BytesInv'
  <2>1. \A c \in Candidates : c # sweep.of => candidate'[c] = candidate[c]
    BY <1>9 DEF SweepCommit, DataTypeOK
  <2>2. candidate'[sweep.of] = "gone"
    BY <1>9 DEF SweepCommit, DataTypeOK
  <2>3. \A u \in Uploads : candidate'[Owner[u]] # "gone" =>
          (Row("resume_uploads", Owner[u], <<u>>) \in rows => Row("resume_uploads", Owner[u], <<u>>) \in rows')
    BY <1>9, <2>2 DEF SweepCommit, Row
  <2>4. files' = files /\ upload' = upload /\ sweep'.at \notin {"files", "deleting"}
    BY <1>9 DEF SweepCommit, NoSweep
  <2>5. FilesInv'
    BY <2>1, <2>2, <2>3, <2>4 DEF BytesInv, FilesInv
  <2>6. ASSUME NEW u \in files, candidate'[Owner[u]] = "gone"
        PROVE  \/ upload[u].at \in {"stored", "abandoned"}
               \/ upload[u].at = "accepted" /\ upload[u].fresh /\ upload[u].late
    <3>1. CASE Owner[u] = sweep.of
      BY <1>9, <3>1 DEF SweepCommit, BytesInv, FilesInv, DataTypeOK
    <3>2. CASE Owner[u] # sweep.of
      BY <2>1, <2>6, <3>2 DEF BytesInv, StrayFilesBeganInTime, DataTypeOK
    <3> QED
      BY <3>1, <3>2
  <2> QED
    BY <2>4, <2>5, <2>6 DEF BytesInv, StrayFilesBeganInTime
<1>10. ASSUME rows \subseteq rows', UNCHANGED <<candidate, files, upload, sweep>> PROVE BytesInv'
  BY <1>10 DEF BytesInv, FilesInv, StrayFilesBeganInTime
<1> QED
  BY <1>1, <1>2, <1>3, <1>4, <1>5, <1>6, <1>7, <1>8, <1>9, <1>10
     DEF DataNext, dataVars, Expire, SetMatchingEnabled, RunRead, ReadFile, SaveProfile, SaveEmbedding,
         RunStart, RunUpsert, RunRank, RunPublish

-----------------------------------------------------------------------------
(* After expiry *)

\* Uploads and resumes in progress, and the run, are about a candidate that has
\* expired only if they were before the step.
LEMMA WorkStep ==
  ASSUME DataInv, [DataNext]_dataVars, NEW c \in expired
  PROVE  /\ \A u \in Uploads : Owner[u] = c =>
              ((upload[u].at \in {"resolved", "stored"} \/ analysis[u] \in {"queued", "read", "saved"})' =>
               (upload[u].at \in {"resolved", "stored"} \/ analysis[u] \in {"queued", "read", "saved"}))
         /\ c \in run'.fresh => c \in run.fresh
<1> USE DEF DataInv, DataTypeOK
<1>1. ASSUME NEW u \in Uploads, NEW v \in Uploads, UploadResolve(v), Owner[u] = c
      PROVE  upload'[u] = upload[u] /\ analysis' = analysis
  BY <1>1 DEF UploadResolve, Resolves
<1>2. ASSUME NEW u \in Uploads, NEW v \in Uploads,
             UploadStore(v) \/ UploadAccept(v) \/ UploadRefuse(v)
      PROVE  upload'[u].at \in {"resolved", "stored"} \/ analysis'[u] \in {"queued", "read", "saved"} =>
             upload[u].at \in {"resolved", "stored"} \/ analysis[u] \in {"queued", "read", "saved"}
  BY <1>2 DEF UploadStore, UploadAccept, UploadRefuse, UploadState
<1>3. ASSUME NEW u \in Uploads, NEW v \in Uploads,
             ReadFile(v) \/ SaveProfile(v) \/ SaveEmbedding(v)
      PROVE  /\ analysis'[u] \in {"queued", "read", "saved"} => analysis[u] \in {"queued", "read", "saved"}
             /\ upload' = upload
  BY <1>3 DEF ReadFile, SaveProfile, SaveEmbedding
<1>4. ASSUME NEW v \in Uploads, UploadResolve(v) \/ UploadStore(v) \/ UploadAccept(v) \/ UploadRefuse(v)
                                \/ ReadFile(v) \/ SaveProfile(v) \/ SaveEmbedding(v)
      PROVE  run' = run
  BY <1>4 DEF UploadResolve, UploadStore, UploadAccept, UploadRefuse, ReadFile, SaveProfile, SaveEmbedding
<1>5. ASSUME RunStart \/ RunUpsert \/ RunRank \/ RunPublish \/ \E d \in Candidates : RunRead(d)
      PROVE  upload' = upload /\ analysis' = analysis /\ (c \in run'.fresh => c \in run.fresh)
  <2>1. CASE RunStart
    <3>1. PICK F : F = {d \in Candidates : Here(d)} \ expired /\
                   run' = [NoRun EXCEPT !.at = "running", !.fresh = F]
      BY <2>1, Zenon DEF RunStart
    <3>2. c \notin F
      BY <3>1
    <3> QED
      BY <2>1, <3>1, <3>2 DEF RunStart, NoRun
  <2>2. CASE RunUpsert \/ RunRank \/ RunPublish \/ \E d \in Candidates : RunRead(d)
    <3>1. NoRun.fresh = {}
      BY DEF NoRun
    <3>2. run'.fresh = run.fresh \/ run' = NoRun
      BY <2>2 DEF RunUpsert, RunRank, RunPublish, RunRead, RunState
    <3>3. upload' = upload /\ analysis' = analysis
      BY <2>2 DEF RunUpsert, RunRank, RunPublish, RunRead
    <3> QED
      BY <3>1, <3>2, <3>3
  <2> QED
    BY <1>5, <2>1, <2>2
<1>6. UNCHANGED <<upload, analysis, run>> \/
      \/ \E v \in Uploads : \/ UploadResolve(v) \/ UploadStore(v) \/ UploadAccept(v) \/ UploadRefuse(v)
                            \/ ReadFile(v) \/ SaveProfile(v) \/ SaveEmbedding(v)
      \/ RunStart \/ RunUpsert \/ RunRank \/ RunPublish \/ \E d \in Candidates : RunRead(d)
  BY DEF DataNext, dataVars, Start, Expire, SetMatchingEnabled, SweepRead, SweepFile, SweepStart, SweepDelete,
         SweepCommit, SweepFail
<1> QED
  BY <1>1, <1>2, <1>3, <1>4, <1>5, <1>6

-----------------------------------------------------------------------------
(* Types of the page *)

\* What a request that is under way knows: whom and what it is about, then the
\* profile version of its entry, which was not explained when it looked.  An
\* answer is on its way only to a page that shows it.
RequestInv ==
  \A q \in Requests :
    /\ request[q].at \in {"sent", "generating"} =>
         request[q].of \in Candidates /\ request[q].revision \in 1 .. MaxRevision
    /\ request[q].at = "generating" =>
         request[q].version \in 1 .. MaxProfile /\ request[q].seen # "ready"
    /\ request[q].at = "answered" => request[q].shown

TypeInv == TypeOK /\ DataInv /\ RequestInv

\* The requests after one of them is sent.
LEMMA SendTypes ==
  ASSUME TypeInv, NEW q \in Requests, NEW c \in Candidates, NEW n \in 1 .. MaxRevision,
         NEW b \in BOOLEAN, Send(q, c, n, b)
  PROVE  request' \in [Requests -> RequestState] /\ RequestInv'
<1> DEFINE r == Asked("sent", c, n, "none", b)
<1>1. r \in RequestState /\ r.at = "sent" /\ r.of = c /\ r.revision = n
  BY BoundsAssumption DEF Asked, RequestState
<1>2. request' = [request EXCEPT ![q] = r]
  BY DEF Send
<1> HIDE DEF r
<1> QED
  BY <1>1, <1>2 DEF TypeInv, TypeOK, RequestInv

\* The requests after one of them is answered.
LEMMA AnsweredTypes ==
  ASSUME TypeInv, NEW q \in Requests, NEW a \in {"ready", "unavailable", "error"}
  PROVE  /\ Answered(q, a) \in RequestState
         /\ Answered(q, a).at \in {"answered", "closed"}
         /\ Answered(q, a).at = "answered" =>
              Answered(q, a).shown /\ request[q].shown /\ Answered(q, a).revision = request[q].revision
  BY BoundsAssumption DEF Answered, Asked, Over, RequestState, TypeInv, TypeOK

\* Cached explanations and entries have these forms.
LEMMA CachedTypes ==
  ASSUME TypeInv, NEW c, NEW n
  PROVE  /\ StateOf(c, n) \in {"none", "ready", "unavailable"}
         /\ Cached(c, n) # {} => StateOf(c, n) # "none"
         /\ \A e \in Entry(c, n) : e[1] = n /\ n \in 1 .. MaxRevision /\ e[2] \in 1 .. MaxProfile
<1>1. ASSUME NEW k \in Cached(c, n) PROVE k[3] \in {"ready", "unavailable"}
  <2>1. PICK r \in rows : r.table = "explanations" /\ r.of = c /\ r.key = k
    BY DEF Cached, Keys
  <2>2. r \in AllRows
    BY DEF TypeInv, TypeOK, DataTypeOK
  <2>3. PICK m \in 1 .. MaxRevision, v \in 1 .. MaxProfile, s \in {"ready", "unavailable"} : k = <<m, v, s>>
    BY <2>1, <2>2, RowKinds
  <2> QED
    BY <2>3
<1>2. Cached(c, n) = {} => StateOf(c, n) = "none"
  BY DEF StateOf
<1>3. ASSUME Cached(c, n) # {} PROVE StateOf(c, n) \in {"ready", "unavailable"}
  <2>1. (CHOOSE k \in Cached(c, n) : TRUE) \in Cached(c, n)
    BY <1>3
  <2> QED
    BY <1>1, <1>3, <2>1 DEF StateOf
<1>4. \A e \in Entry(c, n) : e[1] = n /\ n \in 1 .. MaxRevision /\ e[2] \in 1 .. MaxProfile
  BY RevisionNumbers DEF Entry, TypeInv, DataInv
<1> QED
  BY <1>2, <1>3, <1>4

\* A request is replaced by its answer.
LEMMA AnswerTypes ==
  ASSUME TypeInv, NEW q \in Requests, NEW a \in {"ready", "unavailable", "error"},
         request' = [request EXCEPT ![q] = Answered(q, a)]
  PROVE  request' \in [Requests -> RequestState] /\ RequestInv'
  BY AnsweredTypes DEF TypeInv, TypeOK, RequestInv

\* What the page asks for, once it shows the job.
LEMMA TargetType ==
  ASSUME TypeInv
  PROVE  Target \in 0 .. MaxRevision /\ (Mounted => Target \in 1 .. MaxRevision)
  BY BoundsAssumption DEF Target, Mounted, TypeInv, TypeOK, PageState

LEMMA SystemTypeInit == SiteInit => TypeInv
<1> SUFFICES ASSUME SiteInit PROVE TypeInv
  OBVIOUS
<1>1. DataInv
  BY DataInit DEF SiteInit
<1>2. request \in [Requests -> RequestState] /\ RequestInv
  BY BoundsAssumption DEF SiteInit, NoRequest, Asked, RequestState, RequestInv
<1>3. page \in PageState
  BY BoundsAssumption DEF SiteInit, Closed, NoProse, Prose, PageState
<1> QED
  BY <1>1, <1>2, <1>3 DEF TypeInv, TypeOK, DataInv

\* What an action does that leaves the candidate's data alone.
LEMMA DataAlone ==
  ASSUME TypeInv, UNCHANGED dataVars,
         request' \in [Requests -> RequestState], RequestInv', page' \in PageState
  PROVE  TypeInv'
<1>1. DataInv'
  BY DataStep DEF TypeInv
<1> QED
  BY <1>1 DEF TypeInv, TypeOK, DataInv

LEMMA GeneratingType ==
  ASSUME NEW x \in RequestState, NEW v \in 0 .. MaxProfile, NEW s \in {"none", "ready", "unavailable"}
  PROVE  /\ Generating(x, v, s) \in RequestState
         /\ Generating(x, v, s).at = "generating"
         /\ Generating(x, v, s).of = x.of /\ Generating(x, v, s).revision = x.revision
         /\ Generating(x, v, s).version = v /\ Generating(x, v, s).seen = s
         /\ Generating(x, v, s).shown = x.shown
  BY DEF Generating, RequestState

LEMMA AskTypes ==
  ASSUME TypeInv, NEW q \in Requests, Ask(q)
  PROVE  request' \in [Requests -> RequestState] /\ RequestInv'
<1> DEFINE c == request[q].of
           n == request[q].revision
<1>1. CASE \E a \in {"ready", "error"} : request' = [request EXCEPT ![q] = Answered(q, a)]
  BY <1>1, AnswerTypes
<1>2. ASSUME NEW e \in Entry(c, n), ~Finished(c, n),
             request' = [request EXCEPT ![q] = Generating(request[q], e[2], StateOf(c, n))]
      PROVE  request' \in [Requests -> RequestState] /\ RequestInv'
  <2>1. request[q] \in RequestState /\ request[q].at = "sent"
    BY DEF Ask, TypeInv, TypeOK
  <2>2. e[2] \in 1 .. MaxProfile /\ StateOf(c, n) \in {"none", "unavailable"}
    BY <1>2, CachedTypes DEF Finished
  <2>3. e[2] \in 0 .. MaxProfile
    BY <2>2, BoundsAssumption
  <2> DEFINE r == Generating(request[q], e[2], StateOf(c, n))
  <2>4. /\ r \in RequestState
        /\ r.at = "generating" /\ r.of = c /\ r.revision = n
        /\ r.version \in 1 .. MaxProfile /\ r.seen # "ready"
    BY SMTT(30), <2>1, <2>2, <2>3, GeneratingType
  <2> HIDE DEF r
  <2> QED
    BY <1>2, <2>1, <2>4 DEF r, TypeInv, TypeOK, RequestInv
<1> QED
  BY <1>1, <1>2 DEF Ask, RankedWith

\* A saved explanation is of its request's candidate, revision and version.
LEMMA SaveRows ==
  ASSUME TypeInv, NEW q \in Requests, Save(q)
  PROVE  \E s \in {"ready", "unavailable"} :
           /\ Row("explanations", request[q].of, <<request[q].revision, request[q].version, s>>) \in AllRows
           /\ rows' = {r \in rows : ~(/\ r.table = "explanations" /\ r.of = request[q].of
                                       /\ r.key[1] = request[q].revision)}
                      \union {Row("explanations", request[q].of,
                                  <<request[q].revision, request[q].version, s>>)}
           /\ request' = [request EXCEPT ![q] = Answered(q, s)]
<1>1. \A s \in {"ready", "unavailable"} :
        Row("explanations", request[q].of, <<request[q].revision, request[q].version, s>>) \in AllRows
  BY NewRows DEF Save, TypeInv, RequestInv
<1> QED
  BY <1>1 DEF Save

LEMMA SaveTypes ==
  ASSUME TypeInv, NEW q \in Requests, Save(q), page' = page
  PROVE  TypeInv'
<1>1. PICK s \in {"ready", "unavailable"} :
        /\ rows' \subseteq rows \union {Row("explanations", request[q].of,
                                          <<request[q].revision, request[q].version, s>>)}
        /\ Row("explanations", request[q].of, <<request[q].revision, request[q].version, s>>) \in AllRows
        /\ request' = [request EXCEPT ![q] = Answered(q, s)]
  BY SaveRows
<1>2. request' \in [Requests -> RequestState] /\ RequestInv'
  BY <1>1, AnswerTypes
<1>3. DataInv'
  <2>1. UNCHANGED <<candidate, current, enabled, expired, sessions, files, upload, analysis, run, sweep>>
    BY DEF Save
  <2>2. rows' \subseteq AllRows
    BY <1>1 DEF TypeInv, TypeOK, DataTypeOK
  <2> QED
    BY <2>1, <2>2 DEF TypeInv, DataInv, DataTypeOK, RunInv, SweepInv, Here
<1> QED
  BY <1>2, <1>3 DEF TypeInv, TypeOK, DataInv

\* The page after each of the actions that change it.
LEMMA PageTypes ==
  ASSUME TypeInv
  PROVE  /\ Closed \in PageState
         /\ Open => page' \in PageState
         /\ Poll => page' \in PageState
         /\ PollStops \/ Refresh => page' \in PageState
         /\ GetDropped => page' \in PageState
         /\ GetAnswered => page' \in PageState
         /\ Retry => page' \in PageState
         /\ \A q \in Requests : PostAnswered(q) => page' \in PageState
<1> USE DEF TypeInv, TypeOK
<1>1. Closed \in PageState
  BY BoundsAssumption DEF Closed, NoProse, Prose, PageState
<1>2. ASSUME Open PROVE page' \in PageState
  <2>1. PICK n \in Revisions(Reader) \union {0} :
          page' = [Closed EXCEPT !.open = TRUE, !.polling = TRUE, !.link = n]
    BY <1>2, Zenon DEF Open
  <2>2. n \in 0 .. MaxRevision
    BY RevisionNumbers, BoundsAssumption
  <2> QED
    BY <1>1, <2>1, <2>2 DEF PageState
<1>3. ASSUME Poll PROVE page' \in PageState
  <2>1. PICK n \in Newest :
          LET target == IF page.link # 0 THEN page.link ELSE n IN
          page' = [page EXCEPT !.data = n,
                     !.gets = IF Mounted /\ target = Target THEN @ ELSE @ \union {target}]
    BY <1>3 DEF Poll
  <2>2. n \in 1 .. MaxRevision /\ page.link \in 0 .. MaxRevision
    BY RevisionNumbers DEF Newest, PageState
  <2> DEFINE target == IF page.link # 0 THEN page.link ELSE n
             g == IF Mounted /\ target = Target THEN page.gets ELSE page.gets \union {target}
  <2>3. g \in SUBSET (1 .. MaxRevision) /\ n \in 0 .. MaxRevision
    BY <2>2, BoundsAssumption DEF PageState
  <2>4. page' = [page EXCEPT !.data = n, !.gets = g]
    BY <2>1, Zenon
  <2> HIDE DEF g
  <2> QED
    BY <2>3, <2>4 DEF PageState
<1>4. ASSUME PollStops \/ Refresh PROVE page' \in PageState
  BY <1>4 DEF PollStops, Refresh, PageState
<1>5. ASSUME GetDropped PROVE page' \in PageState
  BY <1>5 DEF GetDropped, PageState
<1>6. ASSUME GetAnswered PROVE page' \in PageState
  <2>1. CASE page' = [page EXCEPT !.gets = @ \ {Target}, !.error = TRUE]
    BY <2>1 DEF PageState
  <2>2. ASSUME NEW s \in {"ready", "unavailable", "pending"},
               \/ page' = [page EXCEPT !.gets = @ \ {Target}, !.prose = [revision |-> Target, state |-> s],
                                       !.overtaken = FALSE]
               \/ page' = [page EXCEPT !.gets = @ \ {Target}, !.prose = [revision |-> Target, state |-> s],
                                       !.overtaken = FALSE, !.error = FALSE]
        PROVE page' \in PageState
    <3>1. [revision |-> Target, state |-> s] \in Prose
      BY TargetType DEF Prose
    <3> QED
      BY <2>2, <3>1 DEF PageState
  <2> QED
    BY <1>6, <2>1, <2>2 DEF GetAnswered
<1>7. ASSUME Retry PROVE page' \in PageState
  BY <1>7 DEF Retry, PageState
<1>8. ASSUME NEW q \in Requests, PostAnswered(q) PROVE page' \in PageState
  <2>1. CASE page' = [page EXCEPT !.error = TRUE]
    BY <2>1 DEF PageState
  <2>2. CASE page' = WithProse(q) /\ request[q].answer # "error"
    <3>1. [revision |-> request[q].revision, state |-> request[q].answer] \in Prose
      BY <2>2 DEF Prose, RequestState
    <3>2. PICK b \in BOOLEAN, p \in Prose : page' = [page EXCEPT !.prose = p, !.overtaken = b]
      BY <2>2, <3>1, Zenon DEF WithProse
    <3> QED
      BY <3>2 DEF PageState
  <2> QED
    BY <1>8, <2>1, <2>2 DEF PostAnswered, AfterPost
<1> QED
  BY <1>1, <1>2, <1>3, <1>4, <1>5, <1>6, <1>7, <1>8

LEMMA TypeStep == TypeInv /\ [Next]_vars => TypeInv'
<1> SUFFICES ASSUME TypeInv, [Next]_vars PROVE TypeInv'
  OBVIOUS
<1> USE DEF dataAndRequests
<1>1. CASE DataNext /\ UNCHANGED <<request, page>>
  <2>1. DataInv'
    BY <1>1, DataStep DEF TypeInv
  <2> QED
    BY <1>1, <2>1 DEF TypeInv, TypeOK, DataInv, RequestInv
<1>2. ASSUME NEW q \in Requests, Ask(q), page' = page PROVE TypeInv'
  BY <1>2, AskTypes, DataAlone DEF Ask, TypeInv, TypeOK
<1>3. ASSUME NEW q \in Requests, Save(q), page' = page PROVE TypeInv'
  BY <1>3, SaveTypes
<1>4. ASSUME NEW q \in Requests, SaveFails(q), page' = page PROVE TypeInv'
  BY <1>4, AnswerTypes, DataAlone DEF SaveFails, TypeInv, TypeOK
<1>5. ASSUME NEW q \in Requests, PostAnswered(q) PROVE TypeInv'
  <2>1. request' \in [Requests -> RequestState] /\ RequestInv'
    BY <1>5, BoundsAssumption DEF PostAnswered, Over, Asked, RequestState, TypeInv, TypeOK, RequestInv
  <2> QED
    BY <1>5, <2>1, PageTypes, DataAlone DEF PostAnswered
<1>6. ASSUME Open \/ Poll \/ PollStops \/ Refresh \/ GetDropped PROVE TypeInv'
  <2>1. UNCHANGED <<dataVars, request>>
    BY <1>6 DEF Open, Poll, PollStops, Refresh, GetDropped
  <2> QED
    BY <1>6, <2>1, PageTypes, DataAlone DEF TypeInv, TypeOK, RequestInv
<1>7. ASSUME Close PROVE TypeInv'
  <2>1. \A q \in Requests : [request[q] EXCEPT !.shown = FALSE] \in RequestState
    BY DEF TypeInv, TypeOK, RequestState
  <2>2. Over \in RequestState
    BY BoundsAssumption DEF Over, Asked, RequestState
  <2>3. request' \in [Requests -> RequestState]
    BY <1>7, <2>1, <2>2 DEF Close
  <2>4. ASSUME NEW q \in Requests
        PROVE  \/ request'[q].at = "closed"
               \/ /\ request'[q].at = request[q].at /\ request[q].at # "answered"
                  /\ request'[q].of = request[q].of /\ request'[q].revision = request[q].revision
                  /\ request'[q].version = request[q].version /\ request'[q].seen = request[q].seen
    <3>1. CASE request[q].at = "answered"
      BY <1>7, <3>1 DEF Close, Over, Asked
    <3>2. CASE request[q].at # "answered"
      <4>1. request'[q] = [request[q] EXCEPT !.shown = FALSE]
        BY <1>7, <3>2 DEF Close
      <4> QED
        BY <3>2, <4>1 DEF TypeInv, TypeOK, RequestState
    <3> QED
      BY <3>1, <3>2
  <2>5. RequestInv'
    BY <2>4 DEF TypeInv, RequestInv
  <2> QED
    BY <1>7, <2>3, <2>5, PageTypes, DataAlone DEF Close
<1>8. ASSUME GetAnswered PROVE TypeInv'
  <2>1. request' \in [Requests -> RequestState] /\ RequestInv'
    <3>1. CASE request' = request
      BY <3>1 DEF TypeInv, TypeOK, RequestInv
    <3>2. CASE request' # request
      <4>1. PICK q \in Requests : Send(q, Reader, Target, TRUE)
        BY <1>8, <3>2 DEF GetAnswered
      <4>2. Target \in 1 .. MaxRevision
        BY <1>8 DEF GetAnswered, TypeInv, TypeOK, PageState
      <4> QED
        BY <4>1, <4>2, SendTypes, ReaderAssumption
    <3> QED
      BY <3>1, <3>2
  <2> QED
    BY <1>8, <2>1, PageTypes, DataAlone DEF GetAnswered
<1>9. ASSUME Retry PROVE TypeInv'
  <2>1. request' \in [Requests -> RequestState] /\ RequestInv'
    BY <1>9, TargetType, SendTypes, ReaderAssumption DEF Retry
  <2> QED
    BY <1>9, <2>1, PageTypes, DataAlone DEF Retry
<1>10. ASSUME OtherTab PROVE TypeInv'
  <2>1. request' \in [Requests -> RequestState] /\ RequestInv'
    BY <1>10, RevisionNumbers, SendTypes, ReaderAssumption DEF OtherTab, TypeInv, DataInv
  <2> QED
    BY <1>10, <2>1, DataAlone DEF OtherTab, TypeInv, TypeOK
<1>11. CASE UNCHANGED vars
  BY <1>11, DataAlone DEF vars, TypeInv, TypeOK, RequestInv
<1> QED
  BY <1>1, <1>2, <1>3, <1>4, <1>5, <1>6, <1>7, <1>8, <1>9, <1>10, <1>11 DEF Next

\* TypeOK holds in every reachable state: the rows, the runs and the sweep stay
\* what CandidateData says they are, whatever the page and the requests do.
THEOREM TypeCorrect == Spec => []TypeOK
<1>1. TypeInv => TypeOK
  BY DEF TypeInv
<1> QED
  BY <1>1, SystemTypeInit, TypeStep, PTL DEF Spec

-----------------------------------------------------------------------------
(* The purge and the page *)

\* What a request or the page does to a candidate's data: nothing, but for the
\* explanation a request saves.
LEMMA OthersWrite ==
  ASSUME TypeInv, [Next]_vars
  PROVE  \/ [DataNext]_dataVars
         \/ \E q \in Requests : Save(q) /\ page' = page
  BY DEF Next, vars, dataAndRequests, Ask, SaveFails, PostAnswered, Open, Close, Poll, PollStops, Refresh,
         GetDropped, GetAnswered, Retry, OtherTab

\* PurgedForGood: once a candidate is purged no session and no row a resume
\* could be read from is left, whoever writes during and after the purge.
THEOREM NothingReadableAfterPurge == Spec => []PurgedForGood
<1>1. SiteInit => PurgedForGood
  BY DEF SiteInit, Init, PurgedForGood
<1>2. TypeInv /\ PurgedForGood /\ [Next]_vars => PurgedForGood'
  <2> SUFFICES ASSUME TypeInv, PurgedForGood, [Next]_vars PROVE PurgedForGood'
    OBVIOUS
  <2>1. CASE [DataNext]_dataVars
    BY <2>1, PurgeStep DEF TypeInv
  <2>2. ASSUME NEW q \in Requests, Save(q) PROVE PurgedForGood'
    <3>1. PICK s \in {"ready", "unavailable"} :
            rows' \subseteq rows \union {Row("explanations", request[q].of,
                                             <<request[q].revision, request[q].version, s>>)}
      BY <2>2, SaveRows
    <3>2. UNCHANGED <<candidate, sessions>>
      BY <2>2 DEF Save
    <3> QED
      BY <3>1, <3>2 DEF PurgedForGood, RowsOf, Row, Unguarded
  <2> QED
    BY <2>1, <2>2, OthersWrite
<1> QED
  BY <1>1, <1>2, SystemTypeInit, TypeStep, PTL DEF Spec

\* StrayFilesBeganInTime: the bytes of a purged candidate are gone, except of an
\* upload that was let in before expiry and committed behind the sweep's list,
\* or whose own clean-up did not happen.
THEOREM StrayFilesSound == Spec => []StrayFilesBeganInTime
<1>1. SiteInit => BytesInv
  BY BytesInit DEF SiteInit
<1>2. TypeInv /\ BytesInv /\ [Next]_vars => BytesInv'
  <2> SUFFICES ASSUME TypeInv, BytesInv, [Next]_vars PROVE BytesInv'
    OBVIOUS
  <2>1. CASE [DataNext]_dataVars
    BY <2>1, BytesStep DEF TypeInv
  <2>2. ASSUME NEW q \in Requests, Save(q) PROVE BytesInv'
    <3>1. \A r \in rows : r.table # "explanations" => r \in rows'
      BY <2>2, SaveRows
    <3>2. UNCHANGED <<candidate, files, upload, sweep>>
      BY <2>2 DEF Save
    <3>3. \A u \in Uploads : Row("resume_uploads", Owner[u], <<u>>) \in rows =>
                              Row("resume_uploads", Owner[u], <<u>>) \in rows'
      BY <3>1 DEF Row
    <3> QED
      BY <3>2, <3>3 DEF BytesInv, FilesInv, StrayFilesBeganInTime
  <2> QED
    BY <2>1, <2>2, OthersWrite
<1>3. BytesInv => StrayFilesBeganInTime
  BY DEF BytesInv
<1> QED
  BY <1>1, <1>2, <1>3, SystemTypeInit, TypeStep, PTL DEF Spec

-----------------------------------------------------------------------------
(* The cache *)

\* A candidate's revision numbers are used once; what is cached was written for
\* a published revision, from the profile version it ranks; and so is what a
\* request is still waiting for.
NumbersOnce(c) ==
  \A e, f \in Keys("recommendation_revisions", c) : e[1] = f[1] => e = f
IsRanked(c, n, v) ==
  \E e \in Keys("recommendation_revisions", c) : e[1] = n /\ e[2] = v
CacheInv ==
  \A c \in Candidates : candidate[c] # "gone" =>
    /\ NumbersOnce(c)
    /\ \A k \in Keys("explanations", c) : IsRanked(c, k[1], k[2])
    /\ \A q \in Requests : request[q].at = "generating" /\ request[q].of = c =>
         IsRanked(c, request[q].revision, request[q].version)

\* While a candidate is not purged, its revisions stay and numbers are new.
LEMMA RevisionsStay ==
  ASSUME TypeInv, [DataNext]_dataVars, NEW c \in Candidates, candidate'[c] # "gone"
  PROVE  /\ candidate[c] # "gone"
         /\ NumbersOnce(c) => NumbersOnce(c)'
         /\ Keys("recommendation_revisions", c) \subseteq Keys("recommendation_revisions", c)'
         /\ Keys("explanations", c)' \subseteq Keys("explanations", c)
<1>1. candidate[c] # "gone" /\ \A r \in rows : r.of = c => r \in rows'
  <2>1. SweepCommit => sweep.of \in Candidates /\ candidate'[sweep.of] = "gone"
    BY DEF SweepCommit, TypeInv, DataInv, SweepInv, DataTypeOK
  <2> QED
    BY <2>1, DataRowsStay DEF TypeInv
<1>2. Keys("recommendation_revisions", c) \subseteq Keys("recommendation_revisions", c)'
  BY <1>1 DEF Keys
<1>3. Keys("explanations", c)' \subseteq Keys("explanations", c)
  BY DataRowsNew DEF Keys, TypeInv
<1>4. ASSUME NumbersOnce(c) PROVE NumbersOnce(c)'
  <2>1. ASSUME NEW r \in rows' \ rows, r.table = "recommendation_revisions", r.of = c
        PROVE  /\ \A e \in Keys("recommendation_revisions", c) : e[1] \in Nat /\ e[1] < r.key[1]
               /\ Keys("recommendation_revisions", c)' \subseteq
                     Keys("recommendation_revisions", c) \union {r.key}
    <3>1. (\A n \in Revisions(c) : n < r.key[1]) /\ rows' \ rows = {r}
      BY <2>1, DataRowsNew DEF TypeInv
    <3>2. \A e \in Keys("recommendation_revisions", c) : e[1] \in Revisions(c)
      BY DEF Revisions
    <3>3. Revisions(c) \subseteq Nat
      BY RevisionNumbers DEF TypeInv, TypeOK
    <3> QED
      BY <3>1, <3>2, <3>3 DEF Keys
  <2>2. CASE \A r \in rows' \ rows : ~(r.table = "recommendation_revisions" /\ r.of = c)
    <3>1. Keys("recommendation_revisions", c)' \subseteq Keys("recommendation_revisions", c)
      BY <2>2 DEF Keys
    <3> QED
      BY <1>4, <3>1 DEF NumbersOnce
  <2> QED
    BY <1>4, <2>1, <2>2 DEF NumbersOnce
<1> QED
  BY <1>1, <1>2, <1>3, <1>4

\* Only Ask makes a request wait for the model.
LEMMA NoneGenerating ==
  ASSUME TypeInv, [Next]_vars, NEW q \in Requests, ~Ask(q), request'[q].at = "generating"
  PROVE  /\ request[q].at = "generating" /\ request'[q].of = request[q].of
         /\ request'[q].revision = request[q].revision /\ request'[q].version = request[q].version
<1> USE DEF TypeInv, TypeOK
<1>1. CASE request' = request
  BY <1>1
<1>2. ASSUME NEW p \in Requests, p # q, NEW r, request' = [request EXCEPT ![p] = r]
      PROVE  request'[q] = request[q]
  BY <1>2
<1>3. ASSUME NEW c, NEW n, NEW b, Send(q, c, n, b) PROVE FALSE
  BY <1>3 DEF Send, Asked
<1>4. ASSUME NEW a \in {"ready", "unavailable", "error"}, request' = [request EXCEPT ![q] = Answered(q, a)]
      PROVE FALSE
  BY <1>4, AnsweredTypes
<1>5. CASE PostAnswered(q)
  BY <1>5 DEF PostAnswered, Over, Asked
<1>6. CASE Close
  <2>1. CASE request[q].at = "answered"
    BY <1>6, <2>1 DEF Close, Over, Asked
  <2>2. CASE request[q].at # "answered"
    <3>1. request'[q] = [request[q] EXCEPT !.shown = FALSE]
      BY <1>6, <2>2 DEF Close
    <3> QED
      BY <3>1 DEF RequestState
  <2> QED
    BY <2>1, <2>2
<1>7. CASE Save(q)
  BY <1>4, <1>7, SaveRows
<1>8. CASE SaveFails(q)
  BY <1>4, <1>8 DEF SaveFails
<1>9. ASSUME NEW p \in Requests, p # q, Ask(p) \/ Save(p) \/ SaveFails(p) \/ PostAnswered(p)
      PROVE  request'[q] = request[q]
  BY <1>9 DEF Ask, Save, SaveFails, PostAnswered
<1>10. ASSUME NEW p \in Requests, NEW c, NEW n, NEW b, Send(p, c, n, b) PROVE request'[q] = request[q]
  BY <1>3, <1>10 DEF Send
<1> QED
  BY <1>1, <1>5, <1>6, <1>7, <1>8, <1>9, <1>10
     DEF Next, vars, dataAndRequests, Open, Poll, PollStops, Refresh, GetDropped, GetAnswered, Retry, OtherTab

LEMMA CacheStep == TypeInv /\ CacheInv /\ [Next]_vars => CacheInv'
<1> SUFFICES ASSUME TypeInv, CacheInv, [Next]_vars,
                    NEW c \in Candidates, candidate'[c] # "gone"
             PROVE  /\ NumbersOnce(c)'
                    /\ \A k \in Keys("explanations", c)' : IsRanked(c, k[1], k[2])'
                    /\ \A q \in Requests : request'[q].at = "generating" /\ request'[q].of = c =>
                         IsRanked(c, request[q].revision, request[q].version)'
  BY DEF CacheInv
<1>1. /\ candidate[c] # "gone"
      /\ NumbersOnce(c)'
      /\ Keys("recommendation_revisions", c) \subseteq Keys("recommendation_revisions", c)'
  <2>1. CASE [DataNext]_dataVars
    BY <2>1, RevisionsStay DEF CacheInv
  <2>2. ASSUME NEW q \in Requests, Save(q)
        PROVE  /\ candidate' = candidate
               /\ Keys("recommendation_revisions", c) = Keys("recommendation_revisions", c)'
    <3>1. candidate' = candidate
      BY <2>2 DEF Save
    <3>2. \A r : r.table = "recommendation_revisions" => (r \in rows <=> r \in rows')
      <4>1. PICK x : x.table = "explanations" /\
              rows' = {r \in rows : ~(/\ r.table = "explanations" /\ r.of = request[q].of
                                      /\ r.key[1] = request[q].revision)} \union {x}
        BY <2>2, SaveRows DEF Row
      <4> QED
        BY <4>1
    <3> QED
      BY <3>1, <3>2 DEF Keys
  <2> QED
    BY <2>1, <2>2, OthersWrite DEF CacheInv, NumbersOnce
<1>2. \A n, v : IsRanked(c, n, v) => IsRanked(c, n, v)'
  BY <1>1 DEF IsRanked
<1>3. \A k \in Keys("explanations", c)' : IsRanked(c, k[1], k[2])
  <2>1. CASE [DataNext]_dataVars
    BY <1>1, <2>1, RevisionsStay DEF CacheInv
  <2>2. ASSUME NEW q \in Requests, Save(q), NEW k \in Keys("explanations", c)'
        PROVE  IsRanked(c, k[1], k[2])
    <3>1. PICK s \in {"ready", "unavailable"} :
            rows' \subseteq rows \union {Row("explanations", request[q].of,
                                             <<request[q].revision, request[q].version, s>>)}
      BY <2>2, SaveRows
    <3>2. PICK r \in rows' : r.table = "explanations" /\ r.of = c /\ r.key = k
      BY <2>2 DEF Keys
    <3>3. CASE r \in rows
      BY <1>1, <3>2, <3>3 DEF Keys, CacheInv
    <3>4. CASE r \notin rows
      <4>1. request[q].of = c /\ k = <<request[q].revision, request[q].version, s>>
        BY <3>1, <3>2, <3>4 DEF Row
      <4> QED
        BY <1>1, <2>2, <4>1 DEF CacheInv, Save
    <3> QED
      BY <3>3, <3>4
  <2> QED
    BY <2>1, <2>2, OthersWrite
<1>4. ASSUME NEW q \in Requests, request'[q].at = "generating", request'[q].of = c
      PROVE  IsRanked(c, request'[q].revision, request'[q].version)
  <2>1. CASE ~Ask(q)
    BY <1>1, <1>4, <2>1, NoneGenerating DEF CacheInv
  <2>2. CASE Ask(q)
    <3> DEFINE n == request[q].revision
    <3>1. \A a \in {"ready", "error"} : request' # [request EXCEPT ![q] = Answered(q, a)]
      BY <1>4, AnsweredTypes DEF TypeInv, TypeOK
    <3>2. PICK e \in Entry(request[q].of, n) :
            /\ e[2] \in 1 .. MaxProfile
            /\ request' = [request EXCEPT ![q] = Generating(request[q], e[2], StateOf(request[q].of, n))]
      BY <2>2, <3>1, CachedTypes DEF Ask, RankedWith
    <3>3. /\ request'[q].of = request[q].of /\ request'[q].revision = n
          /\ request'[q].version = e[2]
      <4>1. e[2] \in 0 .. MaxProfile
        BY <3>2, BoundsAssumption
      <4> DEFINE r == Generating(request[q], e[2], StateOf(request[q].of, n))
      <4>2. request[q] \in RequestState /\ StateOf(request[q].of, n) \in {"none", "ready", "unavailable"}
        BY CachedTypes DEF TypeInv, TypeOK
      <4>3. r.of = request[q].of /\ r.revision = n /\ r.version = e[2]
        BY <4>1, <4>2, GeneratingType
      <4> HIDE DEF r
      <4> QED
        BY <3>2, <4>3 DEF r, TypeInv, TypeOK
    <3> QED
      BY <1>4, <3>2, <3>3 DEF Entry, IsRanked
  <2> QED
    BY <2>1, <2>2
<1> QED
  BY <1>1, <1>2, <1>3, <1>4

\* CachedBesideItsRanking: an explanation in the cache was written from the
\* profile version that its revision ranks.
THEOREM CacheSound == Spec => []CachedBesideItsRanking
<1>1. SiteInit => CacheInv
  BY DEF SiteInit, Init, CacheInv, NumbersOnce, Keys, NoRequest, Asked
<1>2. CacheInv => CachedBesideItsRanking
  BY DEF CacheInv, CachedBesideItsRanking, NumbersOnce, IsRanked, Entry, Here
<1> QED
  BY <1>1, <1>2, SystemTypeInit, TypeStep, CacheStep, PTL DEF Spec

-----------------------------------------------------------------------------
(* Steps *)

\* A request starts to wait for the model in one way only.
LEMMA AskedAboutSomebody ==
  ASSUME TypeInv, NEW q \in Requests, Ask(q), request'[q].at = "generating"
  PROVE  /\ Resolves(request[q].of) /\ request'[q].of = request[q].of
<1> DEFINE c == request[q].of
           n == request[q].revision
<1>1. \A a \in {"ready", "error"} : request' # [request EXCEPT ![q] = Answered(q, a)]
  BY AnsweredTypes DEF TypeInv, TypeOK
<1>2. PICK e \in Entry(c, n) :
        /\ e[2] \in 1 .. MaxProfile /\ Resolves(c)
        /\ request' = [request EXCEPT ![q] = Generating(request[q], e[2], StateOf(c, n))]
  BY <1>1, CachedTypes DEF Ask, RankedWith
<1> DEFINE r == Generating(request[q], e[2], StateOf(c, n))
<1>3. e[2] \in 0 .. MaxProfile /\ request[q] \in RequestState /\ StateOf(c, n) \in {"none", "ready", "unavailable"}
  BY <1>2, CachedTypes, BoundsAssumption DEF TypeInv, TypeOK
<1>4. r.of = c
  BY <1>3, GeneratingType
<1> HIDE DEF r
<1> QED
  BY <1>2, <1>4 DEF r, TypeInv, TypeOK

\* NothingStartsAfterExpiry: whatever touches the data of a candidate that has
\* expired had begun before.
THEOREM ExpiryStopsNewWork == Spec => NothingStartsAfterExpiry
<1>1. ASSUME TypeInv, [Next]_vars, NEW c \in expired
      PROVE  Busy(c)' \subseteq Busy(c)
  <2>1. ASSUME NEW q \in Requests, request'[q].of = c, request'[q].at = "generating"
        PROVE  request[q].of = c /\ request[q].at = "generating"
    <3>1. CASE Ask(q)
      BY <1>1, <2>1, <3>1, AskedAboutSomebody DEF Resolves
    <3>2. CASE ~Ask(q)
      BY <1>1, <2>1, <3>2, NoneGenerating
    <3> QED
      BY <3>1, <3>2
  <2>2. /\ \A u \in Uploads : Owner[u] = c =>
             ((upload[u].at \in {"resolved", "stored"} \/ analysis[u] \in {"queued", "read", "saved"})' =>
              (upload[u].at \in {"resolved", "stored"} \/ analysis[u] \in {"queued", "read", "saved"}))
        /\ c \in run'.fresh => c \in run.fresh
    <3>1. CASE [DataNext]_dataVars
      BY <1>1, <3>1, WorkStep DEF TypeInv
    <3>2. CASE UNCHANGED <<upload, analysis, run>>
      BY <3>2
    <3> QED
      BY <1>1, <3>1, <3>2, OthersWrite DEF Save
  <2> QED
    BY <2>1, <2>2 DEF Busy
<1>2. TypeInv /\ [Next]_vars => [\A c \in expired : Busy(c)' \subseteq Busy(c)]_vars
  BY <1>1
<1> QED
  BY <1>2, SystemTypeInit, TypeStep, PTL DEF Spec, NothingStartsAfterExpiry

\* ReadyLostOnlyToOverlap: a ready explanation leaves the cache of a candidate
\* who is there only when a request that had looked before it was ready saves.
THEOREM ReadyLostSound == Spec => ReadyLostOnlyToOverlap
<1>1. ASSUME TypeInv, [Next]_vars, NEW c \in Candidates, Here(c), candidate'[c] = "here",
             NEW k \in Keys("explanations", c), k[3] = "ready", k \notin Keys("explanations", c)'
      PROVE  \E q \in Requests : /\ request[q].of = c /\ request[q].revision = k[1]
                                 /\ request[q].at = "generating" /\ request[q].seen # "ready"
  <2>1. PICK r \in rows : r.table = "explanations" /\ r.of = c /\ r.key = k
    BY DEF Keys
  <2>2. r \notin rows'
    BY <1>1, <2>1 DEF Keys
  <2>3. CASE [DataNext]_dataVars
    <3>1. SweepCommit /\ r.of = sweep.of
      BY <1>1, <2>2, <2>3, DataRowsStay DEF TypeInv
    <3> QED
      BY <1>1, <2>1, <3>1 DEF SweepCommit, TypeInv, DataInv, DataTypeOK
  <2>4. ASSUME NEW q \in Requests, Save(q)
        PROVE  /\ request[q].of = c /\ request[q].revision = k[1]
               /\ request[q].at = "generating" /\ request[q].seen # "ready"
    <3>1. request[q].at = "generating" /\ request[q].seen # "ready"
      BY <1>1, <2>4 DEF Save, TypeInv, RequestInv
    <3>2. r.of = request[q].of /\ r.key[1] = request[q].revision
      BY <1>1, <2>2, <2>4, SaveRows
    <3> QED
      BY <2>1, <3>1, <3>2
  <2> QED
    BY <1>1, <2>3, <2>4, OthersWrite
<1>2. TypeInv /\ [Next]_vars =>
        [\A c \in Candidates : Here(c) /\ candidate'[c] = "here" =>
           \A k \in Keys("explanations", c) :
             k[3] = "ready" /\ k \notin Keys("explanations", c)' =>
               \E q \in Requests : /\ request[q].of = c /\ request[q].revision = k[1]
                                   /\ request[q].at = "generating" /\ request[q].seen # "ready"]_vars
  BY <1>1
<1> QED
  BY <1>2, SystemTypeInit, TypeStep, PTL DEF Spec, ReadyLostOnlyToOverlap

-----------------------------------------------------------------------------
(* The page *)

\* A closed page has asked for nothing, nor has one without a ranking; one opened by
\* a link asks, waits for and shows nothing but the text of the link's revision, and
\* its ranking is not older.
PageInv ==
  /\ ~page.open => page = Closed /\ InFlight = {}
  /\ ~Mounted => page.gets = {} /\ page.prose = NoProse /\ InFlight = {}
  /\ Mounted => page.link <= page.data
  /\ page.link # 0 =>
       /\ page.gets \subseteq {page.link}
       /\ page.prose # NoProse => page.prose.revision = page.link
       /\ \A q \in InFlight : request[q].revision = page.link
  /\ PendingIsBeingWritten
  /\ ProseBesideItsRanking

\* What the service does to a request leaves it with the page that sent it.
LEMMA FlightKept ==
  ASSUME TypeInv, NEW q \in Requests, Ask(q) \/ Save(q) \/ SaveFails(q)
  PROVE  InFlight' = InFlight /\ \A p \in InFlight : request'[p].revision = request[p].revision
<1> USE DEF TypeInv, TypeOK
<1>1. request[q].at \in {"sent", "generating"} /\ request[q] \in RequestState
  BY DEF Ask, Save, SaveFails
<1>2. PICK r : /\ request' = [request EXCEPT ![q] = r]
               /\ r.shown = request[q].shown
               /\ r.shown => r.at \in {"answered", "generating"} /\ r.revision = request[q].revision
  <2>1. ASSUME NEW a \in {"ready", "unavailable", "error"}
        PROVE  /\ Answered(q, a).shown = request[q].shown
               /\ Answered(q, a).shown =>
                    Answered(q, a).at \in {"answered", "generating"} /\ Answered(q, a).revision = request[q].revision
    <3>1. CASE request[q].shown = TRUE
      BY <3>1 DEF Answered, Asked
    <3>2. CASE request[q].shown = FALSE
      BY <3>2 DEF Answered, Asked, Over
    <3> QED
      BY <1>1, <3>1, <3>2 DEF RequestState
  <2>2. ASSUME NEW v \in 1 .. MaxProfile, NEW s \in {"none", "ready", "unavailable"}
        PROVE  /\ Generating(request[q], v, s).shown = request[q].shown
               /\ Generating(request[q], v, s).at = "generating"
               /\ Generating(request[q], v, s).revision = request[q].revision
    <3>1. v \in 0 .. MaxProfile
      BY BoundsAssumption
    <3> QED
      BY <1>1, <3>1, GeneratingType
  <2>3. \/ \E a \in {"ready", "unavailable", "error"} : request' = [request EXCEPT ![q] = Answered(q, a)]
        \/ \E v \in 1 .. MaxProfile, s \in {"none", "ready", "unavailable"} :
             request' = [request EXCEPT ![q] = Generating(request[q], v, s)]
    <3>1. CASE Ask(q)
      BY <3>1, CachedTypes DEF Ask, RankedWith
    <3>2. CASE Save(q)
      BY <3>2, SaveRows
    <3>3. CASE SaveFails(q)
      BY <3>3 DEF SaveFails
    <3> QED
      BY <3>1, <3>2, <3>3
  <2> QED
    BY <2>1, <2>2, <2>3
<1> QED
  BY <1>1, <1>2 DEF InFlight

\* A request of the page is under way once it is sent; one of another tab is not.
LEMMA FlightSent ==
  ASSUME TypeInv, NEW q \in Requests, NEW c, NEW n, NEW b \in BOOLEAN, Send(q, c, n, b)
  PROVE  /\ InFlight' = IF b THEN InFlight \union {q} ELSE InFlight
         /\ request'[q].revision = n
         /\ \A p \in InFlight : request'[p].revision = request[p].revision
<1>1. request' = [request EXCEPT ![q] = Asked("sent", c, n, "none", b)] /\ request[q].at = "idle"
  BY DEF Send
<1>2. Asked("sent", c, n, "none", b).at = "sent" /\ Asked("sent", c, n, "none", b).revision = n
      /\ Asked("sent", c, n, "none", b).shown = b
  BY DEF Asked
<1> QED
  BY <1>1, <1>2 DEF InFlight, TypeInv, TypeOK

LEMMA PageStep == TypeInv /\ PageInv /\ [Next]_vars => PageInv'
<1> SUFFICES ASSUME TypeInv, PageInv, [Next]_vars PROVE PageInv'
  OBVIOUS
<1> USE DEF PageInv, PendingIsBeingWritten, ProseBesideItsRanking, Target, Mounted
<1>0. page \in PageState /\ page.prose \in Prose
  BY DEF TypeInv, TypeOK, PageState
<1>1. CASE UNCHANGED <<request, page>>
  BY <1>1 DEF InFlight
<1>2. ASSUME NEW q \in Requests, Ask(q) \/ Save(q) \/ SaveFails(q), page' = page PROVE PageInv'
  BY <1>2, FlightKept
<1>3. ASSUME NEW q \in Requests, PostAnswered(q) PROVE PageInv'
  <2>1. q \in InFlight /\ InFlight' = InFlight \ {q} /\ \A p \in InFlight' : request'[p] = request[p]
    BY <1>3 DEF PostAnswered, InFlight, Over, Asked, TypeInv, TypeOK, RequestInv
  <2>2. CASE page' = [page EXCEPT !.error = TRUE]
    BY <1>0, <2>1, <2>2 DEF PageState
  <2>3. CASE page' = WithProse(q) /\ request[q].answer # "error"
    <3>0. [revision |-> request[q].revision, state |-> request[q].answer] \in Prose
      BY <2>3 DEF Prose, TypeInv, TypeOK, RequestState
    <3>1. PICK b \in BOOLEAN, p \in Prose :
            /\ page' = [page EXCEPT !.prose = p, !.overtaken = b]
            /\ p = [revision |-> request[q].revision, state |-> request[q].answer]
            /\ b = (request[q].revision # Target)
      BY <2>3, <3>0, Zenon DEF WithProse
    <3>2. request[q].answer # "pending"
      BY DEF TypeInv, TypeOK, RequestState
    <3> QED
      BY <1>0, <2>1, <3>1, <3>2 DEF PageState
  <2> QED
    BY <1>3, <2>2, <2>3 DEF PostAnswered, AfterPost
<1>4. ASSUME Open PROVE PageInv'
  <2>1. PICK n : page' = [Closed EXCEPT !.open = TRUE, !.polling = TRUE, !.link = n]
    BY <1>4, Zenon DEF Open
  <2>2. page'.gets = {} /\ page'.prose = NoProse /\ page'.open /\ page'.data = 0
    BY <2>1 DEF Closed
  <2>3. InFlight' = {}
    BY <1>4 DEF Open, dataAndRequests, InFlight
  <2> QED
    BY <2>2, <2>3 DEF NoProse
<1>5. ASSUME Close PROVE PageInv'
  <2>1. \A q \in Requests : request'[q].shown = FALSE
    <3> SUFFICES ASSUME NEW q \in Requests PROVE request'[q].shown = FALSE
      OBVIOUS
    <3>1. CASE request[q].at = "answered"
      BY <1>5, <3>1 DEF Close, Over, Asked
    <3>2. CASE request[q].at # "answered"
      <4>1. request'[q] = [request[q] EXCEPT !.shown = FALSE]
        BY <1>5, <3>2 DEF Close
      <4> QED
        BY <4>1 DEF TypeInv, TypeOK, RequestState
    <3> QED
      BY <3>1, <3>2
  <2>2. InFlight' = {} /\ page' = Closed
    BY <1>5, <2>1 DEF Close, InFlight
  <2> QED
    BY <2>2 DEF Closed, NoProse
<1>6. ASSUME Poll PROVE PageInv'
  <2>1. PICK n \in Newest :
          LET target == IF page.link # 0 THEN page.link ELSE n IN
          page' = [page EXCEPT !.data = n,
                     !.gets = IF Mounted /\ target = Target THEN @ ELSE @ \union {target}]
    BY <1>6 DEF Poll
  <2> DEFINE target == IF page.link # 0 THEN page.link ELSE n
             g == IF Mounted /\ target = Target THEN page.gets ELSE page.gets \union {target}
  <2>2. page' = [page EXCEPT !.data = n, !.gets = g]
    BY <2>1, Zenon
  <2>3. /\ page'.open = page.open /\ page'.link = page.link /\ page'.prose = page.prose
        /\ page'.error = page.error /\ page'.overtaken = page.overtaken
        /\ page'.data = n /\ page'.gets = g
    <3> HIDE DEF g
    <3> QED
      BY <1>0, <2>2 DEF PageState
  <2>4. InFlight' = InFlight /\ request' = request /\ page.open
    BY <1>6 DEF Poll, dataAndRequests, InFlight
  <2>5. page.link # 0 => g \subseteq {page.link}
    OBVIOUS
  <2>6. page.link = 0 => (n = page.data \/ n \in g) /\ page.gets \subseteq g
    OBVIOUS
  <2>7. n \in 1 .. MaxRevision /\ page.link \in 0 .. MaxRevision /\ page.link <= n
    BY <1>0, <2>1, RevisionNumbers DEF Newest, PageState, TypeInv, TypeOK
  <2> HIDE DEF g
  <2> QED
    BY <2>3, <2>4, <2>5, <2>6, <2>7
<1>7. ASSUME PollStops \/ Refresh PROVE PageInv'
  <2>1. InFlight' = InFlight /\ request' = request /\ page.open
    BY <1>7 DEF PollStops, Refresh, dataAndRequests, InFlight
  <2> QED
    BY <1>0, <1>7, <2>1 DEF PollStops, Refresh, PageState
<1>8. ASSUME GetDropped PROVE PageInv'
  <2>1. PICK n \in page.gets \ {Target} : page' = [page EXCEPT !.gets = @ \ {n}]
    BY <1>8 DEF GetDropped
  <2>2. InFlight' = InFlight /\ request' = request
    BY <1>8 DEF GetDropped, dataAndRequests, InFlight
  <2>3. page.open
    BY DEF Closed
  <2> QED
    BY <1>0, <2>1, <2>2, <2>3 DEF PageState
<1>9. ASSUME GetAnswered PROVE PageInv'
  <2>1. page.open /\ Target \in page.gets
    BY <1>9 DEF GetAnswered, Closed
  <2>2. CASE /\ page' = [page EXCEPT !.gets = @ \ {Target}, !.error = TRUE]
             /\ request' = request
    BY <1>0, <2>1, <2>2 DEF PageState, InFlight
  <2>3. ASSUME NEW s \in {"ready", "unavailable"}, request' = request,
               page' = [page EXCEPT !.gets = @ \ {Target}, !.prose = [revision |-> Target, state |-> s],
                                    !.overtaken = FALSE]
        PROVE PageInv'
    BY <1>0, <2>1, <2>3 DEF PageState, InFlight
  <2>4. ASSUME NEW q \in Requests, Send(q, Reader, Target, TRUE),
               page' = [page EXCEPT !.gets = @ \ {Target}, !.prose = [revision |-> Target, state |-> "pending"],
                                    !.overtaken = FALSE, !.error = FALSE]
        PROVE PageInv'
    <3>1. InFlight' = InFlight \union {q} /\ request'[q].revision = Target
          /\ \A p \in InFlight : request'[p].revision = request[p].revision
      BY <2>4, FlightSent
    <3> QED
      BY <1>0, <2>1, <2>4, <3>1 DEF PageState
  <2> QED
    BY ZenonT(40), <1>9, <2>2, <2>3, <2>4 DEF GetAnswered
<1>10. ASSUME Retry PROVE PageInv'
  <2>1. PICK q \in Requests : Send(q, Reader, Target, TRUE)
    BY <1>10 DEF Retry
  <2>2. InFlight' = InFlight \union {q} /\ request'[q].revision = Target
        /\ \A p \in InFlight : request'[p].revision = request[p].revision
    BY <2>1, FlightSent
  <2>3. page.open /\ Mounted /\ page.prose = NoProse /\ page' = [page EXCEPT !.error = FALSE]
    BY <1>10 DEF Retry, Mounted, Closed
  <2>4. /\ page'.open = page.open /\ page'.link = page.link /\ page'.data = page.data
        /\ page'.prose = page.prose /\ page'.gets = page.gets
    BY <1>0, <2>3 DEF PageState
  <2> QED
    BY <2>2, <2>3, <2>4 DEF NoProse
<1>11. ASSUME OtherTab PROVE PageInv'
  BY <1>11, FlightSent DEF OtherTab
<1> QED
  BY <1>1, <1>2, <1>3, <1>4, <1>5, <1>6, <1>7, <1>8, <1>9, <1>10, <1>11 DEF Next, vars

LEMMA PageInit == SiteInit => PageInv
  BY DEF SiteInit, PageInv, InFlight, Closed, NoProse, NoRequest, Asked, PendingIsBeingWritten, ProseBesideItsRanking

\* PendingIsBeingWritten: when the panel says that the text is being generated,
\* a request of this page for that revision is unanswered, or one has failed.
THEOREM PendingSound == Spec => []PendingIsBeingWritten
<1>1. PageInv => PendingIsBeingWritten
  BY DEF PageInv
<1> QED
  BY <1>1, PageInit, PageStep, SystemTypeInit, TypeStep, PTL DEF Spec

\* ProseBesideItsRanking: the text shown is of the ranking on the page, except on a
\* page opened by a link once a newer ranking is out, and elsewhere where the answer
\* for the newer one is still to come, failed, or was overtaken.
THEOREM ProseSound == Spec => []ProseBesideItsRanking
<1>1. PageInv => ProseBesideItsRanking
  BY DEF PageInv
<1> QED
  BY <1>1, PageInit, PageStep, SystemTypeInit, TypeStep, PTL DEF Spec

=============================================================================
