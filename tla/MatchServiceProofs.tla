-------------------------- MODULE MatchServiceProofs --------------------------
(* Proofs about MatchService, for any number of candidates, jobs, versions and *)
(* crashes.                                                                    *)
EXTENDS MatchService, FiniteSetTheorems, TLAPS

-----------------------------------------------------------------------------
(* The least and the greatest candidate of a batch *)

HasExtremes(S) ==
  (\E x \in S : \A y \in S : x <= y) /\ (\E x \in S : \A y \in S : x >= y)

LEMMA Extremes ==
  ASSUME NEW S, IsFiniteSet(S), S # {}, S \subseteq Int
  PROVE  HasExtremes(S)
<1> DEFINE Bad == {A \in FiniteSubsetsOf(S) : A # {} /\ ~HasExtremes(A)}
<1>1. SUFFICES ASSUME Bad # {} PROVE FALSE
  <2>1. S \in FiniteSubsetsOf(S)
    BY DEF FiniteSubsetsOf
  <2> QED
    BY <1>1, <2>1
<1>2. PICK A \in Bad : \A B \in Bad : ~(<<B, A>> \in StrictSubsetOrdering(S))
  <2>1. IsWellFoundedOn(StrictSubsetOrdering(S), FiniteSubsetsOf(S))
    BY FS_StrictSubsetOrderingWellFounded
  <2>2. Bad \subseteq FiniteSubsetsOf(S)
    OBVIOUS
  <2> HIDE DEF Bad
  <2> QED
    BY <1>1, <2>1, <2>2, WFMin
<1>3. A \subseteq S /\ IsFiniteSet(A) /\ A # {} /\ ~HasExtremes(A)
  BY DEF FiniteSubsetsOf
<1>4. PICK a \in A : TRUE
  BY <1>3
<1>5. A \ {a} # {}
  <2>1. SUFFICES ASSUME A \ {a} = {} PROVE FALSE
    OBVIOUS
  <2>2. A = {a} /\ a \in Int
    BY <1>3, <1>4, <2>1
  <2> QED
    BY <1>3, <2>2 DEF HasExtremes
<1>6. A \ {a} \in FiniteSubsetsOf(S)
  BY <1>3, FS_RemoveElement DEF FiniteSubsetsOf
<1>7. <<A \ {a}, A>> \in StrictSubsetOrdering(S)
  BY <1>3, <1>4 DEF StrictSubsetOrdering
<1>8. HasExtremes(A \ {a})
  BY <1>2, <1>5, <1>6, <1>7
<1>9. PICK lo \in A \ {a}, hi \in A \ {a} : \A y \in A \ {a} : lo <= y /\ hi >= y
  BY <1>8 DEF HasExtremes
<1>10. a \in Int /\ lo \in Int /\ hi \in Int /\ A \subseteq Int
  BY <1>3, <1>4
<1>11. \E x \in A : \A y \in A : x <= y
  <2>1. CASE a <= lo
    BY <1>4, <1>9, <1>10, <2>1
  <2>2. CASE ~(a <= lo)
    BY <1>4, <1>9, <1>10, <2>2
  <2> QED
    BY <2>1, <2>2
<1>12. \E x \in A : \A y \in A : x >= y
  <2>1. CASE a >= hi
    BY <1>4, <1>9, <1>10, <2>1
  <2>2. CASE ~(a >= hi)
    BY <1>4, <1>9, <1>10, <2>2
  <2> QED
    BY <2>1, <2>2
<1> QED
  BY <1>3, <1>11, <1>12 DEF HasExtremes

LEMMA MinMax ==
  ASSUME NEW S, IsFiniteSet(S), S # {}, S \subseteq Int
  PROVE  /\ Min(S) \in S /\ \A y \in S : Min(S) <= y
         /\ Max(S) \in S /\ \A y \in S : y <= Max(S)
<1>1. Min(S) \in S /\ \A y \in S : Min(S) <= y
  BY Extremes DEF Min, HasExtremes
<1>2. Max(S) \in S /\ \A y \in S : Max(S) >= y
  BY Extremes DEF Max, HasExtremes
<1> QED
  BY <1>1, <1>2

-----------------------------------------------------------------------------
(* Types *)

Record == [pc : Places, event : Events \cup {NoEvent}, seen : SUBSET Cands,
           last : Cands \cup {0}, found : SUBSET Scores,
           todo : SUBSET Cands, plan : Revision, number : Nat]

Publishing == {"candidate", "rank", "compare", "number", "publish"}

\* The events whose handler has this place.
Suits(place, e) ==
  /\ e \in Events
  /\ place = "profile" => e.type = "profile.ready"
  /\ place = "job" => e.type = "job.updated"
  /\ place \in {"page", "checkpoint"} => e.type \in {"job.updated", "reconciliation.requested"}
  /\ place = "store" => e.type \in {"profile.ready", "job.updated"}
  /\ place \in {"affected", "remove"} => e.type \in {"job.updated", "job.expired"}

\* What a worker's record holds at a place.
Fits(r) ==
  /\ r \in Record
  /\ r.pc # "idle" => Suits(r.pc, r.event)
  /\ r.pc \in Publishing => r.todo # {}

HasWork == \A w \in Workers : Fits(work[w])
ActiveHasVersion == \A j \in Jobs : jobs[j].active => jobs[j].version > 0
TypeInv == TypeOK /\ HasWork /\ ActiveHasVersion

\* The fields of an event.
LEMMA EventFields ==
  /\ \A c, v : ProfileReady(c, v).type = "profile.ready" /\ ProfileReady(c, v).id = c
               /\ ProfileReady(c, v).version = v
  /\ \A j, v : JobChanged(j, v).type = "job.updated" /\ JobChanged(j, v).id = j
               /\ JobChanged(j, v).version = v
  /\ \A j, v : JobExpired(j, v).type = "job.expired" /\ JobExpired(j, v).id = j
               /\ JobExpired(j, v).version = v
  /\ \A n : Reconcile(n).type = "reconciliation.requested"
  /\ \A e \in Events :
       /\ e.type = "profile.ready" =>
            e.id \in Cands /\ e.version \in 1..MaxProfileVersion /\ e = ProfileReady(e.id, e.version)
       /\ e.type = "job.updated" =>
            e.id \in Jobs /\ e.version \in 1..MaxJobVersion /\ e = JobChanged(e.id, e.version)
       /\ e.type = "job.expired" =>
            e.id \in Jobs /\ e.version \in 1..MaxJobVersion /\ e = JobExpired(e.id, e.version)
       /\ e.type \in {"profile.ready", "job.updated", "job.expired", "reconciliation.requested"}
<1>1. \A c, v : ProfileReady(c, v).type = "profile.ready" /\ ProfileReady(c, v).id = c
                /\ ProfileReady(c, v).version = v
  BY DEF ProfileReady
<1>2. \A j, v : JobChanged(j, v).type = "job.updated" /\ JobChanged(j, v).id = j
                /\ JobChanged(j, v).version = v
  BY DEF JobChanged
<1>3. \A j, v : JobExpired(j, v).type = "job.expired" /\ JobExpired(j, v).id = j
                /\ JobExpired(j, v).version = v
  BY DEF JobExpired
<1>4. \A n : Reconcile(n).type = "reconciliation.requested"
  BY DEF Reconcile
<1>5. ASSUME NEW e \in Events
      PROVE  \/ \E c \in Cands, v \in 1..MaxProfileVersion : e = ProfileReady(c, v)
             \/ \E j \in Jobs, v \in 1..MaxJobVersion : e = JobChanged(j, v)
             \/ \E j \in Jobs, v \in 1..MaxJobVersion : e = JobExpired(j, v)
             \/ \E n \in 1..MaxCrashes : e = Reconcile(n)
  BY DEF Events
<1> QED
  BY <1>1, <1>2, <1>3, <1>4, <1>5

LEMMA ExtremesOfCands ==
  ASSUME NEW S, S \subseteq Cands, S # {}
  PROVE  /\ Min(S) \in S /\ \A y \in S : Min(S) <= y
         /\ Max(S) \in S /\ \A y \in S : y <= Max(S)
<1>1. IsFiniteSet(S)
  <2>1. S \in SUBSET Cands /\ IsFiniteSet(Cands)
    BY IdsAssumption
  <2> QED
    BY <2>1, FS_Subset
<1>2. S \subseteq Int
  BY IdsAssumption
<1> QED
  BY <1>1, <1>2, MinMax

\* A worker whose record is replaced by one that fits.
LEMMA Turn ==
  ASSUME TypeInv, NEW w \in Workers, NEW r, Fits(r), Moves(w, r)
  PROVE  work' \in [Workers -> Record] /\ HasWork'
         /\ work'[w] = r /\ \A u \in Workers \ {w} : work'[u] = work[u]
<1>1. work \in [Workers -> Record] /\ r \in Record
  BY DEF TypeInv, TypeOK, Record, Fits
<1>2. work'[w] = r /\ \A u \in Workers \ {w} : work'[u] = work[u]
  BY <1>1 DEF Moves
<1> QED
  BY <1>1, <1>2 DEF Moves, TypeInv, HasWork

\* The same for a worker that goes to a place that asks for nothing more.
LEMMA Went ==
  ASSUME TypeInv, NEW w \in Workers, work[w].pc # "idle",
         NEW place \in Places \ Publishing, Suits(place, work[w].event), Goes(w, place)
  PROVE  work' \in [Workers -> Record] /\ HasWork'
         /\ work'[w] = [work[w] EXCEPT !.pc = place]
         /\ \A u \in Workers \ {w} : work'[u] = work[u]
<1>1. Fits([work[w] EXCEPT !.pc = place])
  BY DEF TypeInv, HasWork, Fits, Record
<1> QED
  BY <1>1, Turn DEF Goes

LEMMA IdleFits == Fits(Idle)
<1>1. Idle \in Record
  BY BoundsAssumption DEF Idle, Record, Places, Revision
<1> QED
  BY <1>1 DEF Fits, Idle, Publishing

\* NextCandidate and PublishFor lead to a candidate only where there is one.
LEMMA Turns ==
  ASSUME TypeInv, NEW w \in Workers, work[w].pc # "idle"
  PROVE  /\ work[w].pc \in Publishing /\ NextCandidate(w) =>
              \E r : Fits(r) /\ Moves(w, r) /\ r.event = work[w].event /\ r.last = work[w].last
                     /\ r.seen = work[w].seen
                     /\ r.pc \in {"candidate", "finish"}
                          \cup (IF work[w].event.type = "reconciliation.requested" THEN {"checkpoint"} ELSE {})
         /\ \A cs \in SUBSET Cands : PublishFor(w, cs) =>
              \E r : Fits(r) /\ Moves(w, r) /\ r.event = work[w].event /\ r.last = work[w].last
                     /\ r.seen = work[w].seen /\ r.pc \in {"candidate", "finish"}
<1>1. Fits(work[w]) /\ work[w] \in Record /\ work[w].event \in Events
  BY DEF TypeInv, HasWork, Fits, Suits
<1>2. ASSUME NextCandidate(w)
      PROVE  \E r : Fits(r) /\ Moves(w, r) /\ r.event = work[w].event /\ r.last = work[w].last
                    /\ r.seen = work[w].seen
                    /\ r.pc \in {"candidate", "finish"}
                         \cup (IF work[w].event.type = "reconciliation.requested" THEN {"checkpoint"} ELSE {})
  <2> DEFINE rest == work[w].todo \ {Min(work[w].todo)}
             place == CASE rest # {} -> "candidate"
                        [] rest = {} /\ work[w].event.type = "reconciliation.requested" -> "checkpoint"
                        [] OTHER -> "finish"
             r == [work[w] EXCEPT !.todo = rest, !.plan = Idle.plan, !.number = 0, !.pc = place]
  <2>1. Moves(w, r)
    BY <1>2 DEF NextCandidate
  <2>2. Idle.plan \in Revision
    BY IdleFits DEF Fits, Record
  <2>3. place \in Places /\ (place \in Publishing => rest # {})
        /\ place \in {"candidate", "finish"}
             \cup (IF work[w].event.type = "reconciliation.requested" THEN {"checkpoint"} ELSE {})
    BY DEF Places, Publishing
  <2>4. rest \in SUBSET Cands
    BY <1>1 DEF Record
  <2>5. Suits(place, work[w].event)
    BY <1>1 DEF Suits
  <2> HIDE DEF rest, place
  <2>6. r \in Record /\ r.pc = place /\ r.todo = rest /\ r.event = work[w].event
        /\ r.last = work[w].last /\ r.seen = work[w].seen
    BY <1>1, <2>2, <2>3, <2>4 DEF Record
  <2>7. Fits(r)
    BY <1>1, <2>3, <2>6, <2>5 DEF Fits
  <2> HIDE DEF r
  <2> QED
    BY <2>1, <2>3, <2>6, <2>7
<1>3. ASSUME NEW cs \in SUBSET Cands, PublishFor(w, cs)
      PROVE  \E r : Fits(r) /\ Moves(w, r) /\ r.event = work[w].event /\ r.last = work[w].last
                    /\ r.seen = work[w].seen /\ r.pc \in {"candidate", "finish"}
  <2> DEFINE place == IF cs = {} THEN "finish" ELSE "candidate"
             r == [work[w] EXCEPT !.todo = cs, !.pc = place]
  <2>1. Moves(w, r)
    BY <1>3 DEF PublishFor
  <2>2. place \in {"candidate", "finish"} /\ (place \in Publishing => cs # {}) /\ place \in Places
    BY DEF Places, Publishing
  <2>3. Suits(place, work[w].event)
    BY <1>1, <2>2 DEF Suits
  <2> HIDE DEF place
  <2>4. r \in Record /\ r.pc = place /\ r.todo = cs /\ r.event = work[w].event
        /\ r.last = work[w].last /\ r.seen = work[w].seen
    BY <1>1, <2>2 DEF Record
  <2>5. Fits(r)
    BY <1>1, <2>2, <2>4, <2>3 DEF Fits
  <2> HIDE DEF r
  <2> QED
    BY <2>1, <2>2, <2>4, <2>5
<1> QED
  BY <1>2, <1>3

LEMMA InitTypes == Init => TypeInv
<1> SUFFICES ASSUME Init PROVE TypeInv
  OBVIOUS
<1>1. HasWork /\ work \in [Workers -> Record]
  BY IdleFits DEF Init, HasWork, Fits
<1>2. revisions \in [Cands -> Seq(Revision)]
  BY DEF Init
<1>3. /\ jobs \in [Jobs -> [version : 0..MaxJobVersion, active : BOOLEAN]] /\ ActiveHasVersion
      /\ profiles \in [Cands -> 0..MaxProfileVersion]
      /\ 0 \in 0..MaxFailures /\ 0 \in 0..MaxCrashes
  BY BoundsAssumption DEF Init, ActiveHasVersion
<1>4. /\ queue \in [Events -> {"unknown", "waiting", "delayed", "taken", "done", "parked"}]
      /\ runs \in [Events -> [state : {"none", "running", "ready", "failed"}, checkpoint : Cands \cup {0}]]
  BY DEF Init
<1> QED
  BY <1>1, <1>2, <1>3, <1>4 DEF Init, TypeInv, TypeOK, Record

\* The tables of a step that changes the work of one worker only.
LEMMA WorldTypes ==
  ASSUME TypeInv, UNCHANGED <<jobs, profiles, owed, expired>>,
         scores' \subseteq Scores,
         revisions' \in [Cands -> Seq(Revision)],
         queue' \in [Events -> {"unknown", "waiting", "delayed", "taken", "done", "parked"}],
         runs' \in [Events -> [state : {"none", "running", "ready", "failed"}, checkpoint : Cands \cup {0}]],
         work' \in [Workers -> Record] /\ HasWork',
         raised' \in BOOLEAN /\ overtaken' \subseteq Jobs,
         failures' \in 0..MaxFailures /\ crashes' \in 0..MaxCrashes
  PROVE  TypeInv'
  BY DEF TypeInv, TypeOK, ActiveHasVersion, Record

LEMMA ChangeTypes ==
  ASSUME TypeInv,
         (\E j \in Jobs : ImportJob(j) \/ CloseJob(j))
           \/ (\E c \in Cands : SaveProfile(c) \/ EnqueueProfile(c) \/ Expire(c))
  PROVE  TypeInv'
<1>1. ASSUME NEW j \in Jobs, ImportJob(j) \/ CloseJob(j) PROVE TypeInv'
  <2>1. jobs[j] \in [version : 0..MaxJobVersion, active : BOOLEAN]
    BY DEF TypeInv, TypeOK
  <2>2. PICK active \in BOOLEAN : jobs' = [jobs EXCEPT ![j] = [version |-> jobs[j].version + 1, active |-> active]]
    BY <1>1 DEF ImportJob, CloseJob
  <2>3. jobs[j].version + 1 \in 1..MaxJobVersion
    BY <1>1, <2>1, BoundsAssumption DEF ImportJob, CloseJob
  <2>4. jobs' \in [Jobs -> [version : 0..MaxJobVersion, active : BOOLEAN]] /\ ActiveHasVersion'
    BY <2>2, <2>3, BoundsAssumption DEF TypeInv, TypeOK, ActiveHasVersion
  <2>5. queue' \in [Events -> {"unknown", "waiting", "delayed", "taken", "done", "parked"}]
    BY <1>1 DEF ImportJob, CloseJob, TypeInv, TypeOK
  <2> QED
    BY <1>1, <2>4, <2>5 DEF ImportJob, CloseJob, TypeInv, TypeOK, HasWork
<1>2. ASSUME NEW c \in Cands, SaveProfile(c) PROVE TypeInv'
  <2>1. profiles' \in [Cands -> 0..MaxProfileVersion]
    BY <1>2, BoundsAssumption DEF SaveProfile, TypeInv, TypeOK
  <2> QED
    BY <1>2, <2>1 DEF SaveProfile, TypeInv, TypeOK, HasWork, ActiveHasVersion, counters
<1>3. ASSUME NEW c \in Cands, EnqueueProfile(c) PROVE TypeInv'
  BY <1>3 DEF EnqueueProfile, TypeInv, TypeOK, HasWork, ActiveHasVersion, counters
<1>4. ASSUME NEW c \in Cands, Expire(c) PROVE TypeInv'
  BY <1>4 DEF Expire, TypeInv, TypeOK, HasWork, ActiveHasVersion, counters
<1> QED
  BY <1>1, <1>2, <1>3, <1>4

\* Claiming, starting and ending a run.
LEMMA RunTypes ==
  ASSUME TypeInv, NEW w \in Workers,
         (\E e \in Events : Claim(w, e)) \/ Start(w) \/ Finish(w) \/ Acknowledge(w)
           \/ Fail(w) \/ Retry(w) \/ Raise(w) \/ Crash(w)
  PROVE  TypeInv'
<1>1. ASSUME NEW e \in Events, Claim(w, e) PROVE TypeInv'
  <2> DEFINE r == [Idle EXCEPT !.pc = "start", !.event = e]
  <2>1. r \in Record /\ r.pc = "start" /\ r.event = e
    BY IdleFits DEF Fits, Record, Places, Idle
  <2>2. Fits(r)
    BY <2>1 DEF Fits, Publishing, Suits
  <2>3. Moves(w, r)
    BY <1>1 DEF Claim
  <2> HIDE DEF r
  <2>4. work' \in [Workers -> Record] /\ HasWork'
    BY <2>2, <2>3, Turn
  <2> QED
    BY <1>1, <2>4, WorldTypes DEF Claim, world, counters, TypeInv, TypeOK
<1>2. ASSUME Start(w) PROVE TypeInv'
  <2>1. work[w].pc # "idle" /\ work[w].event \in Events /\ work[w] \in Record
    BY <1>2 DEF Start, TypeInv, HasWork, Fits, Suits
  <2>2. PICK e \in Events : e = work[w].event
    BY <2>1
  <2>3. runs[e] \in [state : {"none", "running", "ready", "failed"}, checkpoint : Cands \cup {0}]
    BY DEF TypeInv, TypeOK
  <2> DEFINE place == CASE e.type = "profile.ready" -> "profile"
                        [] e.type = "job.updated" -> "job"
                        [] e.type = "job.expired" -> "affected"
                        [] OTHER -> "page"
             last == IF e.type = "reconciliation.requested" THEN runs[e].checkpoint ELSE 0
             r == [work[w] EXCEPT !.seen = expired, !.last = last, !.pc = place]
  <2>4. Moves(w, r) /\ runs' = [runs EXCEPT ![e] = [runs[e] EXCEPT !.state = "running"]]
    BY <1>2, <2>2 DEF Start
  <2>5. place \in Places \ (Publishing \cup {"idle"}) /\ last \in Cands \cup {0} /\ expired \in SUBSET Cands
    BY <2>3 DEF Places, Publishing, TypeInv, TypeOK
  <2>6. Suits(place, e)
    BY EventFields DEF Suits
  <2> HIDE DEF place, last
  <2>7. r \in Record /\ r.pc = place /\ r.event = work[w].event
    BY <2>1, <2>5 DEF Record
  <2>8. Fits(r)
    BY <2>1, <2>2, <2>5, <2>7, <2>6 DEF Fits
  <2> HIDE DEF r
  <2>9. work' \in [Workers -> Record] /\ HasWork'
    BY <2>4, <2>8, Turn
  <2>10. [runs[e] EXCEPT !.state = "running"]
          \in [state : {"none", "running", "ready", "failed"}, checkpoint : Cands \cup {0}]
    BY <2>3
  <2>11. runs' \in [Events -> [state : {"none", "running", "ready", "failed"}, checkpoint : Cands \cup {0}]]
    BY <2>4, <2>10 DEF TypeInv, TypeOK
  <2> QED
    BY <1>2, <2>9, <2>11, WorldTypes DEF Start, world, counters, TypeInv, TypeOK
<1>3. ASSUME Finish(w) PROVE TypeInv'
  <2>1. work' \in [Workers -> Record] /\ HasWork'
    BY <1>3, Went DEF Finish, Places, Publishing, TypeInv, HasWork, Fits, Suits
  <2>2. runs' \in [Events -> [state : {"none", "running", "ready", "failed"}, checkpoint : Cands \cup {0}]]
    BY <1>3 DEF Finish, TypeInv, TypeOK
  <2> QED
    BY <1>3, <2>1, <2>2, WorldTypes DEF Finish, world, counters, TypeInv, TypeOK
<1>4. ASSUME Acknowledge(w) \/ Retry(w) PROVE TypeInv'
  <2>1. work' \in [Workers -> Record] /\ HasWork'
    BY <1>4, IdleFits, Turn DEF Acknowledge, Retry
  <2>2. queue' \in [Events -> {"unknown", "waiting", "delayed", "taken", "done", "parked"}]
    BY <1>4 DEF Acknowledge, Retry, TypeInv, TypeOK
  <2> QED
    BY <1>4, <2>1, <2>2, WorldTypes DEF Acknowledge, Retry, world, counters, TypeInv, TypeOK
<1>5. ASSUME Fail(w) PROVE TypeInv'
  <2>1. work' \in [Workers -> Record] /\ HasWork'
    BY <1>5, Went DEF Fail, Places, Publishing, TypeInv, HasWork, Fits, Suits
  <2>2. work[w].event \in Events
    BY <1>5 DEF Fail, TypeInv, HasWork, Fits, Suits
  <2>3. PICK e \in Events : e = work[w].event
    BY <2>2
  <2>4. [runs[e] EXCEPT !.state = "failed"]
          \in [state : {"none", "running", "ready", "failed"}, checkpoint : Cands \cup {0}]
    <3>1. runs[e] \in [state : {"none", "running", "ready", "failed"}, checkpoint : Cands \cup {0}]
      BY DEF TypeInv, TypeOK
    <3> QED
      BY <3>1
  <2>5. runs' = [runs EXCEPT ![e] = [runs[e] EXCEPT !.state = "failed"]]
    BY <1>5, <2>3 DEF Fail
  <2>6. runs' \in [Events -> [state : {"none", "running", "ready", "failed"}, checkpoint : Cands \cup {0}]]
    BY <2>4, <2>5 DEF TypeInv, TypeOK
  <2> QED
    BY <1>5, <2>1, <2>6, WorldTypes DEF Fail, world, counters, TypeInv, TypeOK
<1>6. ASSUME Raise(w) PROVE TypeInv'
  <2>1. work' \in [Workers -> Record] /\ HasWork'
    BY <1>6, Went DEF Raise, Places, Publishing, TypeInv, HasWork, Fits, Suits
  <2>2. failures' \in 0..MaxFailures
    BY <1>6, BoundsAssumption DEF Raise, TypeInv, TypeOK
  <2> QED
    BY <1>6, <2>1, <2>2, WorldTypes DEF Raise, world, counters, TypeInv, TypeOK
<1>7. ASSUME Crash(w) PROVE TypeInv'
  <2>1. work' \in [Workers -> Record] /\ HasWork'
    BY <1>7, IdleFits, Turn DEF Crash
  <2>2. crashes' \in 0..MaxCrashes
    BY <1>7, BoundsAssumption DEF Crash, TypeInv, TypeOK
  <2>3. queue' \in [Events -> {"unknown", "waiting", "delayed", "taken", "done", "parked"}]
    BY <1>7 DEF Crash, TypeInv, TypeOK
  <2> QED
    BY <1>7, <2>1, <2>2, <2>3, WorldTypes DEF Crash, world, counters, TypeInv, TypeOK
<1> QED
  BY <1>1, <1>2, <1>3, <1>4, <1>5, <1>6, <1>7

\* What a listing holds: retained candidates with a profile, behind the cursor.
LEMMA Listed ==
  ASSUME TypeInv, NEW w \in Workers, NEW after
  PROVE  /\ ListActive(w, after) \subseteq Cands
         /\ \A c \in ListActive(w, after) : c > after /\ profiles[c] > 0 /\ c \notin work[w].seen
  BY DEF ListActive

\* A worker in the middle of a handler.
LEMMA AtWork ==
  ASSUME TypeInv, NEW w \in Workers, work[w].pc # "idle"
  PROVE  Fits(work[w]) /\ work[w] \in Record /\ Suits(work[w].pc, work[w].event)
         /\ work[w].event \in Events
  BY DEF TypeInv, HasWork, Fits, Suits

\* The tables of a step that only reads.
LEMMA OnlyWork ==
  ASSUME TypeInv, UNCHANGED <<world, scores, revisions, queue, runs, counters>>,
         work' \in [Workers -> Record] /\ HasWork'
  PROVE  TypeInv'
  BY DEF TypeInv, TypeOK, ActiveHasVersion, Record, world, counters

LEMMA ProfileTypes ==
  ASSUME TypeInv, NEW w \in Workers, ReadProfile(w)
  PROVE  TypeInv'
<1>1. work[w].pc = "profile" /\ work[w] \in Record /\ Suits("profile", work[w].event)
  BY AtWork DEF ReadProfile
<1>2. PICK e \in Events : e = work[w].event
  BY <1>1 DEF Suits
<1>3. e.id \in Cands /\ e.version \in 1..MaxProfileVersion
  BY <1>1, <1>2, EventFields DEF Suits
<1> DEFINE found == {<<e.id, e.version, x[1], x[2]>> : x \in ActiveJobs}
           r == [work[w] EXCEPT !.pc = "store", !.found = found]
<1>4. Moves(w, r) \/ Goes(w, "finish")
  BY <1>2 DEF ReadProfile
<1>5. CASE Goes(w, "finish")
  <2>1. work' \in [Workers -> Record] /\ HasWork'
    BY <1>1, <1>5, Went DEF Places, Publishing, Suits
  <2> QED
    BY <2>1, OnlyWork DEF ReadProfile
<1>6. CASE Moves(w, r)
  <2>1. \A x \in ActiveJobs : x[1] \in Jobs /\ x[2] \in 1..MaxJobVersion
    BY BoundsAssumption DEF ActiveJobs, TypeInv, TypeOK, ActiveHasVersion
  <2>2. found \in SUBSET Scores
    BY <1>3, <2>1 DEF Scores
  <2> HIDE DEF found
  <2>3. r \in Record /\ r.pc = "store" /\ r.event = work[w].event
    BY <1>1, <2>2 DEF Record, Places
  <2>4. Fits(r)
    BY <1>1, <2>3 DEF Fits, Publishing, Suits
  <2> HIDE DEF r
  <2>5. work' \in [Workers -> Record] /\ HasWork'
    BY <1>6, <2>4, Turn
  <2> QED
    BY <2>5, OnlyWork DEF ReadProfile
<1> QED
  BY <1>4, <1>5, <1>6

LEMMA JobTypes ==
  ASSUME TypeInv, NEW w \in Workers, ReadJob(w)
  PROVE  TypeInv'
<1>1. work[w].pc = "job" /\ work[w] \in Record /\ Suits("job", work[w].event)
  BY AtWork DEF ReadJob
<1>2. PICK e \in Events : e = work[w].event
  BY <1>1 DEF Suits
<1> DEFINE place == CASE jobs[e.id].version # e.version -> "finish"
                      [] jobs[e.id].version = e.version /\ jobs[e.id].active -> "page"
                      [] OTHER -> "affected"
           r == [work[w] EXCEPT !.last = runs[e].checkpoint, !.pc = place]
<1>3. Moves(w, r)
  BY <1>2 DEF ReadJob
<1>4. place \in {"finish", "page", "affected"}
  OBVIOUS
<1>5. runs[e].checkpoint \in Cands \cup {0}
  BY DEF TypeInv, TypeOK
<1> HIDE DEF place
<1>6. r \in Record /\ r.pc = place /\ r.event = work[w].event
  BY <1>1, <1>4, <1>5 DEF Record, Places
<1>7. Fits(r)
  BY <1>1, <1>4, <1>6 DEF Fits, Publishing, Suits
<1> HIDE DEF r
<1>8. work' \in [Workers -> Record] /\ HasWork'
  BY <1>3, <1>7, Turn
<1> QED
  BY <1>8, OnlyWork DEF ReadJob

\* The record with which ReadPage leaves a batch that is not empty.
PageRecord(w, batch) ==
  LET e == work[w].event IN
  IF e.type = "job.updated"
  THEN [work[w] EXCEPT !.pc = "store", !.last = Max(batch), !.todo = work[w].todo \cup batch,
          !.found = {<<c, profiles[c], e.id, e.version>> : c \in batch}]
  ELSE [work[w] EXCEPT !.pc = "candidate", !.last = Max(batch), !.todo = batch]

LEMMA PageMoves ==
  ASSUME TypeInv, NEW w \in Workers, ReadPage(w), NEW batch,
         batch = ListActive(w, work[w].last), batch # {}
  PROVE  /\ Fits(PageRecord(w, batch)) /\ Moves(w, PageRecord(w, batch))
         /\ PageRecord(w, batch).event = work[w].event
         /\ PageRecord(w, batch).last = Max(batch)
         /\ work[w].event.type = "job.updated" =>
              /\ PageRecord(w, batch).pc = "store"
              /\ PageRecord(w, batch).found =
                   {<<c, profiles[c], work[w].event.id, work[w].event.version>> : c \in batch}
         /\ work[w].event.type # "job.updated" => PageRecord(w, batch).pc = "candidate"
<1>1. work[w].pc = "page" /\ work[w] \in Record /\ Suits("page", work[w].event)
  BY AtWork DEF ReadPage
<1>2. PICK e \in Events : e = work[w].event
  BY <1>1 DEF Suits
<1>3. batch \in SUBSET Cands /\ Max(batch) \in batch /\ \A c \in batch : profiles[c] > 0
  BY Listed, ExtremesOfCands
<1>4. CASE e.type = "job.updated"
  <2> DEFINE found == {<<c, profiles[c], e.id, e.version>> : c \in batch}
             todo == work[w].todo \cup batch
             r == [work[w] EXCEPT !.pc = "store", !.last = Max(batch), !.todo = todo, !.found = found]
  <2>1. PageRecord(w, batch) = r
    BY <1>2, <1>4 DEF PageRecord
  <2>2. Moves(w, r)
    BY <1>2, <1>4 DEF ReadPage
  <2>3. e.id \in Jobs /\ e.version \in 1..MaxJobVersion
    BY <1>4, EventFields
  <2>4. \A c \in batch : profiles[c] \in 1..MaxProfileVersion
    BY <1>3, BoundsAssumption DEF TypeInv, TypeOK
  <2>5. found \in SUBSET Scores
    BY <1>3, <2>3, <2>4 DEF Scores
  <2>6. todo \in SUBSET Cands
    BY <1>1, <1>3 DEF Record
  <2> HIDE DEF found, todo
  <2>7. r \in Record /\ r.pc = "store" /\ r.event = work[w].event /\ r.last = Max(batch) /\ r.found = found
    BY <1>1, <1>3, <2>5, <2>6 DEF Record, Places
  <2>8. Fits(r)
    BY <1>1, <1>2, <1>4, <2>7 DEF Fits, Publishing, Suits
  <2> HIDE DEF r
  <2> QED
    BY <1>2, <1>4, <2>1, <2>2, <2>7, <2>8 DEF found
<1>5. CASE e.type # "job.updated"
  <2> DEFINE r == [work[w] EXCEPT !.pc = "candidate", !.last = Max(batch), !.todo = batch]
  <2>1. PageRecord(w, batch) = r
    BY <1>2, <1>5 DEF PageRecord
  <2>2. Moves(w, r)
    BY <1>2, <1>5 DEF ReadPage
  <2>3. r \in Record /\ r.pc = "candidate" /\ r.event = work[w].event /\ r.last = Max(batch) /\ r.todo = batch
    BY <1>1, <1>3 DEF Record, Places
  <2>4. Fits(r)
    BY <1>1, <2>3 DEF Fits, Publishing, Suits
  <2> HIDE DEF r
  <2> QED
    BY <1>2, <1>5, <2>1, <2>2, <2>3, <2>4
<1> QED
  BY <1>4, <1>5

LEMMA PageTypes ==
  ASSUME TypeInv, NEW w \in Workers, ReadPage(w)
  PROVE  TypeInv'
<1>1. work[w].pc = "page" /\ work[w] \in Record /\ Suits("page", work[w].event) /\ work[w].pc # "idle"
  BY AtWork DEF ReadPage
<1>2. PICK batch : batch = ListActive(w, work[w].last)
  OBVIOUS
<1>3. work' \in [Workers -> Record] /\ HasWork'
  <2>1. CASE batch # {}
    <3>1. Fits(PageRecord(w, batch)) /\ Moves(w, PageRecord(w, batch))
      BY <1>2, <2>1, PageMoves
    <3> QED
      BY <3>1, Turn
  <2>2. CASE Goes(w, "finish")
    BY <1>1, <2>2, Went DEF Places, Publishing, Suits
  <2>3. CASE PublishFor(w, work[w].todo)
    <3>1. work[w].todo \in SUBSET Cands
      BY <1>1 DEF Record
    <3> QED
      BY <1>1, <2>3, <3>1, Turns, Turn
  <2> QED
    BY <1>2, <2>1, <2>2, <2>3 DEF ReadPage
<1> QED
  BY <1>3, OnlyWork DEF ReadPage

LEMMA StoreTypes ==
  ASSUME TypeInv, NEW w \in Workers, Store(w) \/ Stored(w) \/ Checkpoint(w)
  PROVE  TypeInv'
<1>1. work[w].pc # "idle"
  BY DEF Store, Stored, Checkpoint
<1>2. work[w] \in Record /\ Suits(work[w].pc, work[w].event)
  BY <1>1, AtWork
<1>3. PICK e \in Events : e = work[w].event
  BY <1>2 DEF Suits
<1>4. ASSUME Store(w) PROVE TypeInv'
  <2>1. PICK s \in work[w].found :
          scores' = scores \cup {s} /\ Moves(w, [work[w] EXCEPT !.found = work[w].found \ {s}])
    BY <1>2, <1>4 DEF Store, Record
  <2> DEFINE r == [work[w] EXCEPT !.found = work[w].found \ {s}]
  <2>2. r \in Record /\ r.pc = work[w].pc /\ r.event = work[w].event
    BY <1>2 DEF Record
  <2>3. Fits(r)
    BY <1>2, <1>4, <2>2 DEF Fits, Publishing, Store
  <2> HIDE DEF r
  <2>4. work' \in [Workers -> Record] /\ HasWork'
    BY <2>1, <2>3, Turn DEF r
  <2>5. scores' \subseteq Scores
    BY <1>2, <2>1 DEF Record, TypeInv, TypeOK
  <2> QED
    BY <1>4, <2>4, <2>5, WorldTypes DEF Store, world, counters, TypeInv, TypeOK
<1>5. ASSUME Stored(w) PROVE TypeInv'
  <2>1. CASE e.type = "profile.ready"
    <3>1. {e.id} \in SUBSET Cands /\ PublishFor(w, {e.id})
      BY <1>3, <1>5, <2>1, EventFields DEF Stored
    <3>2. work' \in [Workers -> Record] /\ HasWork'
      BY <1>1, <3>1, Turns, Turn
    <3> QED
      BY <1>5, <3>2, OnlyWork DEF Stored
  <2>2. CASE e.type # "profile.ready"
    <3>1. Goes(w, "checkpoint") /\ Suits("checkpoint", work[w].event)
      BY <1>2, <1>3, <1>5, <2>2 DEF Stored, Suits
    <3>2. work' \in [Workers -> Record] /\ HasWork'
      BY <1>1, <3>1, Went DEF Places, Publishing
    <3> QED
      BY <1>5, <3>2, OnlyWork DEF Stored
  <2> QED
    BY <2>1, <2>2
<1>6. ASSUME Checkpoint(w) PROVE TypeInv'
  <2>1. Goes(w, "page") /\ Suits("page", work[w].event)
    BY <1>2, <1>6 DEF Checkpoint, Suits
  <2>2. work' \in [Workers -> Record] /\ HasWork'
    BY <1>1, <2>1, Went DEF Places, Publishing
  <2>3. runs' = [runs EXCEPT ![e] = [runs[e] EXCEPT !.checkpoint = work[w].last]]
    BY <1>3, <1>6 DEF Checkpoint
  <2>4. runs[e] \in [state : {"none", "running", "ready", "failed"}, checkpoint : Cands \cup {0}]
        /\ work[w].last \in Cands \cup {0}
    BY <1>2 DEF TypeInv, TypeOK, Record
  <2>5. [runs[e] EXCEPT !.checkpoint = work[w].last]
          \in [state : {"none", "running", "ready", "failed"}, checkpoint : Cands \cup {0}]
    BY <2>4
  <2>6. runs' \in [Events -> [state : {"none", "running", "ready", "failed"}, checkpoint : Cands \cup {0}]]
    BY <2>3, <2>5 DEF TypeInv, TypeOK
  <2> QED
    BY <1>6, <2>2, <2>6, WorldTypes DEF Checkpoint, world, counters, TypeInv, TypeOK
<1> QED
  BY <1>4, <1>5, <1>6

LEMMA RetireTypes ==
  ASSUME TypeInv, NEW w \in Workers, ReadAffected(w) \/ RemoveJob(w)
  PROVE  TypeInv'
<1>1. work[w].pc # "idle"
  BY DEF ReadAffected, RemoveJob
<1>2. work[w] \in Record /\ Suits(work[w].pc, work[w].event)
  BY <1>1, AtWork
<1>3. PICK e \in Events : e = work[w].event
  BY <1>2 DEF Suits
<1>4. ASSUME ReadAffected(w) PROVE TypeInv'
  <2> DEFINE affected == {c \in Cands \ work[w].seen :
                            \E v \in 1..MaxJobVersion : <<c, profiles[c], e.id, v>> \in scores}
             r == [work[w] EXCEPT !.pc = "remove", !.todo = affected]
  <2>1. Moves(w, r)
    BY <1>3, <1>4 DEF ReadAffected
  <2>2. affected \in SUBSET Cands
    OBVIOUS
  <2> HIDE DEF affected
  <2>3. r \in Record /\ r.pc = "remove" /\ r.event = work[w].event
    BY <1>2, <2>2 DEF Record, Places
  <2>4. Fits(r)
    BY <1>2, <1>4, <2>3 DEF Fits, Publishing, Suits, ReadAffected
  <2> HIDE DEF r
  <2>5. work' \in [Workers -> Record] /\ HasWork'
    BY <2>1, <2>4, Turn
  <2> QED
    BY <1>4, <2>5, OnlyWork DEF ReadAffected
<1>5. ASSUME RemoveJob(w) PROVE TypeInv'
  <2>1. work[w].todo \in SUBSET Cands /\ PublishFor(w, work[w].todo)
    BY <1>2, <1>5 DEF RemoveJob, Record
  <2>2. work' \in [Workers -> Record] /\ HasWork'
    BY <1>1, <2>1, Turns, Turn
  <2>3. e.id \in Jobs
    BY <1>2, <1>3, <1>5, EventFields DEF RemoveJob, Suits
  <2>4. scores' \subseteq Scores /\ overtaken' \subseteq Jobs
    BY <1>3, <1>5, <2>3 DEF RemoveJob, TypeInv, TypeOK
  <2> QED
    BY <1>5, <2>2, <2>4, WorldTypes DEF RemoveJob, world, counters, TypeInv, TypeOK
<1> QED
  BY <1>4, <1>5

\* The steps of publish_for, each at the candidate at the head of the list.
LEMMA PublishTypes ==
  ASSUME TypeInv, NEW w \in Workers,
         ReadCandidate(w) \/ ReadRanking(w) \/ Compare(w) \/ Number(w) \/ Publish(w)
  PROVE  TypeInv'
<1>1. work[w].pc \in Publishing /\ work[w].pc # "idle"
  BY DEF ReadCandidate, ReadRanking, Compare, Number, Publish, Publishing
<1>2. work[w] \in Record /\ work[w].todo # {} /\ Suits(work[w].pc, work[w].event)
  BY <1>1, AtWork DEF Fits
<1>3. PICK c \in Cands : c = Min(work[w].todo)
  BY <1>2, ExtremesOfCands DEF Record
<1>4. CASE NextCandidate(w) /\ UNCHANGED <<world, scores, revisions, queue, runs, counters>>
  <2>1. work' \in [Workers -> Record] /\ HasWork'
    BY <1>1, <1>4, Turns, Turn
  <2> QED
    BY <1>4, <2>1, OnlyWork
<1>5. ASSUME NEW r, r \in Record, r.pc \in Publishing, r.todo = work[w].todo, r.event = work[w].event,
             Moves(w, r), UNCHANGED <<world, scores, revisions, queue, runs, counters>>
      PROVE  TypeInv'
  <2>1. Fits(r)
    BY <1>2, <1>5 DEF Fits, Suits, Publishing
  <2>2. work' \in [Workers -> Record] /\ HasWork'
    BY <1>5, <2>1, Turn
  <2> QED
    BY <1>5, <2>2, OnlyWork
<1>6. ASSUME ReadCandidate(w), ~NextCandidate(w) PROVE TypeInv'
  <2> DEFINE plan == [Idle.plan EXCEPT !.profile = profiles[c]]
             r == [work[w] EXCEPT !.pc = "rank", !.plan = plan]
  <2>1. Moves(w, r)
    BY <1>3, <1>6 DEF ReadCandidate
  <2>2. plan \in Revision
    BY DEF Idle, Revision, TypeInv, TypeOK
  <2> HIDE DEF plan
  <2>3. r \in Record /\ r.pc \in Publishing /\ r.todo = work[w].todo /\ r.event = work[w].event
    BY <1>2, <2>2 DEF Record, Places, Publishing
  <2> HIDE DEF r
  <2> QED
    BY <1>5, <1>6, <2>1, <2>3 DEF ReadCandidate
<1>7. ASSUME ReadRanking(w) PROVE TypeInv'
  <2> DEFINE p == work[w].plan.profile
             plan == [profile |-> p, ranking |-> Rank(c, p)]
             r == [work[w] EXCEPT !.pc = "compare", !.plan = plan]
  <2>1. Moves(w, r)
    BY <1>3, <1>7 DEF ReadRanking
  <2>2. p \in 0..MaxProfileVersion
    BY <1>2 DEF Record, Revision
  <2>3. plan \in Revision
    BY <2>2 DEF Revision, Rank
  <2> HIDE DEF plan
  <2>4. r \in Record /\ r.pc \in Publishing /\ r.todo = work[w].todo /\ r.event = work[w].event
    BY <1>2, <2>3 DEF Record, Places, Publishing
  <2> HIDE DEF r
  <2> QED
    BY <1>5, <1>7, <2>1, <2>4 DEF ReadRanking
<1>8. ASSUME Compare(w), ~NextCandidate(w) PROVE TypeInv'
  <2> DEFINE r == [work[w] EXCEPT !.pc = "number"]
  <2>1. Moves(w, r)
    BY <1>3, <1>8 DEF Compare, Goes
  <2>2. r \in Record /\ r.pc \in Publishing /\ r.todo = work[w].todo /\ r.event = work[w].event
    BY <1>2 DEF Record, Places, Publishing
  <2> HIDE DEF r
  <2> QED
    BY <1>5, <1>8, <2>1, <2>2 DEF Compare
<1>9. ASSUME Number(w) PROVE TypeInv'
  <2> DEFINE n == Len(revisions[c]) + 1
             r == [work[w] EXCEPT !.pc = "publish", !.number = n]
  <2>1. Moves(w, r)
    BY <1>3, <1>9 DEF Number
  <2>2. n \in Nat
    BY DEF TypeInv, TypeOK
  <2> HIDE DEF n
  <2>3. r \in Record /\ r.pc \in Publishing /\ r.todo = work[w].todo /\ r.event = work[w].event
    BY <1>2, <2>2 DEF Record, Places, Publishing
  <2> HIDE DEF r
  <2> QED
    BY <1>5, <1>9, <2>1, <2>3 DEF Number
<1>10. ASSUME Publish(w) PROVE TypeInv'
  <2>1. work' \in [Workers -> Record] /\ HasWork'
    <3>1. CASE NextCandidate(w)
      BY <1>1, <3>1, Turns, Turn
    <3>2. CASE Goes(w, "fail")
      BY <1>1, <1>2, <3>2, Went DEF Places, Publishing, Suits
    <3> QED
      BY <1>10, <3>1, <3>2 DEF Publish
  <2>2. revisions' \in [Cands -> Seq(Revision)] /\ raised' \in BOOLEAN
    <3>1. work[w].plan \in Revision
      BY <1>2 DEF Record
    <3>2. Append(revisions[c], work[w].plan) \in Seq(Revision)
      BY <3>1 DEF TypeInv, TypeOK
    <3>3. \/ revisions' = [revisions EXCEPT ![c] = Append(revisions[c], work[w].plan)] /\ raised' = raised
          \/ revisions' = revisions /\ raised' = raised
          \/ revisions' = revisions /\ raised' = TRUE
      BY <1>3, <1>10 DEF Publish
    <3>4. raised' \in BOOLEAN
      BY <3>3 DEF TypeInv, TypeOK
    <3>5. revisions \in [Cands -> Seq(Revision)]
      BY DEF TypeInv, TypeOK
    <3>6. revisions' \in [Cands -> Seq(Revision)]
      BY <3>2, <3>3, <3>5
    <3> QED
      BY <3>4, <3>6
  <2> QED
    BY <1>10, <2>1, <2>2, WorldTypes DEF Publish, world, TypeInv, TypeOK
<1> QED
  BY <1>4, <1>6, <1>7, <1>8, <1>9, <1>10 DEF ReadCandidate, Compare

LEMMA StepTypes == TypeInv /\ [Next]_vars => TypeInv'
<1> SUFFICES ASSUME TypeInv, [Next]_vars PROVE TypeInv'
  OBVIOUS
<1>1. ASSUME NEW w \in Workers, HandlerStep(w) PROVE TypeInv'
  BY <1>1, RunTypes, ProfileTypes, JobTypes, PageTypes, StoreTypes, RetireTypes, PublishTypes
  DEF HandlerStep
<1>2. ASSUME NEW w \in Workers, (\E e \in Events : Claim(w, e)) \/ Raise(w) \/ Crash(w) PROVE TypeInv'
  BY <1>2, RunTypes
<1>3. CASE UNCHANGED vars
  BY <1>3 DEF vars, TypeInv, TypeOK, HasWork, ActiveHasVersion
<1> QED
  BY <1>1, <1>2, <1>3, ChangeTypes DEF Next

\* The tables and the workers' records always have the shape TypeOK gives them,
\* however job and profile events are handled and wherever a worker dies.
THEOREM TypeCorrect == Spec => []TypeOK
<1>1. Init => TypeInv
  BY InitTypes
<1>2. TypeInv /\ [Next]_vars => TypeInv'
  BY StepTypes
<1>3. TypeInv => TypeOK
  BY DEF TypeInv
<1> QED
  BY <1>1, <1>2, <1>3, PTL DEF Spec

-----------------------------------------------------------------------------
(* What each step leaves in its worker's record *)

LEMMA MovesTo ==
  ASSUME TypeInv, NEW w \in Workers, NEW r, Moves(w, r)
  PROVE  work'[w] = r
  BY DEF Moves, TypeInv, TypeOK

LEMMA GoesTo ==
  ASSUME TypeInv, NEW w \in Workers, NEW place, Goes(w, place)
  PROVE  /\ work'[w].pc = place /\ work'[w].event = work[w].event
         /\ work'[w].seen = work[w].seen /\ work'[w].last = work[w].last
         /\ work'[w].found = work[w].found /\ work'[w].todo = work[w].todo
         /\ work'[w].plan = work[w].plan /\ work'[w].number = work[w].number
<1>1. work'[w] = [work[w] EXCEPT !.pc = place] /\ work[w] \in Record
  BY MovesTo DEF Goes, TypeInv, TypeOK, Record
<1> QED
  BY <1>1 DEF Record

LEMMA EndSteps ==
  ASSUME TypeInv, NEW w \in Workers
  PROVE  /\ \A e \in Events : Claim(w, e) =>
              work'[w].pc = "start" /\ work'[w].event = e /\ work'[w].seen = {}
         /\ Acknowledge(w) \/ Retry(w) \/ Crash(w) => work'[w] = Idle
         /\ Start(w) =>
              /\ work'[w].event = work[w].event /\ work'[w].seen = expired
              /\ work'[w].pc = CASE work[w].event.type = "profile.ready" -> "profile"
                                 [] work[w].event.type = "job.updated" -> "job"
                                 [] work[w].event.type = "job.expired" -> "affected"
                                 [] OTHER -> "page"
<1>1. work[w] \in Record
  BY DEF TypeInv, TypeOK, Record
<1>2. ASSUME NEW e \in Events, Claim(w, e)
      PROVE  work'[w].pc = "start" /\ work'[w].event = e /\ work'[w].seen = {}
  <2>1. work'[w] = [Idle EXCEPT !.pc = "start", !.event = e]
    BY <1>2, MovesTo DEF Claim
  <2> QED
    BY <2>1 DEF Idle
<1>3. ASSUME Acknowledge(w) \/ Retry(w) \/ Crash(w) PROVE work'[w] = Idle
  BY <1>3, MovesTo DEF Acknowledge, Retry, Crash
<1>4. ASSUME Start(w)
      PROVE  /\ work'[w].event = work[w].event /\ work'[w].seen = expired
             /\ work'[w].pc = CASE work[w].event.type = "profile.ready" -> "profile"
                                [] work[w].event.type = "job.updated" -> "job"
                                [] work[w].event.type = "job.expired" -> "affected"
                                [] OTHER -> "page"
  <2> DEFINE place == CASE work[w].event.type = "profile.ready" -> "profile"
                        [] work[w].event.type = "job.updated" -> "job"
                        [] work[w].event.type = "job.expired" -> "affected"
                        [] OTHER -> "page"
             last == IF work[w].event.type = "reconciliation.requested"
                     THEN runs[work[w].event].checkpoint ELSE 0
  <2>1. work'[w] = [work[w] EXCEPT !.seen = expired, !.last = last, !.pc = place]
    BY <1>4, MovesTo DEF Start
  <2> HIDE DEF place, last
  <2>2. work'[w].event = work[w].event /\ work'[w].seen = expired /\ work'[w].pc = place
    BY <1>1, <2>1 DEF Record
  <2> QED
    BY <2>2 DEF place
<1> QED
  BY <1>2, <1>3, <1>4

LEMMA ReadSteps ==
  ASSUME TypeInv, NEW w \in Workers, NEW e \in Events, e = work[w].event
  PROVE  /\ ReadProfile(w) =>
              /\ work'[w].event = e /\ work'[w].seen = work[w].seen
              /\ \/ /\ work'[w].pc = "store"
                    /\ work'[w].found = {<<e.id, e.version, x[1], x[2]>> : x \in ActiveJobs}
                 \/ /\ work'[w].pc = "finish"
                    /\ profiles[e.id] # e.version \/ e.id \in work[w].seen
         /\ ReadJob(w) =>
              /\ work'[w].event = e /\ work'[w].seen = work[w].seen
              /\ work'[w].last = runs[e].checkpoint
              /\ work'[w].pc \in {"finish", "page", "affected"}
              /\ work'[w].pc = "affected" => jobs[e.id].version = e.version /\ ~jobs[e.id].active
         /\ ReadAffected(w) =>
              work'[w].event = e /\ work'[w].seen = work[w].seen /\ work'[w].pc = "remove"
<1>1. work[w] \in Record
  BY DEF TypeInv, TypeOK, Record
<1>2. ASSUME ReadProfile(w)
      PROVE  /\ work'[w].event = e /\ work'[w].seen = work[w].seen
             /\ \/ /\ work'[w].pc = "store"
                   /\ work'[w].found = {<<e.id, e.version, x[1], x[2]>> : x \in ActiveJobs}
                \/ /\ work'[w].pc = "finish"
                   /\ profiles[e.id] # e.version \/ e.id \in work[w].seen
  <2> DEFINE found == {<<e.id, e.version, x[1], x[2]>> : x \in ActiveJobs}
  <2>1. CASE Goes(w, "finish") /\ (profiles[e.id] # e.version \/ e.id \in work[w].seen)
    BY <2>1, GoesTo
  <2>2. CASE Moves(w, [work[w] EXCEPT !.pc = "store", !.found = found])
    <3> HIDE DEF found
    <3>1. work'[w] = [work[w] EXCEPT !.pc = "store", !.found = found]
      BY <2>2, MovesTo
    <3>2. work'[w].event = e /\ work'[w].seen = work[w].seen /\ work'[w].pc = "store" /\ work'[w].found = found
      BY <1>1, <3>1 DEF Record
    <3> QED
      BY <3>2 DEF found
  <2> QED
    BY <1>2, <2>1, <2>2 DEF ReadProfile
<1>3. ASSUME ReadJob(w)
      PROVE  /\ work'[w].event = e /\ work'[w].seen = work[w].seen
             /\ work'[w].last = runs[e].checkpoint
             /\ work'[w].pc \in {"finish", "page", "affected"}
             /\ work'[w].pc = "affected" => jobs[e.id].version = e.version /\ ~jobs[e.id].active
  <2> DEFINE place == CASE jobs[e.id].version # e.version -> "finish"
                        [] jobs[e.id].version = e.version /\ jobs[e.id].active -> "page"
                        [] OTHER -> "affected"
  <2>1. work'[w] = [work[w] EXCEPT !.last = runs[e].checkpoint, !.pc = place]
    BY <1>3, MovesTo DEF ReadJob
  <2>2. place \in {"finish", "page", "affected"}
        /\ (place = "affected" => jobs[e.id].version = e.version /\ ~jobs[e.id].active)
    OBVIOUS
  <2> HIDE DEF place
  <2>3. work'[w].event = e /\ work'[w].seen = work[w].seen /\ work'[w].last = runs[e].checkpoint
        /\ work'[w].pc = place
    BY <1>1, <2>1 DEF Record
  <2> QED
    BY <2>2, <2>3
<1>4. ASSUME ReadAffected(w)
      PROVE  work'[w].event = e /\ work'[w].seen = work[w].seen /\ work'[w].pc = "remove"
  <2> DEFINE affected == {c \in Cands \ work[w].seen :
                            \E v \in 1..MaxJobVersion : <<c, profiles[c], e.id, v>> \in scores}
  <2>1. work'[w] = [work[w] EXCEPT !.pc = "remove", !.todo = affected]
    BY <1>4, MovesTo DEF ReadAffected
  <2> HIDE DEF affected
  <2> QED
    BY <1>1, <2>1 DEF Record
<1> QED
  BY <1>2, <1>3, <1>4

\* Passing to a candidate of the list, to the next one, or past the last.
LEMMA ListSteps ==
  ASSUME TypeInv, NEW w \in Workers, work[w].pc # "idle",
         (work[w].pc \in Publishing /\ NextCandidate(w))
           \/ \E cs \in SUBSET Cands : PublishFor(w, cs)
  PROVE  /\ work'[w].event = work[w].event /\ work'[w].seen = work[w].seen
         /\ work'[w].pc \in {"candidate", "finish"}
              \cup (IF work[w].event.type = "reconciliation.requested" THEN {"checkpoint"} ELSE {})
<1>1. PICK r : /\ Moves(w, r) /\ r.event = work[w].event /\ r.seen = work[w].seen
               /\ r.pc \in {"candidate", "finish"}
                    \cup (IF work[w].event.type = "reconciliation.requested" THEN {"checkpoint"} ELSE {})
  BY Turns
<1> QED
  BY <1>1, MovesTo

LEMMA StoreSteps ==
  ASSUME TypeInv, NEW w \in Workers
  PROVE  /\ Store(w) =>
              /\ work'[w].event = work[w].event /\ work'[w].seen = work[w].seen
              /\ work'[w].last = work[w].last /\ work'[w].pc = "store"
              /\ \E s \in work[w].found :
                   work'[w].found = work[w].found \ {s} /\ scores' = scores \cup {s}
         /\ RemoveJob(w) =>
              /\ work'[w].event = work[w].event /\ work'[w].seen = work[w].seen
              /\ work'[w].pc \in {"candidate", "finish"}
<1>1. work[w] \in Record
  BY DEF TypeInv, TypeOK, Record
<1>2. ASSUME Store(w)
      PROVE  /\ work'[w].event = work[w].event /\ work'[w].seen = work[w].seen
             /\ work'[w].last = work[w].last /\ work'[w].pc = "store"
             /\ \E s \in work[w].found :
                  work'[w].found = work[w].found \ {s} /\ scores' = scores \cup {s}
  <2>1. PICK s \in work[w].found :
          scores' = scores \cup {s} /\ Moves(w, [work[w] EXCEPT !.found = work[w].found \ {s}])
    BY <1>1, <1>2 DEF Store, Record
  <2>2. work'[w] = [work[w] EXCEPT !.found = work[w].found \ {s}]
    BY <2>1, MovesTo
  <2> QED
    BY <1>1, <1>2, <2>1, <2>2 DEF Record, Store
<1>3. ASSUME RemoveJob(w)
      PROVE  /\ work'[w].event = work[w].event /\ work'[w].seen = work[w].seen
             /\ work'[w].pc \in {"candidate", "finish"}
  <2>1. work[w].pc # "idle" /\ work[w].todo \in SUBSET Cands /\ PublishFor(w, work[w].todo)
    BY <1>1, <1>3 DEF RemoveJob, Record
  <2>2. work[w].event.type # "reconciliation.requested"
    BY <1>3, AtWork DEF RemoveJob, Suits
  <2> QED
    BY <2>1, <2>2, ListSteps
<1> QED
  BY <1>2, <1>3

\* The steps of publish_for lead from one to the next, or to the next candidate.
LEMMA PublishSteps ==
  ASSUME TypeInv, NEW w \in Workers,
         ReadCandidate(w) \/ ReadRanking(w) \/ Compare(w) \/ Number(w) \/ Publish(w)
  PROVE  /\ work[w].pc \in Publishing
         /\ work'[w].event = work[w].event /\ work'[w].seen = work[w].seen
         /\ work'[w].pc \in Publishing \cup {"finish", "fail"}
              \cup (IF work[w].event.type = "reconciliation.requested" THEN {"checkpoint"} ELSE {})
         /\ work'[w].pc = "number" => Compare(w) /\ Goes(w, "number")
         /\ work'[w].pc = "publish" =>
              /\ Number(w) /\ work'[w].todo = work[w].todo /\ work'[w].plan = work[w].plan
              /\ work'[w].number = Len(revisions[Min(work[w].todo)]) + 1
<1>1. work[w] \in Record /\ work[w].pc \in Publishing
  BY DEF TypeInv, TypeOK, Record, Publishing, ReadCandidate, ReadRanking, Compare, Number, Publish
<1>2. CASE NextCandidate(w)
  BY <1>1, <1>2, ListSteps DEF Publishing
<1>3. CASE Goes(w, "fail")
  BY <1>1, <1>3, GoesTo
<1>4. CASE ReadCandidate(w) /\ ~NextCandidate(w)
  <2> DEFINE plan == [Idle.plan EXCEPT !.profile = profiles[Min(work[w].todo)]]
  <2>1. work'[w] = [work[w] EXCEPT !.pc = "rank", !.plan = plan]
    BY <1>4, MovesTo DEF ReadCandidate
  <2> HIDE DEF plan
  <2> QED
    BY <1>1, <2>1 DEF Record, Publishing
<1>5. CASE ReadRanking(w)
  <2> DEFINE plan == [profile |-> work[w].plan.profile,
                      ranking |-> Rank(Min(work[w].todo), work[w].plan.profile)]
  <2>1. work'[w] = [work[w] EXCEPT !.pc = "compare", !.plan = plan]
    BY <1>5, MovesTo DEF ReadRanking
  <2> HIDE DEF plan
  <2> QED
    BY <1>1, <2>1 DEF Record, Publishing
<1>6. CASE Compare(w) /\ ~NextCandidate(w)
  <2>1. Goes(w, "number")
    BY <1>6 DEF Compare
  <2> QED
    BY <1>1, <1>6, <2>1, GoesTo DEF Publishing
<1>7. CASE Number(w)
  <2> DEFINE n == Len(revisions[Min(work[w].todo)]) + 1
  <2>1. work'[w] = [work[w] EXCEPT !.pc = "publish", !.number = n]
    BY <1>7, MovesTo DEF Number
  <2> HIDE DEF n
  <2>2. /\ work'[w].pc = "publish" /\ work'[w].event = work[w].event /\ work'[w].seen = work[w].seen
        /\ work'[w].todo = work[w].todo /\ work'[w].plan = work[w].plan /\ work'[w].number = n
    BY <1>1, <2>1 DEF Record
  <2> QED
    BY <1>1, <1>7, <2>2 DEF n, Publishing
<1> QED
  BY <1>2, <1>3, <1>4, <1>5, <1>6, <1>7 DEF Publish

-----------------------------------------------------------------------------
(* Revisions differ *)

\* The deployment: one worker process.
Solo == \A u, w \in Workers : u = w

\* A plan on its way to the table is not the newest revision, and takes the next number.
Chosen(w) ==
  LET c == Min(work[w].todo) IN
  /\ work[w].pc \in {"number", "publish"} => revisions[c] = <<>> \/ Latest(c) # work[w].plan
  /\ work[w].pc = "publish" => work[w].number = Len(revisions[c]) + 1

ChurnInv == TypeInv /\ NoChurn /\ \A w \in Workers : Chosen(w)

LEMMA ElsewhereSteps ==
  ASSUME TypeInv, NEW w \in Workers,
         \/ \E e \in Events : Claim(w, e)
         \/ Start(w) \/ ReadProfile(w) \/ ReadJob(w) \/ ReadPage(w) \/ Store(w) \/ Stored(w)
         \/ Checkpoint(w) \/ ReadAffected(w) \/ RemoveJob(w) \/ Finish(w) \/ Acknowledge(w)
         \/ Fail(w) \/ Retry(w) \/ Raise(w) \/ Crash(w)
  PROVE  work'[w].pc \notin {"number", "publish"} /\ revisions' = revisions
<1>1. CASE (\E e \in Events : Claim(w, e)) \/ Acknowledge(w) \/ Retry(w) \/ Crash(w)
  <2>1. work'[w].pc \in {"start", "idle"}
    BY <1>1, EndSteps DEF Idle
  <2> QED
    BY <1>1, <2>1 DEF Claim, Acknowledge, Retry, Crash
<1>2. CASE Start(w)
  BY <1>2, EndSteps DEF Start
<1>3. CASE ReadProfile(w) \/ ReadJob(w) \/ ReadAffected(w)
  <2>1. work[w].event \in Events
    BY <1>3, AtWork DEF ReadProfile, ReadJob, ReadAffected, Suits
  <2>2. work'[w].pc \notin {"number", "publish"}
    BY <1>3, <2>1, ReadSteps
  <2> QED
    BY <1>3, <2>2 DEF ReadProfile, ReadJob, ReadAffected
<1>4. CASE ReadPage(w)
  <2>1. work[w].todo \in SUBSET Cands /\ work[w].pc # "idle"
    BY <1>4, AtWork DEF ReadPage, Record
  <2>2. CASE ListActive(w, work[w].last) = {}
    <3>1. Goes(w, "finish") \/ PublishFor(w, work[w].todo)
      BY <1>4, <2>2 DEF ReadPage
    <3>2. work'[w].pc \notin {"number", "publish"}
      BY <2>1, <3>1, GoesTo, ListSteps
    <3> QED
      BY <1>4, <3>2 DEF ReadPage
  <2>3. CASE ListActive(w, work[w].last) # {}
    <3>1. PICK batch : batch = ListActive(w, work[w].last) /\ batch # {}
      BY <2>3
    <3>2. Moves(w, PageRecord(w, batch)) /\ PageRecord(w, batch).pc \in {"store", "candidate"}
      BY <1>4, <3>1, PageMoves
    <3>3. work'[w].pc \notin {"number", "publish"}
      BY <3>2, MovesTo
    <3> QED
      BY <1>4, <3>3 DEF ReadPage
  <2> QED
    BY <2>2, <2>3
<1>5. CASE Store(w) \/ RemoveJob(w)
  <2>1. work'[w].pc \notin {"number", "publish"}
    BY <1>5, StoreSteps
  <2> QED
    BY <1>5, <2>1 DEF Store, RemoveJob
<1>6. CASE Stored(w)
  <2>1. CASE work[w].event.type = "profile.ready"
    <3>1. work[w].event \in Events /\ work[w].pc # "idle"
      BY <1>6, AtWork DEF Stored, Suits
    <3>2. {work[w].event.id} \in SUBSET Cands /\ PublishFor(w, {work[w].event.id})
      BY <1>6, <2>1, <3>1, EventFields DEF Stored
    <3>3. work'[w].pc \notin {"number", "publish"}
      BY <3>1, <3>2, ListSteps
    <3> QED
      BY <1>6, <3>3 DEF Stored
  <2>2. CASE work[w].event.type # "profile.ready"
    BY <1>6, <2>2, GoesTo DEF Stored
  <2> QED
    BY <2>1, <2>2
<1>7. CASE Checkpoint(w) \/ Finish(w) \/ Fail(w) \/ Raise(w)
  BY <1>7, GoesTo DEF Checkpoint, Finish, Fail, Raise
<1> QED
  BY <1>1, <1>2, <1>3, <1>4, <1>5, <1>6, <1>7

LEMMA StepDiffers ==
  ASSUME Solo, ChurnInv, [Next]_vars
  PROVE  NoChurn' /\ \A w \in Workers : Chosen(w)'
<1>1. TypeInv /\ NoChurn
  BY DEF ChurnInv
<1>2. CASE UNCHANGED <<work, revisions>>
  BY <1>2 DEF ChurnInv, Chosen, NoChurn, Latest
<1>3. ASSUME NEW w \in Workers, revisions' = revisions, work'[w].pc \notin {"number", "publish"}
      PROVE  NoChurn' /\ \A u \in Workers : Chosen(u)'
  <2>1. NoChurn'
    BY <1>1, <1>3 DEF NoChurn
  <2>2. \A u \in Workers : u = w
    BY DEF Solo
  <2> QED
    BY <1>3, <2>1, <2>2 DEF Chosen
<1>4. ASSUME NEW w \in Workers,
             ReadCandidate(w) \/ ReadRanking(w) \/ Compare(w) \/ Number(w) \/ Publish(w)
      PROVE  NoChurn' /\ \A u \in Workers : Chosen(u)'
  <2>1. work[w] \in Record /\ work[w].pc # "idle" /\ work[w].todo # {} /\ work[w].pc \in Publishing
    BY <1>1, <1>4, PublishSteps, AtWork DEF Fits, Publishing
  <2>2. PICK c \in Cands : c = Min(work[w].todo)
    BY <2>1, ExtremesOfCands DEF Record
  <2>3. /\ Chosen(w)
        /\ \A u \in Workers : u = w
        /\ revisions \in [Cands -> Seq(Revision)]
    BY <1>1 DEF ChurnInv, Solo, TypeInv, TypeOK
  <2>4. CASE work'[w].pc = "number"
    <3>1. Compare(w) /\ Goes(w, "number")
      BY <1>1, <1>4, <2>4, PublishSteps
    <3>2. work'[w].todo = work[w].todo /\ work'[w].plan = work[w].plan /\ revisions' = revisions
      BY <1>1, <3>1, GoesTo DEF Compare
    <3>3. revisions[c] = <<>> \/ Latest(c) # work[w].plan
      <4>1. SUFFICES ASSUME revisions[c] # <<>>, Latest(c) = work[w].plan PROVE FALSE
        OBVIOUS
      <4>2. NextCandidate(w)
        BY <2>2, <3>1, <4>1 DEF Compare
      <4>3. work'[w].pc \in {"candidate", "finish", "checkpoint"}
        BY <1>1, <2>1, <4>2, ListSteps
      <4> QED
        BY <2>4, <4>3
    <3>4. Chosen(w)'
      BY <2>2, <2>4, <3>2, <3>3 DEF Chosen, Latest
    <3>5. NoChurn'
      BY <1>1, <3>2 DEF NoChurn
    <3> QED
      BY <2>3, <3>4, <3>5
  <2>5. CASE work'[w].pc = "publish"
    <3>1. /\ Number(w) /\ work'[w].todo = work[w].todo /\ work'[w].plan = work[w].plan
          /\ work'[w].number = Len(revisions[c]) + 1 /\ revisions' = revisions
      BY <1>1, <1>4, <2>2, <2>5, PublishSteps DEF Number
    <3>2. revisions[c] = <<>> \/ Latest(c) # work[w].plan
      BY <2>2, <2>3, <3>1 DEF Chosen, Number
    <3>3. Chosen(w)'
      BY <2>2, <3>1, <3>2 DEF Chosen, Latest
    <3>4. NoChurn'
      BY <1>1, <3>1 DEF NoChurn
    <3> QED
      BY <2>3, <3>3, <3>4
  <2>6. CASE work'[w].pc \notin {"number", "publish"}
    <3>1. CASE revisions' = revisions
      BY <1>3, <2>6, <3>1
    <3>2. CASE revisions' # revisions
      <4>1. work[w].pc = "publish" /\ revisions' = [revisions EXCEPT ![c] = Append(revisions[c], work[w].plan)]
        BY <1>4, <2>2, <3>2 DEF ReadCandidate, ReadRanking, Compare, Number, Publish
      <4>2. revisions[c] = <<>> \/ Latest(c) # work[w].plan
        BY <2>2, <2>3, <4>1 DEF Chosen
      <4>3. NoChurn'
        <5>1. SUFFICES ASSUME NEW d \in Cands, NEW n \in 1..(Len(revisions'[d]) - 1)
                       PROVE  revisions'[d][n] # revisions'[d][n + 1]
          BY DEF NoChurn
        <5>2. CASE d # c
          <6>1. revisions'[d] = revisions[d]
            BY <2>3, <4>1, <5>2
          <6> QED
            BY <1>1, <5>1, <6>1 DEF NoChurn
        <5>3. CASE d = c
          <6> DEFINE old == revisions[c]
          <6>1. revisions'[d] = Append(old, work[w].plan) /\ old \in Seq(Revision)
            BY <2>3, <4>1, <5>3
          <6>2. Len(revisions'[d]) = Len(old) + 1 /\ n \in 1..Len(old)
            BY <5>1, <6>1
          <6>3. revisions'[d][n] = old[n]
            BY <6>1, <6>2
          <6>4. CASE n < Len(old)
            <7>1. revisions'[d][n + 1] = old[n + 1]
              BY <6>1, <6>2, <6>4
            <7>2. old[n] # old[n + 1]
              BY <1>1, <6>1, <6>2, <6>4 DEF NoChurn
            <7> QED
              BY <6>3, <7>1, <7>2
          <6>5. CASE n = Len(old)
            <7>1. revisions'[d][n + 1] = work[w].plan
              BY <6>1, <6>5
            <7>2. old # <<>>
              BY <6>1, <6>2
            <7>3. old[n] # work[w].plan
              BY <4>2, <6>5, <7>2 DEF Latest
            <7> QED
              BY <6>3, <7>1, <7>3
          <6> QED
            BY <6>1, <6>2, <6>4, <6>5
        <5> QED
          BY <5>2, <5>3
      <4>4. Chosen(w)'
        BY <2>6 DEF Chosen
      <4> QED
        BY <2>3, <4>3, <4>4
    <3> QED
      BY <3>1, <3>2
  <2> QED
    BY <2>4, <2>5, <2>6
<1>5. CASE (\E j \in Jobs : ImportJob(j) \/ CloseJob(j))
             \/ (\E c \in Cands : SaveProfile(c) \/ EnqueueProfile(c) \/ Expire(c))
  BY <1>2, <1>5 DEF ImportJob, CloseJob, SaveProfile, EnqueueProfile, Expire
<1>6. ASSUME NEW w \in Workers,
             (\E e \in Events : Claim(w, e)) \/ HandlerStep(w) \/ Raise(w) \/ Crash(w)
      PROVE  NoChurn' /\ \A u \in Workers : Chosen(u)'
  <2>1. CASE ReadCandidate(w) \/ ReadRanking(w) \/ Compare(w) \/ Number(w) \/ Publish(w)
    BY <1>4, <2>1
  <2>2. CASE ~(ReadCandidate(w) \/ ReadRanking(w) \/ Compare(w) \/ Number(w) \/ Publish(w))
    <3>1. work'[w].pc \notin {"number", "publish"} /\ revisions' = revisions
      BY <1>1, <1>6, <2>2, ElsewhereSteps DEF HandlerStep
    <3> QED
      BY <1>3, <3>1
  <2> QED
    BY <2>1, <2>2
<1>7. CASE UNCHANGED vars
  BY <1>2, <1>7 DEF vars
<1> QED
  BY <1>5, <1>6, <1>7 DEF Next

LEMMA InitDiffers == Init => ChurnInv
<1> SUFFICES ASSUME Init PROVE ChurnInv
  OBVIOUS
<1>1. TypeInv
  BY InitTypes
<1>2. NoChurn /\ \A w \in Workers : Chosen(w)
  BY DEF Init, NoChurn, Chosen, Idle
<1> QED
  BY <1>1, <1>2 DEF ChurnInv

\* Two revisions in a row are never equal, whatever is redelivered, raises or
\* crashes, while one worker process publishes.
THEOREM ChurnFree == ASSUME Solo PROVE Spec => []NoChurn
<1>1. Init => ChurnInv
  BY InitDiffers
<1>2. ChurnInv /\ [Next]_vars => ChurnInv'
  BY StepTypes, StepDiffers DEF ChurnInv
<1>3. ChurnInv => NoChurn
  BY DEF ChurnInv
<1> QED
  BY <1>1, <1>2, <1>3, PTL DEF Spec

-----------------------------------------------------------------------------
(* A checkpoint skips only what is stored *)

\* What no event has said yet, and a run that nobody has begun has no checkpoint.
Announced ==
  /\ \A j \in Jobs, v \in 1..MaxJobVersion :
       /\ v > jobs[j].version \/ (v = jobs[j].version /\ ~jobs[j].active)
            => queue[JobChanged(j, v)] = "unknown"
       /\ v > jobs[j].version \/ (v = jobs[j].version /\ jobs[j].active)
            => queue[JobExpired(j, v)] = "unknown"
       /\ queue[JobChanged(j, v)] \in {"unknown", "waiting"} => runs[JobChanged(j, v)].checkpoint = 0
  /\ \A c \in Cands, p \in 1..MaxProfileVersion :
       p > profiles[c] \/ (p = profiles[c] /\ c \in owed) => queue[ProfileReady(c, p)] = "unknown"

\* A worker's event is in flight; only the closing of a job retires it.
Holding(w) ==
  /\ work[w].pc # "idle" => queue[work[w].event] = "taken"
  /\ work[w].seen \subseteq expired
  /\ work[w].pc \in {"affected", "remove"} => work[w].event.type = "job.expired"

\* A job version whose scores of a candidate matter.
Standing(c, j, v) ==
  /\ jobs[j] = [version |-> v, active |-> TRUE] /\ j \notin overtaken
  /\ c \notin expired /\ profiles[c] > 0

Scored(c, j, v) == <<c, profiles[c], j, v>> \in scores

Awaited(c) ==
  c \in owed \/ queue[ProfileReady(c, profiles[c])] \in {"waiting", "delayed", "taken", "parked"}

Covered(c, j, v) == Scored(c, j, v) \/ Awaited(c)

InBatch(w, c, j, v) == work[w].pc = "store" /\ <<c, profiles[c], j, v>> \in work[w].found

\* The checkpoint of a job version's run.
AtCheckpoint(c, j, v) ==
  Standing(c, j, v) /\ c <= runs[JobChanged(j, v)].checkpoint => Covered(c, j, v)

\* The candidates a running job event has passed.
AtPage(w, c, j, v) ==
  /\ work[w].pc \in {"page", "store", "checkpoint"} /\ work[w].event = JobChanged(j, v)
  /\ Standing(c, j, v) /\ c <= work[w].last
  => Covered(c, j, v) \/ InBatch(w, c, j, v)

Scoring == {"store", "finish", "acknowledge"} \cup Publishing

\* A profile event scores every version but those whose event is yet to be claimed.
AtProfile(w, c, j, v) ==
  /\ work[w].pc \in Scoring /\ work[w].event = ProfileReady(c, profiles[c])
  /\ Standing(c, j, v)
  => Scored(c, j, v) \/ InBatch(w, c, j, v) \/ queue[JobChanged(j, v)] = "waiting"

Ending == Publishing \cup {"finish", "acknowledge"}

\* A job event that is over, or past its last batch, has covered everyone.
AtEnd(c, j, v) ==
  /\ Standing(c, j, v)
  /\ \/ queue[JobChanged(j, v)] = "done"
     \/ \E w \in Workers : work[w].event = JobChanged(j, v) /\ work[w].pc \in Ending
  => Covered(c, j, v)

Accounts(c, j, v) ==
  /\ AtCheckpoint(c, j, v) /\ AtEnd(c, j, v)
  /\ \A w \in Workers : AtPage(w, c, j, v) /\ AtProfile(w, c, j, v)

CoverInv ==
  /\ TypeInv /\ Announced /\ \A w \in Workers : Holding(w)
  /\ \A c \in Cands, j \in Jobs, v \in 1..MaxJobVersion : Accounts(c, j, v)

LEMMA EventsDiffer ==
  /\ \A j \in Jobs, v \in 1..MaxJobVersion : JobChanged(j, v) \in Events /\ JobExpired(j, v) \in Events
  /\ \A c \in Cands, p \in 1..MaxProfileVersion : ProfileReady(c, p) \in Events
  /\ \A n \in 1..MaxCrashes : Reconcile(n) \in Events
  /\ \A j, v, i, u : JobChanged(j, v) = JobChanged(i, u) => j = i /\ v = u
  /\ \A j, v, i, u : JobExpired(j, v) = JobExpired(i, u) => j = i /\ v = u
  /\ \A c, p, d, q : ProfileReady(c, p) = ProfileReady(d, q) => c = d /\ p = q
  /\ \A j, v, i, u : JobChanged(j, v) # JobExpired(i, u) /\ JobChanged(j, v) # ProfileReady(i, u)
                     /\ JobExpired(j, v) # ProfileReady(i, u)
  /\ \A j, v, n : JobChanged(j, v) # Reconcile(n) /\ JobExpired(j, v) # Reconcile(n)
                  /\ ProfileReady(j, v) # Reconcile(n)
<1>1. /\ \A j \in Jobs, v \in 1..MaxJobVersion : JobChanged(j, v) \in Events /\ JobExpired(j, v) \in Events
      /\ \A c \in Cands, p \in 1..MaxProfileVersion : ProfileReady(c, p) \in Events
      /\ \A n \in 1..MaxCrashes : Reconcile(n) \in Events
  BY DEF Events
<1>2. /\ \A j, v, i, u : JobChanged(j, v) = JobChanged(i, u) => j = i /\ v = u
      /\ \A j, v, i, u : JobExpired(j, v) = JobExpired(i, u) => j = i /\ v = u
      /\ \A c, p, d, q : ProfileReady(c, p) = ProfileReady(d, q) => c = d /\ p = q
  BY DEF JobChanged, JobExpired, ProfileReady
<1>3. \A j, v, i, u : JobChanged(j, v) # JobExpired(i, u) /\ JobChanged(j, v) # ProfileReady(i, u)
                     /\ JobExpired(j, v) # ProfileReady(i, u)
  BY DEF JobChanged, JobExpired, ProfileReady
<1>4. \A j, v, n : JobChanged(j, v) # Reconcile(n) /\ JobExpired(j, v) # Reconcile(n)
                  /\ ProfileReady(j, v) # Reconcile(n)
  BY DEF JobChanged, JobExpired, ProfileReady, Reconcile
<1> QED
  BY <1>1, <1>2, <1>3, <1>4

\* What a change of the world does to the tables the accounts are about.
LEMMA WorldSteps ==
  ASSUME TypeInv,
         (\E j \in Jobs : ImportJob(j) \/ CloseJob(j))
           \/ (\E c \in Cands : SaveProfile(c) \/ EnqueueProfile(c) \/ Expire(c))
  PROVE  /\ work' = work /\ runs' = runs /\ scores' = scores /\ expired \subseteq expired'
         /\ \/ \E j \in Jobs, v \in 1..MaxJobVersion, e \in Events, active \in BOOLEAN :
                 /\ v = jobs[j].version + 1
                 /\ jobs' = [jobs EXCEPT ![j] = [version |-> v, active |-> active]]
                 /\ queue' = [queue EXCEPT ![e] = "waiting"]
                 /\ e = IF active THEN JobChanged(j, v) ELSE JobExpired(j, v)
                 /\ overtaken' = overtaken \ {j}
                 /\ profiles' = profiles /\ owed' = owed
            \/ \E c \in Cands :
                 /\ profiles[c] + 1 \in 1..MaxProfileVersion
                 /\ profiles' = [profiles EXCEPT ![c] = profiles[c] + 1]
                 /\ owed' = owed \cup {c} /\ c \notin owed
                 /\ UNCHANGED <<jobs, queue, overtaken>>
            \/ \E c \in Cands :
                 /\ c \in owed /\ owed' = owed \ {c}
                 /\ queue' = [queue EXCEPT ![ProfileReady(c, profiles[c])] = "waiting"]
                 /\ UNCHANGED <<jobs, profiles, overtaken>>
            \/ UNCHANGED <<jobs, profiles, owed, queue, overtaken>>
<1>1. ASSUME NEW j \in Jobs, ImportJob(j) \/ CloseJob(j)
      PROVE  /\ work' = work /\ runs' = runs /\ scores' = scores /\ expired' = expired
             /\ profiles' = profiles /\ owed' = owed
             /\ \E v \in 1..MaxJobVersion, e \in Events, active \in BOOLEAN :
                 /\ v = jobs[j].version + 1
                 /\ jobs' = [jobs EXCEPT ![j] = [version |-> v, active |-> active]]
                 /\ queue' = [queue EXCEPT ![e] = "waiting"]
                 /\ e = IF active THEN JobChanged(j, v) ELSE JobExpired(j, v)
                 /\ overtaken' = overtaken \ {j}
  <2> DEFINE v == jobs[j].version + 1
  <2>1. v \in 1..MaxJobVersion
    BY <1>1, BoundsAssumption DEF ImportJob, CloseJob, TypeInv, TypeOK
  <2>2. JobChanged(j, v) \in Events /\ JobExpired(j, v) \in Events
    BY <2>1, EventsDiffer
  <2>3. CASE ImportJob(j)
    <3> DEFINE e == JobChanged(j, v)
    <3>1. /\ jobs' = [jobs EXCEPT ![j] = [version |-> v, active |-> TRUE]]
          /\ queue' = [queue EXCEPT ![e] = "waiting"] /\ overtaken' = overtaken \ {j}
      BY <2>3 DEF ImportJob
    <3>2. e = IF TRUE THEN JobChanged(j, v) ELSE JobExpired(j, v)
      OBVIOUS
    <3> HIDE DEF v, e
    <3>3. \E active \in BOOLEAN : jobs' = [jobs EXCEPT ![j] = [version |-> v, active |-> active]]
             /\ e = IF active THEN JobChanged(j, v) ELSE JobExpired(j, v)
      BY <3>1, <3>2
    <3> QED
      BY <2>1, <2>2, <2>3, <3>1, <3>3 DEF ImportJob, v, e
  <2>4. CASE CloseJob(j)
    <3> DEFINE e == JobExpired(j, v)
    <3>1. /\ jobs' = [jobs EXCEPT ![j] = [version |-> v, active |-> FALSE]]
          /\ queue' = [queue EXCEPT ![e] = "waiting"] /\ overtaken' = overtaken \ {j}
      BY <2>4 DEF CloseJob
    <3>2. e = IF FALSE THEN JobChanged(j, v) ELSE JobExpired(j, v)
      OBVIOUS
    <3> HIDE DEF v, e
    <3>3. \E active \in BOOLEAN : jobs' = [jobs EXCEPT ![j] = [version |-> v, active |-> active]]
             /\ e = IF active THEN JobChanged(j, v) ELSE JobExpired(j, v)
      BY <3>1, <3>2
    <3> QED
      BY <2>1, <2>2, <2>4, <3>1, <3>3 DEF CloseJob, v, e
  <2> QED
    BY <1>1, <2>3, <2>4
<1>2. ASSUME NEW c \in Cands, SaveProfile(c)
      PROVE  /\ profiles[c] + 1 \in 1..MaxProfileVersion
             /\ profiles' = [profiles EXCEPT ![c] = profiles[c] + 1]
             /\ owed' = owed \cup {c} /\ c \notin owed
             /\ UNCHANGED <<jobs, queue, overtaken, work, runs, scores, expired>>
  BY <1>2, BoundsAssumption DEF SaveProfile, counters, TypeInv, TypeOK
<1>3. ASSUME NEW c \in Cands, EnqueueProfile(c)
      PROVE  /\ c \in owed /\ owed' = owed \ {c}
             /\ queue' = [queue EXCEPT ![ProfileReady(c, profiles[c])] = "waiting"]
             /\ UNCHANGED <<jobs, profiles, overtaken, work, runs, scores, expired>>
  BY <1>3 DEF EnqueueProfile, counters
<1>4. ASSUME NEW c \in Cands, Expire(c)
      PROVE  UNCHANGED <<jobs, profiles, owed, queue, overtaken, work, runs, scores>>
             /\ expired \subseteq expired'
  BY <1>4 DEF Expire, counters
<1>5. CASE \E j \in Jobs : ImportJob(j) \/ CloseJob(j)
  BY <1>1, <1>5
<1>6. CASE \E c \in Cands : SaveProfile(c)
  BY <1>2, <1>6
<1>7. CASE \E c \in Cands : EnqueueProfile(c)
  BY <1>3, <1>7
<1>8. CASE \E c \in Cands : Expire(c)
  BY <1>4, <1>8
<1> QED
  BY <1>5, <1>6, <1>7, <1>8

\* A change of the world keeps the accounts: a new version has no checkpoint, and
\* a new profile is owed its event.
LEMMA WorldAccounts ==
  ASSUME CoverInv,
         (\E j \in Jobs : ImportJob(j) \/ CloseJob(j))
           \/ (\E c \in Cands : SaveProfile(c) \/ EnqueueProfile(c) \/ Expire(c))
  PROVE  /\ Announced' /\ \A w \in Workers : Holding(w)'
         /\ \A c \in Cands, j \in Jobs, v \in 1..MaxJobVersion : Accounts(c, j, v)'
<1>1. TypeInv /\ Announced /\ (\A w \in Workers : Holding(w))
      /\ \A c \in Cands, j \in Jobs, v \in 1..MaxJobVersion : Accounts(c, j, v)
  BY DEF CoverInv
<1>2. /\ jobs \in [Jobs -> [version : 0..MaxJobVersion, active : BOOLEAN]]
      /\ profiles \in [Cands -> 0..MaxProfileVersion]
      /\ queue \in [Events -> {"unknown", "waiting", "delayed", "taken", "done", "parked"}]
      /\ work \in [Workers -> Record] /\ Cands \subseteq Nat \ {0}
  BY <1>1, IdsAssumption DEF TypeInv, TypeOK, Record
<1>3. work' = work /\ runs' = runs /\ scores' = scores /\ expired \subseteq expired'
  BY <1>1, WorldSteps
<1>4. \A w \in Workers : work[w].pc # "idle" => work[w].event \in Events
  BY <1>1, AtWork DEF Suits
<1>5. CASE UNCHANGED <<jobs, profiles, owed, queue, overtaken>>
  <2>1. Announced'
    BY <1>1, <1>3, <1>5 DEF Announced
  <2>2. \A w \in Workers : Holding(w)'
    BY <1>1, <1>3, <1>5 DEF Holding
  <2>3. ASSUME NEW c \in Cands, NEW j \in Jobs, NEW v \in 1..MaxJobVersion PROVE Accounts(c, j, v)'
    <3>1. Standing(c, j, v)' => Standing(c, j, v)
      BY <1>3, <1>5 DEF Standing
    <3>2. (Covered(c, j, v)' <=> Covered(c, j, v)) /\ (Scored(c, j, v)' <=> Scored(c, j, v))
      BY <1>3, <1>5 DEF Covered, Scored, Awaited
    <3>3. \A w \in Workers : InBatch(w, c, j, v)' <=> InBatch(w, c, j, v)
      BY <1>3, <1>5 DEF InBatch
    <3>4. Accounts(c, j, v)
      BY <1>1
    <3> QED
      BY <1>3, <1>5, <3>1, <3>2, <3>3, <3>4 DEF Accounts, AtCheckpoint, AtEnd, AtPage, AtProfile
  <2> QED
    BY <2>1, <2>2, <2>3
<1>6. ASSUME NEW i \in Jobs, NEW u \in 1..MaxJobVersion, NEW e \in Events, NEW active \in BOOLEAN,
             u = jobs[i].version + 1,
             jobs' = [jobs EXCEPT ![i] = [version |-> u, active |-> active]],
             queue' = [queue EXCEPT ![e] = "waiting"],
             e = IF active THEN JobChanged(i, u) ELSE JobExpired(i, u),
             overtaken' = overtaken \ {i}, profiles' = profiles, owed' = owed
      PROVE  /\ Announced' /\ \A w \in Workers : Holding(w)'
             /\ \A c \in Cands, j \in Jobs, v \in 1..MaxJobVersion : Accounts(c, j, v)'
  <2>1. queue[JobChanged(i, u)] = "unknown" /\ queue[JobExpired(i, u)] = "unknown" /\ queue[e] = "unknown"
    <3>1. u > jobs[i].version
      BY <1>2, <1>6
    <3>2. queue[JobChanged(i, u)] = "unknown" /\ queue[JobExpired(i, u)] = "unknown"
      BY <1>1, <3>1 DEF Announced
    <3> QED
      BY <1>6, <3>2
  <2>2. queue'[e] = "waiting" /\ \A d \in Events \ {e} : queue'[d] = queue[d]
    BY <1>2, <1>6
  <2>3. jobs'[i].version = u /\ jobs'[i].active = active /\ jobs'[i] = [version |-> u, active |-> active]
        /\ \A j \in Jobs \ {i} : jobs'[j] = jobs[j]
    BY <1>2, <1>6
  <2>4. Announced'
    <3>1. ASSUME NEW c \in Cands, NEW p \in 1..MaxProfileVersion
          PROVE  (p > profiles[c] \/ (p = profiles[c] /\ c \in owed) => queue[ProfileReady(c, p)] = "unknown")'
      <4>1. ProfileReady(c, p) \in Events \ {e}
        <5>1. ProfileReady(c, p) \in Events /\ JobChanged(i, u) # ProfileReady(c, p)
              /\ JobExpired(i, u) # ProfileReady(c, p)
          BY EventsDiffer
        <5> QED
          BY <1>6, <5>1
      <4> QED
        BY <1>1, <1>6, <2>2, <4>1 DEF Announced
    <3>2. ASSUME NEW j \in Jobs, NEW v \in 1..MaxJobVersion
          PROVE  (/\ v > jobs[j].version \/ (v = jobs[j].version /\ ~jobs[j].active)
                       => queue[JobChanged(j, v)] = "unknown"
                  /\ v > jobs[j].version \/ (v = jobs[j].version /\ jobs[j].active)
                       => queue[JobExpired(j, v)] = "unknown"
                  /\ queue[JobChanged(j, v)] \in {"unknown", "waiting"} => runs[JobChanged(j, v)].checkpoint = 0)'
      <4>1. JobChanged(j, v) \in Events /\ JobExpired(j, v) \in Events
            /\ (JobChanged(j, v) = e <=> j = i /\ v = u /\ active)
            /\ (JobExpired(j, v) = e <=> j = i /\ v = u /\ ~active)
        BY <1>6, EventsDiffer
      <4>2. /\ v > jobs[j].version \/ (v = jobs[j].version /\ ~jobs[j].active)
                 => queue[JobChanged(j, v)] = "unknown"
            /\ v > jobs[j].version \/ (v = jobs[j].version /\ jobs[j].active)
                 => queue[JobExpired(j, v)] = "unknown"
            /\ queue[JobChanged(j, v)] \in {"unknown", "waiting"} => runs[JobChanged(j, v)].checkpoint = 0
        BY <1>1 DEF Announced
      <4>3. CASE j # i
        BY <1>3, <2>2, <2>3, <4>1, <4>2, <4>3
      <4>4. CASE j = i
        <5>1. jobs[j].version \in Nat /\ u = jobs[j].version + 1 /\ jobs'[j].version = u /\ jobs'[j].active = active
          BY <1>2, <1>6, <2>3, <4>4
        <5>2. v > u => v > jobs[j].version
          BY <5>1
        <5>3. CASE v > u
          BY <1>3, <2>2, <4>1, <4>2, <5>1, <5>2, <5>3
        <5>4. CASE v = u
          BY <1>3, <2>1, <2>2, <4>1, <4>2, <4>4, <5>1, <5>4
        <5>5. CASE v < u
          BY <1>3, <2>2, <4>1, <4>2, <5>1, <5>5
        <5> QED
          BY <5>1, <5>3, <5>4, <5>5
      <4> QED
        BY <4>3, <4>4
    <3> QED
      BY <3>1, <3>2 DEF Announced
  <2>5. ASSUME NEW w \in Workers PROVE Holding(w)'
    <3>1. work[w].pc # "idle" => work[w].event \in Events \ {e}
      BY <1>1, <1>4, <2>1 DEF Holding
    <3> QED
      BY <1>1, <1>3, <2>2, <3>1 DEF Holding
  <2>6. ASSUME NEW c \in Cands, NEW j \in Jobs, NEW v \in 1..MaxJobVersion PROVE Accounts(c, j, v)'
    <3>1. CASE j = i
      <4>1. SUFFICES ASSUME v = u PROVE Accounts(c, j, v)'
        <5>1. v # u => ~Standing(c, j, v)'
          BY <2>3, <3>1 DEF Standing
        <5> QED
          BY <5>1 DEF Accounts, AtCheckpoint, AtEnd, AtPage, AtProfile
      <4>2. runs'[JobChanged(j, v)].checkpoint = 0 /\ ~(c <= runs'[JobChanged(j, v)].checkpoint)
        BY <1>1, <1>2, <1>3, <2>1, <3>1, <4>1 DEF Announced
      <4>3. \A w \in Workers : work'[w].pc # "idle" => work'[w].event # JobChanged(j, v)
        BY <1>1, <1>3, <2>1, <3>1, <4>1 DEF Holding
      <4>4. Standing(c, j, v)' => queue'[JobChanged(j, v)] = "waiting"
        <5>1. Standing(c, j, v)' => active
          BY <2>3, <3>1 DEF Standing
        <5> QED
          BY <1>6, <2>2, <3>1, <4>1, <5>1
      <4>5. AtEnd(c, j, v)'
        BY <4>3, <4>4 DEF AtEnd, Ending, Publishing
      <4> QED
        BY <4>2, <4>3, <4>4, <4>5 DEF Accounts, AtCheckpoint, AtPage, AtProfile
    <3>2. CASE j # i
      <4>1. Standing(c, j, v)' => Standing(c, j, v)
        BY <1>3, <1>6, <2>3, <3>2 DEF Standing
      <4>2. Scored(c, j, v)' <=> Scored(c, j, v)
        BY <1>3, <1>6 DEF Scored
      <4>3. ASSUME Standing(c, j, v) PROVE Awaited(c)' <=> Awaited(c)
        <5>1. profiles[c] \in 1..MaxProfileVersion
          BY <1>2, <4>3, BoundsAssumption DEF Standing
        <5>2. ProfileReady(c, profiles[c]) \in Events \ {e}
          BY <1>6, <5>1, EventsDiffer
        <5> QED
          BY <1>6, <2>2, <5>2 DEF Awaited
      <4>4. \A w \in Workers : InBatch(w, c, j, v)' <=> InBatch(w, c, j, v)
        BY <1>3, <1>6 DEF InBatch
      <4>5. Accounts(c, j, v)
        BY <1>1
      <4>6. queue'[JobChanged(j, v)] = queue[JobChanged(j, v)]
        <5>1. JobChanged(j, v) \in Events \ {e}
          BY <1>6, <3>2, EventsDiffer
        <5> QED
          BY <2>2, <5>1
      <4> QED
        BY <1>3, <1>6, <4>1, <4>2, <4>3, <4>4, <4>5, <4>6
           DEF Accounts, AtCheckpoint, AtEnd, AtPage, AtProfile, Covered
    <3> QED
      BY <3>1, <3>2
  <2> QED
    BY <2>4, <2>5, <2>6
<1>7. ASSUME NEW d \in Cands, profiles[d] + 1 \in 1..MaxProfileVersion,
             profiles' = [profiles EXCEPT ![d] = profiles[d] + 1],
             owed' = owed \cup {d}, d \notin owed, UNCHANGED <<jobs, queue, overtaken>>
      PROVE  /\ Announced' /\ \A w \in Workers : Holding(w)'
             /\ \A c \in Cands, j \in Jobs, v \in 1..MaxJobVersion : Accounts(c, j, v)'
  <2>1. profiles'[d] = profiles[d] + 1 /\ \A c \in Cands \ {d} : profiles'[c] = profiles[c]
    BY <1>2, <1>7
  <2>2. Announced'
    <3>1. ASSUME NEW c \in Cands, NEW p \in 1..MaxProfileVersion
          PROVE  (p > profiles[c] \/ (p = profiles[c] /\ c \in owed) => queue[ProfileReady(c, p)] = "unknown")'
      <4>1. p > profiles[c] \/ (p = profiles[c] /\ c \in owed) => queue[ProfileReady(c, p)] = "unknown"
        BY <1>1 DEF Announced
      <4>2. CASE c = d
        BY <1>2, <1>7, <2>1, <4>1, <4>2
      <4>3. CASE c # d
        BY <1>7, <2>1, <4>1, <4>3
      <4> QED
        BY <4>2, <4>3
    <3> QED
      BY <1>1, <1>3, <1>7, <3>1 DEF Announced
  <2>3. \A w \in Workers : Holding(w)'
    BY <1>1, <1>3, <1>7 DEF Holding
  <2>4. ASSUME NEW c \in Cands, NEW j \in Jobs, NEW v \in 1..MaxJobVersion PROVE Accounts(c, j, v)'
    <3>1. CASE c = d
      <4>1. Covered(c, j, v)'
        BY <1>7, <3>1 DEF Covered, Awaited
      <4>2. ASSUME NEW w \in Workers, work'[w].pc \in Scoring, work'[w].event = ProfileReady(c, profiles'[c])
            PROVE  FALSE
        <5>1. queue[ProfileReady(d, profiles[d] + 1)] = "unknown"
          BY <1>1, <1>2, <1>7 DEF Announced
        <5>2. queue[work[w].event] = "taken"
          BY <1>1, <1>3, <4>2 DEF Holding, Scoring, Publishing
        <5> QED
          BY <1>3, <2>1, <3>1, <4>2, <5>1, <5>2
      <4> QED
        BY <4>1, <4>2 DEF Accounts, AtCheckpoint, AtEnd, AtPage, AtProfile
    <3>2. CASE c # d
      <4>1. profiles'[c] = profiles[c] /\ (c \in owed' <=> c \in owed)
        BY <1>7, <2>1, <3>2
      <4>2. Standing(c, j, v)' => Standing(c, j, v)
        BY <1>3, <1>7, <4>1 DEF Standing
      <4>3. (Covered(c, j, v)' <=> Covered(c, j, v)) /\ (Scored(c, j, v)' <=> Scored(c, j, v))
        BY <1>3, <1>7, <4>1 DEF Covered, Scored, Awaited
      <4>4. \A w \in Workers : InBatch(w, c, j, v)' <=> InBatch(w, c, j, v)
        BY <1>3, <4>1 DEF InBatch
      <4>5. Accounts(c, j, v)
        BY <1>1
      <4> QED
        BY <1>3, <1>7, <4>1, <4>2, <4>3, <4>4, <4>5 DEF Accounts, AtCheckpoint, AtEnd, AtPage, AtProfile
    <3> QED
      BY <3>1, <3>2
  <2> QED
    BY <2>2, <2>3, <2>4
<1>8. ASSUME NEW d \in Cands, d \in owed, owed' = owed \ {d},
             queue' = [queue EXCEPT ![ProfileReady(d, profiles[d])] = "waiting"],
             UNCHANGED <<jobs, profiles, overtaken>>
      PROVE  /\ Announced' /\ \A w \in Workers : Holding(w)'
             /\ \A c \in Cands, j \in Jobs, v \in 1..MaxJobVersion : Accounts(c, j, v)'
  <2> DEFINE new == ProfileReady(d, profiles[d])
  <2>1. \A e \in Events : queue'[e] = IF e = new THEN "waiting" ELSE queue[e]
    BY <1>2, <1>8
  <2>2. new \in Events => queue[new] = "unknown"
    <3>1. SUFFICES ASSUME new \in Events PROVE queue[new] = "unknown"
      OBVIOUS
    <3>2. new.type = "profile.ready" /\ new.version = profiles[d]
      BY EventFields
    <3>3. profiles[d] \in 1..MaxProfileVersion
      BY <3>1, <3>2, EventFields
    <3> QED
      BY <1>1, <1>8, <3>3 DEF Announced
  <2>3. \A j \in Jobs, v \in 1..MaxJobVersion :
          queue'[JobChanged(j, v)] = queue[JobChanged(j, v)] /\ queue'[JobExpired(j, v)] = queue[JobExpired(j, v)]
    <3>1. \A j \in Jobs, v \in 1..MaxJobVersion :
            JobChanged(j, v) \in Events \ {new} /\ JobExpired(j, v) \in Events \ {new}
      BY EventsDiffer
    <3> HIDE DEF new
    <3> QED
      BY <2>1, <3>1
  <2>4. Announced'
    <3>1. ASSUME NEW c \in Cands, NEW p \in 1..MaxProfileVersion
          PROVE  (p > profiles[c] \/ (p = profiles[c] /\ c \in owed) => queue[ProfileReady(c, p)] = "unknown")'
      <4>1. p > profiles[c] \/ (p = profiles[c] /\ c \in owed) => queue[ProfileReady(c, p)] = "unknown"
        BY <1>1 DEF Announced
      <4>2. ProfileReady(c, p) \in Events /\ (ProfileReady(c, p) = new <=> c = d /\ p = profiles[d])
        BY EventsDiffer
      <4> HIDE DEF new
      <4>3. CASE c = d
        BY <1>2, <1>8, <2>1, <4>1, <4>2, <4>3
      <4>4. CASE c # d
        BY <1>8, <2>1, <4>1, <4>2, <4>4
      <4> QED
        BY <4>3, <4>4
    <3> QED
      BY <1>1, <1>3, <1>8, <2>3, <3>1 DEF Announced
  <2>5. ASSUME NEW w \in Workers PROVE Holding(w)'
    <3>1. work[w].pc # "idle" => work[w].event \in Events /\ work[w].event # new
      BY <1>1, <1>4, <2>2 DEF Holding
    <3> HIDE DEF new
    <3> QED
      BY <1>1, <1>3, <2>1, <3>1 DEF Holding
  <2>6. ASSUME NEW c \in Cands, NEW j \in Jobs, NEW v \in 1..MaxJobVersion PROVE Accounts(c, j, v)'
    <3>1. Standing(c, j, v)' => Standing(c, j, v)
      BY <1>3, <1>8 DEF Standing
    <3>2. Scored(c, j, v)' <=> Scored(c, j, v)
      BY <1>3, <1>8 DEF Scored
    <3>3. ASSUME Standing(c, j, v), Awaited(c) PROVE Awaited(c)'
      <4>1. ProfileReady(c, profiles[c]) \in Events
        BY <1>2, <3>3, BoundsAssumption, EventsDiffer DEF Standing
      <4>2. CASE c = d
        BY <1>8, <2>1, <4>1, <4>2 DEF Awaited
      <4>3. CASE c # d
        <5>1. ProfileReady(c, profiles[c]) # new
          BY <4>3, EventsDiffer
        <5> HIDE DEF new
        <5> QED
          BY <1>8, <2>1, <3>3, <4>1, <4>3, <5>1 DEF Awaited
      <4> QED
        BY <4>2, <4>3
    <3>4. \A w \in Workers : InBatch(w, c, j, v)' <=> InBatch(w, c, j, v)
      BY <1>3, <1>8 DEF InBatch
    <3>5. Accounts(c, j, v)
      BY <1>1
    <3> QED
      BY <1>3, <1>8, <2>3, <3>1, <3>2, <3>3, <3>4, <3>5
         DEF Accounts, AtCheckpoint, AtEnd, AtPage, AtProfile, Covered
  <2> QED
    BY <2>4, <2>5, <2>6
<1>9. \/ UNCHANGED <<jobs, profiles, owed, queue, overtaken>>
      \/ \E j \in Jobs, v \in 1..MaxJobVersion, e \in Events, active \in BOOLEAN :
           /\ v = jobs[j].version + 1
           /\ jobs' = [jobs EXCEPT ![j] = [version |-> v, active |-> active]]
           /\ queue' = [queue EXCEPT ![e] = "waiting"]
           /\ e = IF active THEN JobChanged(j, v) ELSE JobExpired(j, v)
           /\ overtaken' = overtaken \ {j}
           /\ profiles' = profiles /\ owed' = owed
      \/ \E c \in Cands :
           /\ profiles[c] + 1 \in 1..MaxProfileVersion
           /\ profiles' = [profiles EXCEPT ![c] = profiles[c] + 1]
           /\ owed' = owed \cup {c} /\ c \notin owed
           /\ UNCHANGED <<jobs, queue, overtaken>>
      \/ \E c \in Cands :
           /\ c \in owed /\ owed' = owed \ {c}
           /\ queue' = [queue EXCEPT ![ProfileReady(c, profiles[c])] = "waiting"]
           /\ UNCHANGED <<jobs, profiles, overtaken>>
  BY <1>1, WorldSteps
<1> QED
  BY <1>5, <1>6, <1>7, <1>8, <1>9

\* How a handler comes to the places the accounts are about.
Follows(w) ==
  LET e == work[w].event
      here == work[w].pc
      there == work'[w].pc
  IN
  /\ e \in Events /\ here # "idle" /\ work'[w].event = e
  /\ work'[w].seen \in {work[w].seen, expired}
  /\ there = "affected" =>
       \/ e.type = "job.expired"
       \/ e.type = "job.updated" /\ jobs[e.id].version = e.version /\ ~jobs[e.id].active
  /\ there = "remove" => here = "affected"
  /\ there \in {"page", "store", "checkpoint"} /\ e.type = "job.updated" =>
       ReadJob(w) \/ ReadPage(w) \/ Store(w) \/ Stored(w) \/ Checkpoint(w)
  /\ there \in Scoring /\ e.type = "profile.ready" =>
       ReadProfile(w) \/ Store(w) \/ Stored(w) \/ (here \in Scoring \ {"store"} /\ there # "store")
  /\ there \in Ending /\ e.type = "job.updated" =>
       \/ here \in Ending \cup {"remove"} \/ ReadJob(w)
       \/ ReadPage(w) /\ ListActive(w, work[w].last) = {}

LEMMA HandlerFollows ==
  ASSUME TypeInv, NEW w \in Workers,
         HandlerStep(w) \/ Raise(w), ~Acknowledge(w), ~Retry(w)
  PROVE  Follows(w)
<1>1. work[w].pc # "idle"
  BY DEF HandlerStep, Raise, Start, ReadProfile, ReadJob, ReadPage, Store, Stored, Checkpoint,
         ReadAffected, RemoveJob, ReadCandidate, ReadRanking, Compare, Number, Publish, Finish,
         Acknowledge, Fail, Retry
<1>2. work[w] \in Record /\ Suits(work[w].pc, work[w].event) /\ work[w].event \in Events
  BY <1>1, AtWork DEF Suits
<1>3. work[w].event.type \in {"profile.ready", "job.updated", "job.expired", "reconciliation.requested"}
  BY <1>2, EventFields
<1>4. CASE Start(w)
  <2>1. /\ work'[w].event = work[w].event /\ work'[w].seen = expired
        /\ work'[w].pc = CASE work[w].event.type = "profile.ready" -> "profile"
                           [] work[w].event.type = "job.updated" -> "job"
                           [] work[w].event.type = "job.expired" -> "affected"
                           [] OTHER -> "page"
    BY <1>4, EndSteps
  <2>2. \/ work[w].event.type = "profile.ready" /\ work'[w].pc = "profile"
        \/ work[w].event.type = "job.updated" /\ work'[w].pc = "job"
        \/ work[w].event.type = "job.expired" /\ work'[w].pc = "affected"
        \/ work[w].event.type = "reconciliation.requested" /\ work'[w].pc = "page"
    BY <1>3, <2>1
  <2> QED
    BY <1>1, <1>2, <2>1, <2>2 DEF Follows, Scoring, Ending, Publishing
<1>5. CASE ReadProfile(w) \/ ReadJob(w) \/ ReadAffected(w)
  <2>1. /\ work'[w].event = work[w].event /\ work'[w].seen = work[w].seen
        /\ ReadProfile(w) => work'[w].pc \in {"store", "finish"}
        /\ ReadJob(w) =>
             /\ work'[w].pc \in {"finish", "page", "affected"}
             /\ work'[w].pc = "affected" =>
                  jobs[work[w].event.id].version = work[w].event.version /\ ~jobs[work[w].event.id].active
        /\ ReadAffected(w) => work'[w].pc = "remove"
    BY <1>2, <1>5, ReadSteps
  <2>2. /\ ReadProfile(w) => work[w].event.type = "profile.ready" /\ work[w].pc = "profile"
        /\ ReadJob(w) => work[w].event.type = "job.updated"
        /\ ReadAffected(w) => work[w].event.type \in {"job.updated", "job.expired"} /\ work[w].pc = "affected"
    BY <1>2 DEF Suits, ReadProfile, ReadJob, ReadAffected
  <2> QED
    BY <1>1, <1>2, <1>5, <2>1, <2>2 DEF Follows, Scoring, Ending, Publishing
<1>6. CASE ReadPage(w)
  <2>1. work[w].todo \in SUBSET Cands /\ work[w].event.type \in {"job.updated", "reconciliation.requested"}
    BY <1>2, <1>6 DEF Suits, ReadPage, Record
  <2>2. CASE ListActive(w, work[w].last) = {}
    <3>1. Goes(w, "finish") \/ PublishFor(w, work[w].todo)
      BY <1>6, <2>2 DEF ReadPage
    <3>2. work'[w].event = work[w].event /\ work'[w].seen = work[w].seen
          /\ work'[w].pc \notin {"affected", "remove"}
      BY <1>1, <2>1, <3>1, GoesTo, ListSteps
    <3> QED
      BY <1>1, <1>2, <1>6, <2>1, <2>2, <3>2 DEF Follows
  <2>3. CASE ListActive(w, work[w].last) # {}
    <3>1. PICK batch : batch = ListActive(w, work[w].last) /\ batch # {}
      BY <2>3
    <3>2. Moves(w, PageRecord(w, batch)) /\ PageRecord(w, batch).pc \in {"store", "candidate"}
          /\ PageRecord(w, batch).event = work[w].event
          /\ (work[w].event.type = "job.updated" => PageRecord(w, batch).pc = "store")
      BY <1>6, <3>1, PageMoves
    <3>3. PageRecord(w, batch).seen = work[w].seen
      BY <1>2 DEF PageRecord, Record
    <3>4. work'[w].event = work[w].event /\ work'[w].seen = work[w].seen
          /\ work'[w].pc \notin {"affected", "remove"}
          /\ (work[w].event.type = "job.updated" => work'[w].pc = "store")
      <4>1. work'[w] = PageRecord(w, batch)
        BY <3>2, MovesTo
      <4> QED
        BY <3>2, <3>3, <4>1
    <3>5. ~(work'[w].pc \in Ending /\ work[w].event.type = "job.updated")
      BY <3>4 DEF Ending, Publishing
    <3> QED
      BY <1>1, <1>2, <1>6, <2>1, <3>4, <3>5 DEF Follows
  <2> QED
    BY <2>2, <2>3
<1>7. CASE Store(w) \/ RemoveJob(w)
  <2>1. /\ work'[w].event = work[w].event /\ work'[w].seen = work[w].seen
        /\ Store(w) => work'[w].pc = "store"
        /\ RemoveJob(w) => work'[w].pc \in {"candidate", "finish"}
    BY <1>7, StoreSteps
  <2>2. RemoveJob(w) => work[w].event.type \in {"job.updated", "job.expired"}
    BY <1>2 DEF Suits, RemoveJob
  <2> QED
    BY <1>1, <1>2, <1>7, <2>1, <2>2 DEF Follows, Ending, Publishing, RemoveJob
<1>8. CASE Stored(w)
  <2>1. CASE work[w].event.type = "profile.ready"
    <3>1. {work[w].event.id} \in SUBSET Cands /\ PublishFor(w, {work[w].event.id})
      BY <1>2, <1>8, <2>1, EventFields DEF Stored
    <3>2. work'[w].event = work[w].event /\ work'[w].seen = work[w].seen
          /\ work'[w].pc \notin {"affected", "remove"}
      BY <1>1, <2>1, <3>1, ListSteps
    <3> QED
      BY <1>1, <1>2, <1>8, <2>1, <3>2 DEF Follows
  <2>2. CASE work[w].event.type # "profile.ready"
    <3>1. work'[w].event = work[w].event /\ work'[w].seen = work[w].seen /\ work'[w].pc = "checkpoint"
      BY <1>8, <2>2, GoesTo DEF Stored
    <3> QED
      BY <1>1, <1>2, <1>8, <3>1 DEF Follows, Ending, Publishing
  <2> QED
    BY <2>1, <2>2
<1>9. CASE Checkpoint(w) \/ Finish(w) \/ Fail(w) \/ Raise(w)
  <2>1. /\ work'[w].event = work[w].event /\ work'[w].seen = work[w].seen
        /\ Checkpoint(w) => work'[w].pc = "page"
        /\ Finish(w) => work[w].pc = "finish" /\ work'[w].pc = "acknowledge"
        /\ Fail(w) => work'[w].pc = "retry"
        /\ Raise(w) => work'[w].pc = "fail"
    BY <1>9, GoesTo DEF Checkpoint, Finish, Fail, Raise
  <2> QED
    BY <1>1, <1>2, <1>9, <2>1 DEF Follows, Scoring, Ending, Publishing
<1>10. CASE ReadCandidate(w) \/ ReadRanking(w) \/ Compare(w) \/ Number(w) \/ Publish(w)
  <2>1. /\ work[w].pc \in Publishing
        /\ work'[w].event = work[w].event /\ work'[w].seen = work[w].seen
        /\ work'[w].pc \in Publishing \cup {"finish", "fail"}
             \cup (IF work[w].event.type = "reconciliation.requested" THEN {"checkpoint"} ELSE {})
    BY <1>10, PublishSteps
  <2> QED
    BY <1>1, <1>2, <2>1 DEF Follows, Scoring, Ending, Publishing
<1> QED
  BY <1>4, <1>5, <1>6, <1>7, <1>8, <1>9, <1>10 DEF HandlerStep

\* What these steps do to the tables.
LEMMA HandlerTables ==
  ASSUME TypeInv, NEW w \in Workers,
         HandlerStep(w) \/ Raise(w), ~Acknowledge(w), ~Retry(w)
  PROVE  /\ UNCHANGED <<jobs, profiles, owed, expired, queue>>
         /\ RemoveJob(w) \/ (scores \subseteq scores' /\ overtaken' = overtaken)
         /\ \A e \in Events :
              \/ runs'[e].checkpoint \in {runs[e].checkpoint, 0}
              \/ Checkpoint(w) /\ e = work[w].event /\ runs'[e].checkpoint = work[w].last
<1>1. UNCHANGED <<jobs, profiles, owed, expired, queue>>
  BY DEF HandlerStep, Raise, Start, ReadProfile, ReadJob, ReadPage, Store, Stored, Checkpoint,
         ReadAffected, RemoveJob, ReadCandidate, ReadRanking, Compare, Number, Publish, Finish,
         Fail, world
<1>2. RemoveJob(w) \/ (scores \subseteq scores' /\ overtaken' = overtaken)
  BY DEF HandlerStep, Raise, Start, ReadProfile, ReadJob, ReadPage, Store, Stored, Checkpoint,
         ReadAffected, ReadCandidate, ReadRanking, Compare, Number, Publish, Finish,
         Fail, counters
<1>3. ASSUME NEW e \in Events
      PROVE  \/ runs'[e].checkpoint \in {runs[e].checkpoint, 0}
             \/ Checkpoint(w) /\ e = work[w].event /\ runs'[e].checkpoint = work[w].last
  <2>1. runs \in [Events -> [state : {"none", "running", "ready", "failed"}, checkpoint : Cands \cup {0}]]
    BY DEF TypeInv, TypeOK
  <2>2. CASE runs' = runs
    BY <2>2
  <2>3. ASSUME NEW d, NEW r, runs' = [runs EXCEPT ![d] = r], r.checkpoint \in {runs[d].checkpoint, 0}
        PROVE  runs'[e].checkpoint \in {runs[e].checkpoint, 0}
    BY <2>1, <2>3
  <2>4. CASE Start(w) \/ Fail(w)
    <3> DEFINE d == work[w].event
    <3>1. d \in Events
      BY <2>4, AtWork DEF Start, Fail, Suits
    <3>2. PICK s : runs' = [runs EXCEPT ![d] = [runs[d] EXCEPT !.state = s]]
      BY <2>4 DEF Start, Fail
    <3> HIDE DEF d
    <3>3. runs[d] \in [state : {"none", "running", "ready", "failed"}, checkpoint : Cands \cup {0}]
      BY <2>1, <3>1
    <3>4. [runs[d] EXCEPT !.state = s].checkpoint = runs[d].checkpoint
      BY <3>3
    <3> QED
      BY <2>3, <3>2, <3>4
  <2>5. CASE Finish(w)
    BY <2>3, <2>5 DEF Finish
  <2>6. CASE Checkpoint(w)
    <3> DEFINE d == work[w].event
    <3>1. d \in Events
      BY <2>6, AtWork DEF Checkpoint, Suits
    <3>2. runs' = [runs EXCEPT ![d] = [runs[d] EXCEPT !.checkpoint = work[w].last]]
      BY <2>6 DEF Checkpoint
    <3> HIDE DEF d
    <3>3. runs[d] \in [state : {"none", "running", "ready", "failed"}, checkpoint : Cands \cup {0}]
      BY <2>1, <3>1
    <3>4. [runs[d] EXCEPT !.checkpoint = work[w].last].checkpoint = work[w].last
      BY <3>3
    <3>5. runs'[e] = IF e = d THEN [runs[d] EXCEPT !.checkpoint = work[w].last] ELSE runs[e]
      BY <2>1, <3>1, <3>2
    <3> QED
      BY <2>6, <3>4, <3>5 DEF d
  <2>7. runs' = runs \/ Start(w) \/ Fail(w) \/ Finish(w) \/ Checkpoint(w)
    BY DEF HandlerStep, Raise, ReadProfile, ReadJob, ReadPage, Store, Stored,
           ReadAffected, RemoveJob, ReadCandidate, ReadRanking, Compare, Number, Publish
  <2> QED
    BY <2>2, <2>4, <2>5, <2>6, <2>7
<1> QED
  BY <1>1, <1>2, <1>3

\* A batch leaves out no candidate it has passed.
LEMMA ListingHasNoGap ==
  ASSUME TypeInv, NEW w \in Workers, NEW after \in Cands \cup {0}, NEW c \in Cands,
         NEW batch, batch = ListActive(w, after), batch # {},
         c > after, profiles[c] > 0, c \notin work[w].seen, c <= Max(batch)
  PROVE  c \in batch
<1> DEFINE all == {x \in Cands : x > after /\ profiles[x] > 0 /\ x \notin work[w].seen}
           m == Max(batch)
<1>1. batch = {x \in all : Cardinality({d \in all : d < x}) < BatchSize}
  BY DEF ListActive
<1>2. batch \subseteq Cands
  BY <1>1
<1>3. m \in batch
  BY <1>2, ExtremesOfCands
<1>4. IsFiniteSet({d \in all : d < m}) /\ {d \in all : d < c} \subseteq {d \in all : d < m}
  <2>1. IsFiniteSet({d \in all : d < m})
    <3>1. {d \in all : d < m} \subseteq Cands /\ IsFiniteSet(Cands)
      BY IdsAssumption
    <3> QED
      BY <3>1, FS_Subset
  <2>2. \A d \in all : d < c => d < m
    <3>1. Cands \subseteq Nat /\ c \in Nat /\ m \in Nat /\ c <= m
      BY <1>2, <1>3, IdsAssumption
    <3> HIDE DEF m
    <3> QED
      BY <3>1
  <2> HIDE DEF m, all
  <2> QED
    BY <2>1, <2>2
<1>5. /\ Cardinality({d \in all : d < c}) \in Nat /\ Cardinality({d \in all : d < m}) \in Nat
      /\ Cardinality({d \in all : d < c}) <= Cardinality({d \in all : d < m})
  <2>1. IsFiniteSet({d \in all : d < c})
    BY <1>4, FS_Subset
  <2> QED
    BY <1>4, <2>1, FS_Subset, FS_CardinalityType
<1>6. c \in all /\ Cardinality({d \in all : d < m}) < BatchSize
  BY <1>1, <1>3
<1> HIDE DEF all, m
<1> QED
  BY <1>1, <1>5, <1>6, BoundsAssumption

\* A closing that overtakes nothing leaves the scores of the versions that stand.
LEMMA RemovalKeeps ==
  ASSUME CoverInv, NEW w \in Workers, RemoveJob(w), NEW c \in Cands, NEW j \in Jobs,
         NEW v \in 1..MaxJobVersion, Standing(c, j, v)'
  PROVE  /\ queue[JobChanged(j, v)] = "waiting" \/ (Scored(c, j, v) => Scored(c, j, v)')
         /\ Standing(c, j, v) /\ runs' = runs
<1> DEFINE e == work[w].event
<1>1. TypeInv /\ Announced /\ Holding(w)
  BY DEF CoverInv
<1>2. /\ e \in Events /\ e.type = "job.expired" /\ queue[e] = "taken"
  BY <1>1, AtWork DEF RemoveJob, Holding, Suits
<1>3. /\ scores' = {s \in scores : s[3] # e.id} /\ overtaken \subseteq overtaken'
      /\ Reopened(e) => e.id \in overtaken'
      /\ UNCHANGED <<jobs, profiles, owed, expired, queue, runs>>
  BY DEF RemoveJob, world
<1>4. Standing(c, j, v)
  BY <1>3 DEF Standing
<1>5. CASE e.id # j
  BY <1>3, <1>4, <1>5 DEF Scored
<1>6. CASE e.id = j
  <2>1. e = JobExpired(j, e.version) /\ e.version \in 1..MaxJobVersion
    BY <1>2, <1>6, EventFields
  <2>2. jobs[j].version = v /\ jobs[j].active /\ j \notin overtaken'
    BY <1>3 DEF Standing
  <2>3. ~(e.version > jobs[j].version \/ (e.version = jobs[j].version /\ jobs[j].active))
    <3>1. queue[JobExpired(j, e.version)] = "taken" /\ e.version \in 1..MaxJobVersion
      BY <1>2, <2>1
    <3> HIDE DEF e
    <3> QED
      BY <1>1, <3>1 DEF Announced
  <2>4. v > e.version
    <3>1. e.version \in Int /\ v \in Int
      BY <2>1
    <3> QED
      BY <2>2, <2>3, <3>1
  <2>5. ~Reopened(e)
    BY <1>3, <1>6, <2>2
  <2>6. queue[JobChanged(j, v)] = "waiting"
    BY <1>6, <2>2, <2>4, <2>5 DEF Reopened
  <2> QED
    BY <1>3, <1>4, <2>6
<1> QED
  BY <1>5, <1>6

LEMMA HandlerKeeps ==
  ASSUME Solo, CoverInv, NEW w \in Workers,
         HandlerStep(w) \/ Raise(w), ~Acknowledge(w), ~Retry(w)
  PROVE  Announced' /\ \A u \in Workers : Holding(u)'
<1>1. TypeInv /\ Announced /\ Holding(w) /\ Follows(w)
  BY HandlerFollows DEF CoverInv
<1>2. /\ UNCHANGED <<jobs, profiles, owed, expired, queue>>
      /\ \A e \in Events :
           \/ runs'[e].checkpoint \in {runs[e].checkpoint, 0}
           \/ Checkpoint(w) /\ e = work[w].event /\ runs'[e].checkpoint = work[w].last
  BY <1>1, HandlerTables
<1>3. queue[work[w].event] = "taken" /\ work[w].event \in Events /\ work'[w].event = work[w].event
  BY <1>1 DEF Follows, Holding
<1>4. Announced'
  <2>1. ASSUME NEW j \in Jobs, NEW v \in 1..MaxJobVersion,
               queue'[JobChanged(j, v)] \in {"unknown", "waiting"}
        PROVE  runs'[JobChanged(j, v)].checkpoint = 0
    <3>1. JobChanged(j, v) \in Events /\ JobChanged(j, v) # work[w].event
      BY <1>2, <1>3, <2>1, EventsDiffer
    <3>2. runs[JobChanged(j, v)].checkpoint = 0
      BY <1>1, <1>2, <2>1 DEF Announced
    <3> QED
      BY <1>2, <3>1, <3>2
  <2> QED
    BY <1>1, <1>2, <2>1 DEF Announced
<1>5. Holding(w)'
  <2>1. work'[w].seen \subseteq expired'
    BY <1>1, <1>2 DEF Follows, Holding
  <2>2. queue'[work'[w].event] = "taken"
    BY <1>2, <1>3
  <2>3. work'[w].pc \in {"affected", "remove"} => work'[w].event.type = "job.expired"
    <3> DEFINE e == work[w].event
    <3>1. ~(e.type = "job.updated" /\ jobs[e.id].version = e.version /\ ~jobs[e.id].active)
      <4>1. SUFFICES ASSUME e.type = "job.updated", jobs[e.id].version = e.version, ~jobs[e.id].active
                     PROVE  FALSE
        OBVIOUS
      <4>2. e = JobChanged(e.id, e.version) /\ e.id \in Jobs /\ e.version \in 1..MaxJobVersion
        BY <1>3, <4>1, EventFields
      <4>3. queue[JobChanged(e.id, e.version)] = "unknown"
        BY <1>1, <4>1, <4>2 DEF Announced
      <4> QED
        BY <1>3, <4>2, <4>3
    <3>2. CASE work'[w].pc = "affected"
      BY <1>1, <1>3, <3>1, <3>2 DEF Follows
    <3>3. CASE work'[w].pc = "remove"
      BY <1>1, <1>3, <3>3 DEF Follows, Holding
    <3> QED
      BY <3>2, <3>3
  <2> QED
    BY <2>1, <2>2, <2>3 DEF Holding
<1> QED
  BY <1>4, <1>5 DEF Solo

LEMMA NotAnEvent == NoEvent \notin Events
<1>1. NoEvent.type = "none"
  BY DEF NoEvent
<1> QED
  BY <1>1, EventFields

\* An empty batch leaves nobody behind.
LEMMA EmptyListing ==
  ASSUME TypeInv, NEW w \in Workers, NEW after \in Cands \cup {0}, NEW c \in Cands,
         ListActive(w, after) = {}, c > after, profiles[c] > 0
  PROVE  c \in work[w].seen
<1> DEFINE all == {x \in Cands : x > after /\ profiles[x] > 0 /\ x \notin work[w].seen}
           m == Min(all)
<1>1. SUFFICES ASSUME c \notin work[w].seen PROVE FALSE
  OBVIOUS
<1>2. all \subseteq Cands /\ all # {}
  BY <1>1
<1>3. m \in all /\ \A y \in all : m <= y
  BY <1>2, ExtremesOfCands
<1>4. {d \in all : d < m} = {}
  <2>1. \A d \in all : ~(d < m)
    <3>1. all \subseteq Nat
      BY <1>2, IdsAssumption
    <3> HIDE DEF all, m
    <3> QED
      BY <1>3, <3>1
  <2> HIDE DEF all, m
  <2> QED
    BY <2>1
<1>5. Cardinality({d \in all : d < m}) = 0
  BY <1>4, FS_EmptySet
<1>6. m \in ListActive(w, after)
  <2>1. ListActive(w, after) = {x \in all : Cardinality({d \in all : d < x}) < BatchSize}
    BY DEF ListActive
  <2> HIDE DEF all, m
  <2> QED
    BY <1>3, <1>5, <2>1, BoundsAssumption
<1> QED
  BY <1>6

LEMMA NextMoves ==
  ASSUME TypeInv, NEW w \in Workers, NextCandidate(w)
  PROVE  /\ work'[w].event = work[w].event /\ work'[w].last = work[w].last
         /\ work'[w].todo = work[w].todo \ {Min(work[w].todo)}
         /\ work'[w].todo # {} => work'[w].pc = "candidate"
         /\ work'[w].todo = {} =>
              work'[w].pc = IF work[w].event.type = "reconciliation.requested" THEN "checkpoint" ELSE "finish"
<1> DEFINE rest == work[w].todo \ {Min(work[w].todo)}
           place == CASE rest # {} -> "candidate"
                      [] rest = {} /\ work[w].event.type = "reconciliation.requested" -> "checkpoint"
                      [] OTHER -> "finish"
<1>1. work[w] \in Record
  BY DEF TypeInv, TypeOK, Record
<1>2. work'[w] = [work[w] EXCEPT !.todo = rest, !.plan = Idle.plan, !.number = 0, !.pc = place]
  BY MovesTo DEF NextCandidate
<1>3. place = IF rest # {} THEN "candidate"
              ELSE IF work[w].event.type = "reconciliation.requested" THEN "checkpoint" ELSE "finish"
  OBVIOUS
<1> HIDE DEF rest, place
<1>4. work'[w].event = work[w].event /\ work'[w].last = work[w].last
      /\ work'[w].todo = rest /\ work'[w].pc = place
  BY <1>1, <1>2 DEF Record
<1> QED
  BY <1>3, <1>4 DEF rest

LEMMA PublishForMoves ==
  ASSUME TypeInv, NEW w \in Workers, NEW cs, PublishFor(w, cs)
  PROVE  /\ work'[w].event = work[w].event /\ work'[w].todo = cs
         /\ work'[w].pc = IF cs = {} THEN "finish" ELSE "candidate"
<1> DEFINE place == IF cs = {} THEN "finish" ELSE "candidate"
<1>1. work[w] \in Record
  BY DEF TypeInv, TypeOK, Record
<1>2. work'[w] = [work[w] EXCEPT !.todo = cs, !.pc = place]
  BY MovesTo DEF PublishFor
<1> HIDE DEF place
<1>3. work'[w].event = work[w].event /\ work'[w].todo = cs /\ work'[w].pc = place
  BY <1>1, <1>2 DEF Record
<1> QED
  BY <1>3 DEF place

\* What the reading of a batch leaves of it.
LEMMA PageTakes ==
  ASSUME TypeInv, NEW w \in Workers, ReadPage(w)
  PROVE  /\ work[w].pc = "page" /\ work'[w].event = work[w].event
         /\ \A c \in Cands :
              c > work[w].last /\ profiles[c] > 0 /\ c \notin work[w].seen =>
                \/ c \in work'[w].todo /\ work'[w].pc \in {"store", "candidate"}
                \/ c > work'[w].last /\ work'[w].pc \in {"store", "candidate"}
         /\ work[w].event.type = "job.updated" /\ work[w].todo # {} =>
              work[w].todo \subseteq work'[w].todo /\ work'[w].pc \in {"store", "candidate"}
         /\ work'[w].pc = "candidate" /\ work[w].event.type = "job.updated" => ListActive(w, work[w].last) = {}
         /\ work'[w].pc = "finish" => ListActive(w, work[w].last) = {}
         /\ work[w].event.type # "job.updated" => work'[w].pc # "store"
         /\ work'[w].pc \in {"store", "candidate", "finish"}
         /\ work'[w].pc = "store" =>
              work[w].event.type = "job.updated" /\ \A s \in work'[w].found : s[1] \in work'[w].todo
<1>1. work[w].pc = "page" /\ work[w] \in Record /\ work[w].last \in Cands \cup {0}
  BY AtWork DEF ReadPage, Record
<1>2. PICK batch : batch = ListActive(w, work[w].last)
  OBVIOUS
<1>3. CASE batch = {}
  <2>1. \A c \in Cands : ~(c > work[w].last /\ profiles[c] > 0 /\ c \notin work[w].seen)
    BY <1>1, <1>2, <1>3, EmptyListing
  <2>2. CASE work[w].event.type = "job.updated"
    <3>1. PublishFor(w, work[w].todo)
      BY <1>2, <1>3, <2>2 DEF ReadPage
    <3>2. work'[w].event = work[w].event /\ work'[w].todo = work[w].todo
          /\ work'[w].pc = IF work[w].todo = {} THEN "finish" ELSE "candidate"
      BY <3>1, PublishForMoves
    <3> QED
      BY <1>1, <1>2, <1>3, <2>1, <2>2, <3>2
  <2>3. CASE work[w].event.type # "job.updated"
    <3>1. work'[w].event = work[w].event /\ work'[w].pc = "finish"
      BY <1>2, <1>3, <2>3, GoesTo DEF ReadPage
    <3> QED
      BY <1>1, <1>2, <1>3, <2>1, <2>3, <3>1
  <2> QED
    BY <2>2, <2>3
<1>4. CASE batch # {}
  <2> DEFINE r == PageRecord(w, batch)
             found == {<<c, profiles[c], work[w].event.id, work[w].event.version>> : c \in batch}
  <2>1. /\ work'[w] = r /\ r.event = work[w].event /\ r.last = Max(batch)
        /\ work[w].event.type = "job.updated" => r.pc = "store" /\ r.found = found
        /\ work[w].event.type # "job.updated" => r.pc = "candidate"
    BY <1>2, <1>4, PageMoves, MovesTo
  <2>2. r.todo = IF work[w].event.type = "job.updated" THEN work[w].todo \cup batch ELSE batch
    BY <1>1 DEF PageRecord, Record
  <2>3. \A s \in found : s[1] \in batch
    OBVIOUS
  <2>4. ASSUME NEW c \in Cands, c > work[w].last, profiles[c] > 0, c \notin work[w].seen
        PROVE  c \in batch \/ c > Max(batch)
    <3>1. Max(batch) \in Cands
      <4>1. batch \subseteq Cands
        BY <1>2 DEF ListActive
      <4> QED
        BY <1>4, <4>1, ExtremesOfCands
    <3>2. CASE c <= Max(batch)
      BY <1>1, <1>2, <1>4, <2>4, <3>2, ListingHasNoGap
    <3>3. CASE ~(c <= Max(batch))
      <4>1. \A x, y \in Cands : ~(x <= y) => x > y
        BY IdsAssumption
      <4> QED
        BY <3>1, <3>3, <4>1
    <3> QED
      BY <3>2, <3>3
  <2> HIDE DEF r, found
  <2> QED
    BY <1>1, <1>2, <1>4, <2>1, <2>2, <2>3, <2>4
<1> QED
  BY <1>3, <1>4

\* The steps of publish_for, one by one.
LEMMA PublishMoves ==
  ASSUME TypeInv, NEW w \in Workers, NEW c, c = Min(work[w].todo)
  PROVE  /\ ReadCandidate(w) =>
              \/ NextCandidate(w) /\ (profiles[c] = 0 \/ c \in work[w].seen)
              \/ /\ work'[w].event = work[w].event /\ work'[w].todo = work[w].todo
                 /\ work'[w].last = work[w].last /\ work'[w].pc = "rank"
                 /\ profiles[c] # 0 /\ work'[w].plan.profile = profiles[c]
         /\ ReadRanking(w) =>
              /\ work'[w].event = work[w].event /\ work'[w].todo = work[w].todo
              /\ work'[w].last = work[w].last /\ work'[w].pc = "compare"
              /\ work'[w].plan = [profile |-> work[w].plan.profile,
                                  ranking |-> Rank(c, work[w].plan.profile)]
         /\ Compare(w) =>
              \/ NextCandidate(w) /\ revisions[c] # <<>> /\ Latest(c) = work[w].plan
              \/ /\ work'[w].event = work[w].event /\ work'[w].todo = work[w].todo
                 /\ work'[w].last = work[w].last /\ work'[w].pc = "number"
                 /\ work'[w].plan = work[w].plan
         /\ Number(w) =>
              /\ work'[w].event = work[w].event /\ work'[w].todo = work[w].todo
              /\ work'[w].last = work[w].last /\ work'[w].pc = "publish"
              /\ work'[w].plan = work[w].plan
<1>1. work[w] \in Record
  BY DEF TypeInv, TypeOK, Record
<1>2. ASSUME ReadCandidate(w), ~(NextCandidate(w) /\ (profiles[c] = 0 \/ c \in work[w].seen))
      PROVE  /\ work'[w].event = work[w].event /\ work'[w].todo = work[w].todo
             /\ work'[w].last = work[w].last /\ work'[w].pc = "rank"
             /\ profiles[c] # 0 /\ work'[w].plan.profile = profiles[c]
  <2> DEFINE plan == [Idle.plan EXCEPT !.profile = profiles[c]]
  <2>1. work'[w] = [work[w] EXCEPT !.pc = "rank", !.plan = plan] /\ profiles[c] # 0
    BY <1>2, MovesTo DEF ReadCandidate
  <2>2. plan.profile = profiles[c]
    BY DEF Idle
  <2> HIDE DEF plan
  <2>3. /\ work'[w].event = work[w].event /\ work'[w].todo = work[w].todo
        /\ work'[w].last = work[w].last /\ work'[w].pc = "rank" /\ work'[w].plan = plan
    BY <1>1, <2>1 DEF Record
  <2> QED
    BY <2>1, <2>2, <2>3
<1>3. ASSUME ReadRanking(w)
      PROVE  /\ work'[w].event = work[w].event /\ work'[w].todo = work[w].todo
             /\ work'[w].last = work[w].last /\ work'[w].pc = "compare"
             /\ work'[w].plan = [profile |-> work[w].plan.profile,
                                 ranking |-> Rank(c, work[w].plan.profile)]
  <2> DEFINE plan == [profile |-> work[w].plan.profile, ranking |-> Rank(c, work[w].plan.profile)]
  <2>1. work'[w] = [work[w] EXCEPT !.pc = "compare", !.plan = plan]
    BY <1>3, MovesTo DEF ReadRanking
  <2> HIDE DEF plan
  <2>2. /\ work'[w].event = work[w].event /\ work'[w].todo = work[w].todo
        /\ work'[w].last = work[w].last /\ work'[w].pc = "compare" /\ work'[w].plan = plan
    BY <1>1, <2>1 DEF Record
  <2> QED
    BY <2>2 DEF plan
<1>4. ASSUME Compare(w), ~(NextCandidate(w) /\ revisions[c] # <<>> /\ Latest(c) = work[w].plan)
      PROVE  /\ work'[w].event = work[w].event /\ work'[w].todo = work[w].todo
             /\ work'[w].last = work[w].last /\ work'[w].pc = "number" /\ work'[w].plan = work[w].plan
  <2>1. Goes(w, "number")
    BY <1>4 DEF Compare
  <2> QED
    BY <2>1, GoesTo
<1>5. ASSUME Number(w)
      PROVE  /\ work'[w].event = work[w].event /\ work'[w].todo = work[w].todo
             /\ work'[w].last = work[w].last /\ work'[w].pc = "publish" /\ work'[w].plan = work[w].plan
  <2> DEFINE n == Len(revisions[c]) + 1
  <2>1. work'[w] = [work[w] EXCEPT !.pc = "publish", !.number = n]
    BY <1>5, MovesTo DEF Number
  <2> HIDE DEF n
  <2> QED
    BY <1>1, <2>1 DEF Record
<1> QED
  BY <1>2, <1>3, <1>4, <1>5

\* A batch a job event has read is stored before its checkpoint passes it.
LEMMA PageAccounts ==
  ASSUME CoverInv, NEW w \in Workers,
         HandlerStep(w) \/ Raise(w), ~Acknowledge(w), ~Retry(w), ~RemoveJob(w),
         NEW c \in Cands, NEW j \in Jobs, NEW v \in 1..MaxJobVersion
  PROVE  AtPage(w, c, j, v)'
<1> DEFINE e == work[w].event
<1>1. TypeInv /\ Holding(w) /\ Follows(w) /\ Accounts(c, j, v) /\ AtPage(w, c, j, v)
  BY HandlerFollows DEF CoverInv, Accounts
<1>2. UNCHANGED <<jobs, profiles, owed, expired, queue>> /\ scores \subseteq scores' /\ overtaken' = overtaken
  BY <1>1, HandlerTables
<1>3. work[w] \in Record /\ e \in Events /\ work'[w].event = e /\ e.type = e.type
  BY <1>1, AtWork DEF Follows
<1>4. SUFFICES ASSUME work'[w].pc \in {"page", "store", "checkpoint"}, e = JobChanged(j, v),
                      Standing(c, j, v), c <= work'[w].last
               PROVE  Covered(c, j, v) \/ Scored(c, j, v)' \/ InBatch(w, c, j, v)'
  <2>1. Standing(c, j, v)' => Standing(c, j, v)
    BY <1>2 DEF Standing
  <2>2. Covered(c, j, v) => Covered(c, j, v)'
    BY <1>2 DEF Covered, Scored, Awaited
  <2>3. Scored(c, j, v)' => Covered(c, j, v)'
    BY DEF Covered
  <2> QED
    BY <1>3, <1>4, <2>1, <2>2, <2>3 DEF AtPage
<1>5. e.type = "job.updated" /\ e.id = j /\ e.version = v
  BY <1>4, EventFields
<1>6. ReadJob(w) \/ ReadPage(w) \/ Store(w) \/ Stored(w) \/ Checkpoint(w)
  BY <1>1, <1>4, <1>5 DEF Follows
<1>7. CASE ReadJob(w)
  <2>1. work'[w].last = runs[e].checkpoint
    BY <1>1, <1>3, <1>7, ReadSteps
  <2> QED
    BY <1>1, <1>4, <2>1 DEF Accounts, AtCheckpoint
<1>8. CASE ReadPage(w)
  <2>1. work[w].todo \in SUBSET Cands /\ work[w].pc = "page"
    BY <1>3, <1>8 DEF ReadPage, Record
  <2>2. CASE ListActive(w, work[w].last) = {}
    <3>1. PublishFor(w, work[w].todo)
      BY <1>5, <1>8, <2>2 DEF ReadPage
    <3>2. work'[w].pc \in {"candidate", "finish"}
      BY <1>1, <1>5, <2>1, <3>1, ListSteps
    <3> QED
      BY <1>4, <3>2
  <2>3. CASE ListActive(w, work[w].last) # {}
    <3>1. PICK batch : batch = ListActive(w, work[w].last) /\ batch # {}
      BY <2>3
    <3>2. /\ work'[w] = PageRecord(w, batch) /\ PageRecord(w, batch).last = Max(batch)
          /\ PageRecord(w, batch).pc = "store"
          /\ PageRecord(w, batch).found = {<<d, profiles[d], e.id, e.version>> : d \in batch}
      BY <1>1, <1>5, <1>8, <3>1, PageMoves, MovesTo
    <3>3. CASE c <= work[w].last
      <4>1. Covered(c, j, v) \/ InBatch(w, c, j, v)
        BY <1>1, <1>4, <2>1, <3>3 DEF AtPage
      <4> QED
        BY <2>1, <4>1 DEF InBatch
    <3>4. CASE ~(c <= work[w].last)
      <4>1. c > work[w].last /\ work[w].last \in Cands \cup {0}
        BY <1>3, <3>4, IdsAssumption DEF Record
      <4>2. profiles[c] > 0 /\ c \notin work[w].seen
        BY <1>1, <1>4 DEF Standing, Holding
      <4>3. c <= Max(batch)
        BY <1>4, <3>2
      <4>4. c \in batch
        BY <1>1, <3>1, <4>1, <4>2, <4>3, ListingHasNoGap
      <4> QED
        BY <1>2, <1>5, <3>2, <4>4 DEF InBatch
    <3> QED
      BY <3>3, <3>4
  <2> QED
    BY <2>2, <2>3
<1>9. CASE Store(w)
  <2>1. PICK s \in work[w].found : work'[w].found = work[w].found \ {s} /\ scores' = scores \cup {s}
    BY <1>1, <1>9, StoreSteps
  <2>2. work'[w].last = work[w].last /\ work'[w].pc = "store" /\ work[w].pc = "store"
    BY <1>1, <1>9, StoreSteps DEF Store
  <2>3. Covered(c, j, v) \/ InBatch(w, c, j, v)
    BY <1>1, <1>4, <2>2 DEF AtPage
  <2> QED
    BY <1>2, <2>1, <2>2, <2>3 DEF InBatch, Scored
<1>10. CASE Stored(w) \/ Checkpoint(w)
  <2>1. work'[w].last = work[w].last /\ work[w].pc \in {"store", "checkpoint"}
        /\ (work[w].pc = "store" => work[w].found = {})
    <3>1. Goes(w, "checkpoint") \/ Goes(w, "page")
      BY <1>5, <1>10 DEF Stored, Checkpoint
    <3> QED
      BY <1>1, <1>10, <3>1, GoesTo DEF Stored, Checkpoint
  <2>2. Covered(c, j, v) \/ InBatch(w, c, j, v)
    BY <1>1, <1>4, <2>1 DEF AtPage
  <2> QED
    BY <2>1, <2>2 DEF InBatch
<1> QED
  BY <1>6, <1>7, <1>8, <1>9, <1>10

\* A profile event scores every version that stands before it ends.
LEMMA ProfileAccounts ==
  ASSUME CoverInv, NEW w \in Workers,
         HandlerStep(w) \/ Raise(w), ~Acknowledge(w), ~Retry(w), ~RemoveJob(w),
         NEW c \in Cands, NEW j \in Jobs, NEW v \in 1..MaxJobVersion
  PROVE  AtProfile(w, c, j, v)'
<1> DEFINE e == work[w].event
<1>1. TypeInv /\ Holding(w) /\ Follows(w) /\ AtProfile(w, c, j, v)
  BY HandlerFollows DEF CoverInv, Accounts
<1>2. UNCHANGED <<jobs, profiles, owed, expired, queue>> /\ scores \subseteq scores' /\ overtaken' = overtaken
  BY <1>1, HandlerTables
<1>3. work[w] \in Record /\ e \in Events /\ work'[w].event = e
  BY <1>1, AtWork DEF Follows
<1>4. SUFFICES ASSUME work'[w].pc \in Scoring, e = ProfileReady(c, profiles[c]), Standing(c, j, v),
                      queue[JobChanged(j, v)] # "waiting"
               PROVE  Scored(c, j, v) \/ Scored(c, j, v)' \/ InBatch(w, c, j, v)'
  <2>1. Standing(c, j, v)' => Standing(c, j, v)
    BY <1>2 DEF Standing
  <2>2. Scored(c, j, v) => Scored(c, j, v)'
    BY <1>2 DEF Scored
  <2> QED
    BY <1>2, <1>3, <1>4, <2>1, <2>2 DEF AtProfile
<1>5. e.type = "profile.ready" /\ e.id = c /\ e.version = profiles[c]
  BY <1>4, EventFields
<1>6. ReadProfile(w) \/ Store(w) \/ Stored(w) \/ (work[w].pc \in Scoring \ {"store"})
  BY <1>1, <1>4, <1>5 DEF Follows
<1>7. CASE ReadProfile(w)
  <2>1. c \notin work[w].seen
    BY <1>1, <1>4 DEF Standing, Holding
  <2>2. work'[w].pc = "store" /\ work'[w].found = {<<c, profiles[c], x[1], x[2]>> : x \in ActiveJobs}
    BY <1>1, <1>3, <1>5, <1>7, <2>1, ReadSteps
  <2>3. <<j, v>> \in ActiveJobs
    <3>1. jobs[j].version = v /\ jobs[j].active
      BY <1>4 DEF Standing
    <3> QED
      BY <3>1 DEF ActiveJobs
  <2>4. <<c, profiles[c], j, v>> \in work'[w].found
    BY <2>2, <2>3
  <2> QED
    BY <1>2, <2>2, <2>4 DEF InBatch
<1>8. CASE Store(w)
  <2>1. PICK s \in work[w].found : work'[w].found = work[w].found \ {s} /\ scores' = scores \cup {s}
    BY <1>1, <1>8, StoreSteps
  <2>2. work'[w].pc = "store" /\ work[w].pc = "store"
    BY <1>1, <1>8, StoreSteps DEF Store
  <2>3. Scored(c, j, v) \/ InBatch(w, c, j, v)
    BY <1>1, <1>4, <2>2 DEF AtProfile, Scoring
  <2> QED
    BY <1>2, <2>1, <2>2, <2>3 DEF InBatch, Scored
<1>9. CASE Stored(w)
  <2>1. work[w].pc = "store" /\ work[w].found = {}
    BY <1>9 DEF Stored
  <2>2. Scored(c, j, v) \/ InBatch(w, c, j, v)
    BY <1>1, <1>4, <2>1 DEF AtProfile, Scoring
  <2> QED
    BY <2>1, <2>2 DEF InBatch
<1>10. CASE work[w].pc \in Scoring \ {"store"}
  <2>1. Scored(c, j, v) \/ InBatch(w, c, j, v)
    BY <1>1, <1>4, <1>10 DEF AtProfile
  <2> QED
    BY <1>10, <2>1 DEF InBatch
<1> QED
  BY <1>6, <1>7, <1>8, <1>9, <1>10

\* The batches of a job event end where everyone is covered.
LEMMA EndAccounts ==
  ASSUME Solo, CoverInv, NEW w \in Workers,
         HandlerStep(w) \/ Raise(w), ~Acknowledge(w), ~Retry(w), ~RemoveJob(w),
         NEW c \in Cands, NEW j \in Jobs, NEW v \in 1..MaxJobVersion
  PROVE  AtEnd(c, j, v)'
<1> DEFINE e == work[w].event
<1>1. TypeInv /\ Holding(w) /\ Follows(w) /\ Accounts(c, j, v) /\ AtPage(w, c, j, v) /\ \A u \in Workers : u = w
  BY HandlerFollows DEF CoverInv, Accounts, Solo
<1>2. UNCHANGED <<jobs, profiles, owed, expired, queue>> /\ scores \subseteq scores' /\ overtaken' = overtaken
  BY <1>1, HandlerTables
<1>3. work[w] \in Record /\ e \in Events /\ work'[w].event = e
  BY <1>1, AtWork DEF Follows
<1>4. SUFFICES ASSUME work'[w].pc \in Ending, e = JobChanged(j, v), Standing(c, j, v)
               PROVE  Covered(c, j, v)
  <2>1. Standing(c, j, v)' => Standing(c, j, v)
    BY <1>2 DEF Standing
  <2>2. Covered(c, j, v) => Covered(c, j, v)'
    BY <1>2 DEF Covered, Scored, Awaited
  <2>3. AtEnd(c, j, v)
    BY <1>1 DEF Accounts
  <2> QED
    BY <1>1, <1>2, <1>3, <1>4, <2>1, <2>2, <2>3 DEF AtEnd
<1>5. e.type = "job.updated" /\ e.id = j /\ e.version = v
  BY <1>4, EventFields
<1>6. \/ work[w].pc \in Ending \/ ReadJob(w)
      \/ ReadPage(w) /\ ListActive(w, work[w].last) = {}
  <2>1. work[w].pc # "remove"
    BY <1>1, <1>5 DEF Holding
  <2> QED
    BY <1>1, <1>4, <1>5, <2>1 DEF Follows
<1>7. CASE work[w].pc \in Ending
  BY <1>1, <1>4, <1>7 DEF Accounts, AtEnd
<1>8. CASE ReadJob(w)
  <2> DEFINE place == CASE jobs[e.id].version # e.version -> "finish"
                        [] jobs[e.id].version = e.version /\ jobs[e.id].active -> "page"
                        [] OTHER -> "affected"
  <2>1. work'[w] = [work[w] EXCEPT !.last = runs[e].checkpoint, !.pc = place]
    BY <1>1, <1>8, MovesTo DEF ReadJob
  <2>2. jobs[e.id].version = e.version /\ jobs[e.id].active
    BY <1>4, <1>5 DEF Standing
  <2>3. place = "page"
    BY <2>2
  <2> HIDE DEF place
  <2>4. work'[w].pc = "page"
    BY <1>3, <2>1, <2>3 DEF Record
  <2> QED
    BY <1>4, <2>4 DEF Ending, Publishing
<1>9. CASE ReadPage(w) /\ ListActive(w, work[w].last) = {}
  <2>1. work[w].pc = "page" /\ work[w].last \in Cands \cup {0}
    BY <1>3, <1>9 DEF ReadPage, Record
  <2>2. profiles[c] > 0 /\ c \notin work[w].seen
    BY <1>1, <1>4 DEF Standing, Holding
  <2>3. ~(c > work[w].last)
    <3>1. PICK after \in Cands \cup {0} : after = work[w].last
      BY <2>1
    <3>2. TypeInv /\ ListActive(w, after) = {}
      BY <1>1, <1>9, <3>1
    <3>3. c > after => c \in work[w].seen
      BY <2>2, <3>2, EmptyListing
    <3> QED
      BY <2>2, <3>1, <3>3
  <2>4. c <= work[w].last
    <3>1. \A x \in Cands \cup {0} : x \in Nat
      BY IdsAssumption
    <3>2. c \in Nat /\ work[w].last \in Nat
      BY <2>1, <3>1
    <3> QED
      BY <2>3, <3>2
  <2> QED
    BY <1>1, <1>4, <2>1, <2>4 DEF AtPage, InBatch
<1> QED
  BY <1>6, <1>7, <1>8, <1>9

LEMMA HandlerAccounts ==
  ASSUME Solo, CoverInv, NEW w \in Workers,
         HandlerStep(w) \/ Raise(w), ~Acknowledge(w), ~Retry(w),
         NEW c \in Cands, NEW j \in Jobs, NEW v \in 1..MaxJobVersion
  PROVE  Accounts(c, j, v)'
<1>1. TypeInv /\ Holding(w) /\ Accounts(c, j, v) /\ \A u \in Workers : u = w
  BY DEF CoverInv, Solo
<1>2. CASE RemoveJob(w)
  <2>1. work'[w].pc \in {"candidate", "finish"} /\ work'[w].event = work[w].event
    BY <1>1, <1>2, StoreSteps
  <2>2. work[w].event.type = "job.expired"
    BY <1>1, <1>2 DEF Holding, RemoveJob
  <2>3. work[w].event # ProfileReady(c, profiles[c])
    BY <2>2, EventFields
  <2>4. profiles' = profiles /\ owed' = owed /\ queue' = queue
    BY <1>2 DEF RemoveJob, world
  <2>5. ASSUME Standing(c, j, v)',
               \/ c <= runs'[JobChanged(j, v)].checkpoint
               \/ queue'[JobChanged(j, v)] = "done"
        PROVE  Covered(c, j, v)'
    <3>1. /\ queue[JobChanged(j, v)] = "waiting" \/ (Scored(c, j, v) => Scored(c, j, v)')
          /\ Standing(c, j, v) /\ runs' = runs
      BY <1>2, <2>5, RemovalKeeps
    <3>2. queue[JobChanged(j, v)] = "waiting" => ~(c <= runs'[JobChanged(j, v)].checkpoint)
      <4>1. queue[JobChanged(j, v)] = "waiting" => runs[JobChanged(j, v)].checkpoint = 0
        BY DEF CoverInv, Announced
      <4>2. ~(c <= 0)
        BY IdsAssumption
      <4> QED
        BY <3>1, <4>1, <4>2
    <3>3. Scored(c, j, v) => Scored(c, j, v)'
      BY <2>4, <2>5, <3>1, <3>2
    <3>4. Covered(c, j, v)
      BY <1>1, <2>4, <2>5, <3>1 DEF Accounts, AtCheckpoint, AtEnd
    <3>5. Awaited(c)' <=> Awaited(c)
      BY <2>4 DEF Awaited
    <3> QED
      BY <3>3, <3>4, <3>5 DEF Covered
  <2>6. work[w].event # JobChanged(j, v)
    BY <2>2, EventFields
  <2> QED
    BY <1>1, <2>1, <2>3, <2>4, <2>5, <2>6 DEF Accounts, AtCheckpoint, AtEnd, AtPage, AtProfile
<1>3. CASE ~RemoveJob(w)
  <2>1. AtPage(w, c, j, v)' /\ AtProfile(w, c, j, v)' /\ AtEnd(c, j, v)'
    BY <1>3, PageAccounts, ProfileAccounts, EndAccounts
  <2>2. AtCheckpoint(c, j, v)'
    <3>1. /\ UNCHANGED <<jobs, profiles, owed, expired, queue>> /\ scores \subseteq scores' /\ overtaken' = overtaken
          /\ \A d \in Events :
               \/ runs'[d].checkpoint \in {runs[d].checkpoint, 0}
               \/ Checkpoint(w) /\ d = work[w].event /\ runs'[d].checkpoint = work[w].last
      BY <1>1, <1>3, HandlerTables
    <3>2. (Standing(c, j, v)' => Standing(c, j, v)) /\ (Covered(c, j, v) => Covered(c, j, v)')
      BY <3>1 DEF Standing, Covered, Scored, Awaited
    <3>3. SUFFICES ASSUME Standing(c, j, v), c <= runs'[JobChanged(j, v)].checkpoint PROVE Covered(c, j, v)
      BY <3>2 DEF AtCheckpoint
    <3>4. JobChanged(j, v) \in Events
      BY EventsDiffer
    <3>5. CASE runs'[JobChanged(j, v)].checkpoint \in {runs[JobChanged(j, v)].checkpoint, 0}
      <4>1. ~(c <= 0)
        BY IdsAssumption
      <4> QED
        BY <1>1, <3>3, <3>5, <4>1 DEF Accounts, AtCheckpoint
    <3>6. CASE /\ Checkpoint(w) /\ JobChanged(j, v) = work[w].event
               /\ runs'[JobChanged(j, v)].checkpoint = work[w].last
      <4>1. Covered(c, j, v) \/ InBatch(w, c, j, v)
        BY <1>1, <3>3, <3>6 DEF Accounts, AtPage, Checkpoint
      <4> QED
        BY <3>6, <4>1 DEF Checkpoint, InBatch
    <3> QED
      BY <3>1, <3>4, <3>5, <3>6
  <2> QED
    BY <1>1, <2>1, <2>2 DEF Accounts
<1> QED
  BY <1>2, <1>3

\* Claiming, ending and abandoning an event.
LEMMA QueueAccounts ==
  ASSUME Solo, CoverInv, NEW w \in Workers,
         (\E e \in Events : Claim(w, e)) \/ Acknowledge(w) \/ Retry(w) \/ Crash(w)
  PROVE  /\ Announced' /\ \A u \in Workers : Holding(u)'
         /\ \A c \in Cands, j \in Jobs, v \in 1..MaxJobVersion : Accounts(c, j, v)'
<1>1. /\ TypeInv /\ Announced /\ Holding(w) /\ \A u \in Workers : u = w
      /\ \A c \in Cands, j \in Jobs, v \in 1..MaxJobVersion : Accounts(c, j, v)
  BY DEF CoverInv, Solo
<1>2. UNCHANGED <<jobs, profiles, owed, expired, scores, runs, overtaken>>
  BY DEF Claim, Acknowledge, Retry, Crash, world, counters
<1>3. queue \in [Events -> {"unknown", "waiting", "delayed", "taken", "done", "parked"}]
  BY <1>1 DEF TypeInv, TypeOK
<1>4. PICK e \in Events, fate \in {"waiting", "delayed", "taken", "done", "parked"} :
        /\ queue' = [queue EXCEPT ![e] = fate]
        /\ \/ queue[e] # "unknown" /\ fate # "waiting"
           \/ \E n : e = Reconcile(n)
        /\ fate = "done" => Acknowledge(w) /\ e = work[w].event
        /\ \/ work'[w] = Idle
           \/ work'[w].pc = "start" /\ work'[w].seen = {} /\ work'[w].event = e /\ fate = "taken"
  <2>1. CASE \E e \in Events : Claim(w, e)
    <3>1. PICK e \in Events : Claim(w, e)
      BY <2>1
    <3>2. queue' = [queue EXCEPT ![e] = "taken"] /\ queue[e] # "unknown"
          /\ work'[w].pc = "start" /\ work'[w].seen = {} /\ work'[w].event = e
      BY <1>1, <3>1, EndSteps DEF Claim
    <3> QED
      BY <3>2
  <2>2. CASE Acknowledge(w) \/ Retry(w)
    <3> DEFINE e == work[w].event
    <3>1. e \in Events /\ queue[e] = "taken" /\ work'[w] = Idle
      BY <1>1, <2>2, AtWork, EndSteps DEF Holding, Acknowledge, Retry, Suits
    <3>2. \E fate \in {"delayed", "done", "parked"} :
            queue' = [queue EXCEPT ![e] = fate] /\ (fate = "done" => Acknowledge(w))
      BY <2>2 DEF Acknowledge, Retry
    <3> HIDE DEF e
    <3>3. queue[e] # "unknown"
      BY <3>1
    <3> QED
      BY <3>1, <3>2, <3>3 DEF e
  <2>3. CASE Crash(w)
    <3>1. crashes + 1 \in 1..MaxCrashes
      BY <1>1, <2>3, BoundsAssumption DEF Crash, TypeInv, TypeOK
    <3>2. Reconcile(crashes + 1) \in Events
      BY <3>1, EventsDiffer
    <3>3. queue' = [queue EXCEPT ![Reconcile(crashes + 1)] = "waiting"] /\ work'[w] = Idle
      BY <1>1, <2>3, EndSteps DEF Crash
    <3> QED
      BY <3>2, <3>3
  <2> QED
    BY <2>1, <2>2, <2>3
<1>5. \A d \in Events : queue'[d] = IF d = e THEN fate ELSE queue[d]
  BY <1>3, <1>4
<1>6. work'[w].pc \in {"start", "idle"} /\ work'[w].seen = {}
  BY <1>4 DEF Idle
<1>7. Announced'
  <2>1. ASSUME NEW j \in Jobs, NEW v \in 1..MaxJobVersion
        PROVE  (/\ v > jobs[j].version \/ (v = jobs[j].version /\ ~jobs[j].active)
                     => queue[JobChanged(j, v)] = "unknown"
                /\ v > jobs[j].version \/ (v = jobs[j].version /\ jobs[j].active)
                     => queue[JobExpired(j, v)] = "unknown"
                /\ queue[JobChanged(j, v)] \in {"unknown", "waiting"} => runs[JobChanged(j, v)].checkpoint = 0)'
    <3>1. JobChanged(j, v) \in Events /\ JobExpired(j, v) \in Events
          /\ \A n : JobChanged(j, v) # Reconcile(n) /\ JobExpired(j, v) # Reconcile(n)
      BY EventsDiffer
    <3>2. /\ v > jobs[j].version \/ (v = jobs[j].version /\ ~jobs[j].active)
               => queue[JobChanged(j, v)] = "unknown"
          /\ v > jobs[j].version \/ (v = jobs[j].version /\ jobs[j].active)
               => queue[JobExpired(j, v)] = "unknown"
          /\ queue[JobChanged(j, v)] \in {"unknown", "waiting"} => runs[JobChanged(j, v)].checkpoint = 0
      BY <1>1 DEF Announced
    <3>3. /\ queue[JobChanged(j, v)] = "unknown" => queue'[JobChanged(j, v)] = "unknown"
          /\ queue[JobExpired(j, v)] = "unknown" => queue'[JobExpired(j, v)] = "unknown"
          /\ queue'[JobChanged(j, v)] \in {"unknown", "waiting"} => queue[JobChanged(j, v)] = queue'[JobChanged(j, v)]
      BY <1>4, <1>5, <3>1
    <3> QED
      BY <1>2, <3>2, <3>3
  <2>2. ASSUME NEW c \in Cands, NEW p \in 1..MaxProfileVersion
        PROVE  (p > profiles[c] \/ (p = profiles[c] /\ c \in owed) => queue[ProfileReady(c, p)] = "unknown")'
    <3>1. ProfileReady(c, p) \in Events /\ \A n : ProfileReady(c, p) # Reconcile(n)
      BY EventsDiffer
    <3>2. queue[ProfileReady(c, p)] = "unknown" => queue'[ProfileReady(c, p)] = "unknown"
      BY <1>4, <1>5, <3>1
    <3> QED
      BY <1>1, <1>2, <3>2 DEF Announced
  <2> QED
    BY <2>1, <2>2 DEF Announced
<1>8. \A u \in Workers : Holding(u)'
  <2>1. work'[w].pc # "idle" => queue'[work'[w].event] = "taken"
    BY <1>4, <1>5 DEF Idle
  <2> QED
    BY <1>1, <1>6, <2>1 DEF Holding
<1>9. ASSUME NEW c \in Cands, NEW j \in Jobs, NEW v \in 1..MaxJobVersion PROVE Accounts(c, j, v)'
  <2>1. \A u \in Workers : AtPage(u, c, j, v)' /\ AtProfile(u, c, j, v)'
    BY <1>1, <1>6 DEF AtPage, AtProfile, Scoring, Publishing
  <2>2. AtCheckpoint(c, j, v)' /\ AtEnd(c, j, v)'
    <3>1. (Standing(c, j, v)' <=> Standing(c, j, v)) /\ (Scored(c, j, v)' <=> Scored(c, j, v))
      BY <1>2 DEF Standing, Scored
    <3>2. SUFFICES ASSUME Standing(c, j, v),
                          \/ c <= runs[JobChanged(j, v)].checkpoint
                          \/ queue'[JobChanged(j, v)] = "done"
                   PROVE  Scored(c, j, v) \/ Awaited(c)'
      BY <1>1, <1>2, <1>6, <3>1 DEF AtCheckpoint, AtEnd, Ending, Publishing, Covered
    <3>3. Accounts(c, j, v)
      BY <1>1
    <3>4. JobChanged(j, v) \in Events /\ JobChanged(j, v) # ProfileReady(c, profiles[c])
      BY EventsDiffer
    <3>5. queue'[JobChanged(j, v)] = "done" =>
             \/ queue[JobChanged(j, v)] = "done"
             \/ Acknowledge(w) /\ JobChanged(j, v) = work[w].event
      BY <1>4, <1>5, <3>4
    <3>6. Scored(c, j, v) \/ Awaited(c)
      BY <3>2, <3>3, <3>5 DEF Accounts, AtCheckpoint, AtEnd, Ending, Covered, Acknowledge
    <3>7. queue[JobChanged(j, v)] # "waiting"
      <4>1. queue[JobChanged(j, v)] = "waiting" => ~(c <= runs[JobChanged(j, v)].checkpoint)
        <5>1. ~(c <= 0)
          BY IdsAssumption
        <5> QED
          BY <1>1, <5>1 DEF Announced
      <4>2. Acknowledge(w) => queue[work[w].event] = "taken"
        BY <1>1 DEF Acknowledge, Holding
      <4> QED
        BY <3>2, <3>5, <4>1, <4>2
    <3>8. profiles[c] \in 1..MaxProfileVersion
      BY <1>1, <3>2, BoundsAssumption DEF Standing, TypeInv, TypeOK
    <3>9. ProfileReady(c, profiles[c]) \in Events /\ \A n : ProfileReady(c, profiles[c]) # Reconcile(n)
      BY <3>8, EventsDiffer
    <3>10. CASE ProfileReady(c, profiles[c]) = e /\ fate = "done"
      <4>1. work[w].pc = "acknowledge" /\ work[w].event = ProfileReady(c, profiles[c])
        BY <1>4, <3>10 DEF Acknowledge
      <4>2. Scored(c, j, v) \/ InBatch(w, c, j, v)
        BY <3>2, <3>3, <3>7, <4>1 DEF Accounts, AtProfile, Scoring
      <4> QED
        BY <4>1, <4>2 DEF InBatch
    <3>11. CASE ~(ProfileReady(c, profiles[c]) = e /\ fate = "done")
      <4>1. Awaited(c) => Awaited(c)'
        BY <1>2, <1>4, <1>5, <3>9, <3>11 DEF Awaited
      <4> QED
        BY <3>6, <4>1
    <3> QED
      BY <3>10, <3>11
  <2> QED
    BY <2>1, <2>2 DEF Accounts
<1> QED
  BY <1>7, <1>8, <1>9

LEMMA StepAccounts ==
  ASSUME Solo, CoverInv, [Next]_vars
  PROVE  CoverInv'
<1>1. TypeInv /\ TypeInv'
  BY StepTypes DEF CoverInv
<1>2. CASE UNCHANGED vars
  <2>1. UNCHANGED <<jobs, profiles, owed, expired, scores, queue, runs, work, overtaken>>
    BY <1>2 DEF vars
  <2>2. Announced' /\ \A w \in Workers : Holding(w)'
    BY <2>1 DEF CoverInv, Announced, Holding
  <2>3. ASSUME NEW c \in Cands, NEW j \in Jobs, NEW v \in 1..MaxJobVersion PROVE Accounts(c, j, v)'
    <3>1. Accounts(c, j, v)
      BY DEF CoverInv
    <3> QED
      BY <2>1, <3>1 DEF Accounts, AtCheckpoint, AtEnd, AtPage, AtProfile, Standing, Covered, Scored,
         Awaited, InBatch
  <2> QED
    BY <1>1, <2>2, <2>3 DEF CoverInv
<1>3. CASE (\E j \in Jobs : ImportJob(j) \/ CloseJob(j))
             \/ (\E c \in Cands : SaveProfile(c) \/ EnqueueProfile(c) \/ Expire(c))
  BY <1>1, <1>3, WorldAccounts DEF CoverInv
<1>4. ASSUME NEW w \in Workers,
             (\E e \in Events : Claim(w, e)) \/ HandlerStep(w) \/ Raise(w) \/ Crash(w)
      PROVE  CoverInv'
  <2>1. CASE (\E e \in Events : Claim(w, e)) \/ Acknowledge(w) \/ Retry(w) \/ Crash(w)
    BY <1>1, <2>1, QueueAccounts DEF CoverInv
  <2>2. CASE /\ HandlerStep(w) \/ Raise(w)
             /\ ~Acknowledge(w) /\ ~Retry(w)
    <3>1. Announced' /\ \A u \in Workers : Holding(u)'
      BY <2>2, HandlerKeeps
    <3>2. \A c \in Cands, j \in Jobs, v \in 1..MaxJobVersion : Accounts(c, j, v)'
      BY <2>2, HandlerAccounts
    <3> QED
      BY <1>1, <3>1, <3>2 DEF CoverInv
  <2> QED
    BY <1>4, <2>1, <2>2
<1> QED
  BY <1>2, <1>3, <1>4 DEF Next

LEMMA InitAccounts == Init => CoverInv
<1> SUFFICES ASSUME Init PROVE CoverInv
  OBVIOUS
<1>1. TypeInv
  BY InitTypes
<1>2. Announced
  <2>1. \A j \in Jobs, v \in 1..MaxJobVersion :
          /\ queue[JobChanged(j, v)] = "unknown" /\ queue[JobExpired(j, v)] = "unknown"
          /\ runs[JobChanged(j, v)].checkpoint = 0
    BY EventsDiffer DEF Init
  <2>2. \A c \in Cands, p \in 1..MaxProfileVersion : queue[ProfileReady(c, p)] = "unknown"
    BY EventsDiffer DEF Init
  <2> QED
    BY <2>1, <2>2 DEF Announced
<1>3. \A w \in Workers : Holding(w) /\ work[w].pc = "idle"
  BY DEF Init, Holding, Idle
<1>4. \A c \in Cands, j \in Jobs, v \in 1..MaxJobVersion : ~Standing(c, j, v)
  BY DEF Init, Standing
<1>5. \A c \in Cands, j \in Jobs, v \in 1..MaxJobVersion : Accounts(c, j, v)
  BY <1>4 DEF Accounts, AtCheckpoint, AtEnd, AtPage, AtProfile
<1> QED
  BY <1>1, <1>2, <1>3, <1>5 DEF CoverInv

\* A checkpoint never passes a candidate whose score is missing and not awaited,
\* unless an older closing overtook the job, with one worker process.
THEOREM CheckpointSound == ASSUME Solo PROVE Spec => []CheckpointCovers
<1>1. Init => CoverInv
  BY InitAccounts
<1>2. CoverInv /\ [Next]_vars => CoverInv'
  BY StepAccounts
<1>3. CoverInv => CheckpointCovers
  <2> SUFFICES ASSUME CoverInv PROVE CheckpointCovers
    OBVIOUS
  <2>1. \A c \in Cands, j \in Jobs, v \in 1..MaxJobVersion : AtCheckpoint(c, j, v)
    BY DEF CoverInv, Accounts
  <2> QED
    BY <2>1 DEF CheckpointCovers, AtCheckpoint, Standing, Covered, Scored, Awaited
<1> QED
  BY <1>1, <1>2, <1>3, PTL DEF Spec

-----------------------------------------------------------------------------
(* A start repairs every revision *)

Unsettled == {"waiting", "delayed", "taken", "parked"}

\* A job event or a reconciliation that has still to list the candidate.
Ahead(e, c) ==
  /\ queue[e] \in Unsettled
  /\ \A w \in Workers :
       IF work[w].event = e /\ work[w].pc \notin {"start", "job"}
       THEN /\ c > work[w].last
            /\ work[w].pc \in {"page", "store", "checkpoint"}
                 \cup (IF e.type = "reconciliation.requested" THEN Publishing ELSE {})
       ELSE c > runs[e].checkpoint

\* The closing of a job has still to find the candidates it affects.
Closing(e) ==
  /\ queue[e] \in Unsettled
  /\ \A w \in Workers : work[w].event = e => work[w].pc \in {"start", "affected"}

\* The job's newest version has still to reach the candidate.
JobPending(c, j) ==
  \E v \in 1..MaxJobVersion :
    /\ v = jobs[j].version
    /\ IF jobs[j].active THEN Ahead(JobChanged(j, v), c) ELSE Closing(JobExpired(j, v))

\* So has the candidate's newest profile.
ProfilePending(c) ==
  LET e == ProfileReady(c, profiles[c]) IN
  \/ c \in owed
  \/ queue[e] \in Unsettled
       /\ \A w \in Workers : work[w].event = e => work[w].pc \in {"start", "profile", "store"}

RepairPending(c) == \E n \in 1..MaxCrashes : Ahead(Reconcile(n), c)

\* A revision agrees with the ranking on a job, or the job is pending.
Shows(c, r, j) ==
  (\A v \in 1..MaxJobVersion : <<j, v>> \in r.ranking <=> <<j, v>> \in Rank(c, profiles[c]))
    \/ JobPending(c, j)

Good(c, r) ==
  /\ r.profile = profiles[c]
  /\ \A j \in Jobs, v \in 1..MaxJobVersion : <<j, v>> \in r.ranking => Scored(c, j, v)
  /\ \A j \in Jobs : Shows(c, r, j)

\* A worker that will publish for the candidate.
Coming(w, c) ==
  /\ c \in work[w].todo
  /\ work[w].pc \in Publishing \cup {"remove"}
       \cup (IF work[w].event.type = "job.updated" THEN {"page", "store", "checkpoint"} ELSE {})

UpToDate(c) == revisions[c] # <<>> /\ Good(c, Latest(c))

Fine(c) ==
  ProfilePending(c) \/ RepairPending(c) \/ (\E w \in Workers : Coming(w, c)) \/ UpToDate(c)

AllFine == ~raised => \A c \in Cands \ expired : profiles[c] > 0 => Fine(c)

\* What a worker has read for the candidate it publishes for is good, or a newer
\* profile is pending.
PlanFine(w) ==
  LET c == Min(work[w].todo) IN
  /\ work[w].pc = "rank" => work[w].plan.profile = profiles[c] \/ ProfilePending(c)
  /\ work[w].pc \in {"compare", "number", "publish"} => Good(c, work[w].plan) \/ ProfilePending(c)

\* Whoever has a score that is about to be dropped is published for.
AllAffected(w) ==
  work[w].pc = "remove" =>
    \A c \in Cands \ expired, v \in 1..MaxJobVersion :
      <<c, profiles[c], work[w].event.id, v>> \in scores => c \in work[w].todo \/ ProfilePending(c)

\* What a worker is about to store, and for whom it publishes.
Batch(w) ==
  /\ work[w].pc = "idle" => work[w].event = NoEvent
  /\ work[w].pc = "store" =>
       \A s \in work[w].found :
         /\ work[w].event.type = "job.updated" => s[1] \in work[w].todo
         /\ work[w].event.type = "profile.ready" =>
              s[1] = work[w].event.id /\ s[2] = work[w].event.version
  /\ work[w].pc \in {"rank", "compare", "number", "publish"} => profiles[Min(work[w].todo)] > 0
  /\ work[w].pc \in {"fail", "retry"} => raised

Facts ==
  /\ \A w \in Workers : Batch(w)
  /\ \A c \in Cands : revisions[c] # <<>> => profiles[c] > 0
  /\ \A n \in 1..MaxCrashes : n > crashes =>
       queue[Reconcile(n)] = "unknown" /\ runs[Reconcile(n)].checkpoint = 0
  /\ \A j \in Jobs : jobs[j].active => queue[JobChanged(j, jobs[j].version)] # "unknown"

RepairInv ==
  /\ ChurnInv /\ CoverInv /\ Facts /\ AllFine
  /\ \A w \in Workers : AllAffected(w) /\ PlanFine(w)

\* A step of a handler before its end, with what is known of it.
Handles(w) ==
  RepairInv /\ HandlerStep(w) /\ ~Fail(w) /\ ~Acknowledge(w) /\ ~Retry(w)

LEMMA HandlesFacts ==
  ASSUME Solo, NEW w \in Workers, Handles(w)
  PROVE  /\ TypeInv /\ Holding(w) /\ Batch(w) /\ Follows(w) /\ Chosen(w)
         /\ \A u \in Workers : u = w
         /\ UNCHANGED <<jobs, profiles, owed, expired, queue>>
         /\ RemoveJob(w) \/ (scores \subseteq scores' /\ overtaken' = overtaken)
         /\ \A e \in Events :
              \/ runs'[e].checkpoint \in {runs[e].checkpoint, 0}
              \/ Checkpoint(w) /\ e = work[w].event /\ runs'[e].checkpoint = work[w].last
         /\ work[w] \in Record /\ work[w].event \in Events /\ work[w].pc # "idle"
         /\ work'[w].event = work[w].event
<1>1. TypeInv /\ Holding(w) /\ Batch(w) /\ Chosen(w)
  BY DEF Handles, RepairInv, CoverInv, ChurnInv, Facts
<1>2. HandlerStep(w) /\ ~Acknowledge(w) /\ ~Retry(w)
  BY DEF Handles
<1>3. Follows(w)
  BY <1>1, <1>2, HandlerFollows
<1>4. /\ UNCHANGED <<jobs, profiles, owed, expired, queue>>
      /\ RemoveJob(w) \/ (scores \subseteq scores' /\ overtaken' = overtaken)
      /\ \A e \in Events :
           \/ runs'[e].checkpoint \in {runs[e].checkpoint, 0}
           \/ Checkpoint(w) /\ e = work[w].event /\ runs'[e].checkpoint = work[w].last
  BY <1>1, <1>2, HandlerTables
<1>5. work[w] \in Record
  BY <1>1 DEF TypeInv, TypeOK, Record
<1> QED
  BY <1>1, <1>3, <1>4, <1>5 DEF Follows, Solo

\* Which step a place allows.
LEMMA StepsAt ==
  ASSUME Solo, NEW w \in Workers, Handles(w)
  PROVE  /\ work[w].pc = "start" => Start(w)
         /\ work[w].pc = "profile" => ReadProfile(w)
         /\ work[w].pc = "job" => ReadJob(w)
         /\ work[w].pc = "page" => ReadPage(w)
         /\ work[w].pc = "store" => Store(w) \/ Stored(w)
         /\ work[w].pc = "checkpoint" => Checkpoint(w)
         /\ work[w].pc = "affected" => ReadAffected(w)
         /\ work[w].pc = "remove" => RemoveJob(w)
         /\ work[w].pc = "candidate" => ReadCandidate(w)
         /\ work[w].pc = "rank" => ReadRanking(w)
         /\ work[w].pc = "compare" => Compare(w)
         /\ work[w].pc = "number" => Number(w)
         /\ work[w].pc = "publish" => Publish(w) /\ NextCandidate(w)
              /\ revisions' = [revisions EXCEPT ![Min(work[w].todo)] = Append(@, work[w].plan)]
         /\ work[w].pc # "publish" => revisions' = revisions
         /\ work[w].pc \in {"finish", "start", "profile", "job", "page", "store", "checkpoint",
                             "affected", "remove"} \cup Publishing
         /\ work[w].pc \notin {"store", "remove"} => scores' = scores
         /\ raised' = raised /\ crashes' = crashes
<1>1. HandlerStep(w) /\ ~Acknowledge(w) /\ ~Retry(w)
  BY DEF Handles
<1>2. ~Fail(w)
  BY DEF Handles
<1>3. /\ work[w].pc = "start" => Start(w)
      /\ work[w].pc = "profile" => ReadProfile(w)
      /\ work[w].pc = "job" => ReadJob(w)
      /\ work[w].pc = "page" => ReadPage(w)
      /\ work[w].pc = "store" => Store(w) \/ Stored(w)
      /\ work[w].pc = "checkpoint" => Checkpoint(w)
      /\ work[w].pc = "affected" => ReadAffected(w)
      /\ work[w].pc = "remove" => RemoveJob(w)
      /\ work[w].pc = "candidate" => ReadCandidate(w)
      /\ work[w].pc = "rank" => ReadRanking(w)
      /\ work[w].pc = "compare" => Compare(w)
      /\ work[w].pc = "number" => Number(w)
      /\ work[w].pc = "publish" => Publish(w)
      /\ work[w].pc \in {"finish", "start", "profile", "job", "page", "store", "checkpoint",
                          "affected", "remove"} \cup Publishing
  BY <1>1, <1>2 DEF HandlerStep, Start, ReadProfile, ReadJob, ReadPage, Store, Stored, Checkpoint,
         ReadAffected, RemoveJob, ReadCandidate, ReadRanking, Compare, Number, Publish, Finish, Publishing
<1>4. work[w].pc = "publish" => NextCandidate(w) /\ raised' = raised
        /\ revisions' = [revisions EXCEPT ![Min(work[w].todo)] = Append(@, work[w].plan)]
  <2>1. SUFFICES ASSUME Publish(w), work[w].pc = "publish"
                 PROVE  /\ NextCandidate(w) /\ raised' = raised
                        /\ revisions' = [revisions EXCEPT ![Min(work[w].todo)] = Append(@, work[w].plan)]
    BY <1>3
  <2>2. work[w].number = Len(revisions[Min(work[w].todo)]) + 1
    BY <2>1, HandlesFacts DEF Chosen
  <2>3. Min(work[w].todo) \in Cands /\ revisions \in [Cands -> Seq(Revision)]
    <3>1. work[w].todo \subseteq Cands /\ work[w].todo # {} /\ TypeInv
      BY <2>1, HandlesFacts, AtWork DEF Record, Fits, Publishing
    <3> QED
      BY <3>1, ExtremesOfCands DEF TypeInv, TypeOK
  <2>4. Len(revisions[Min(work[w].todo)]) \in Nat
    BY <2>3
  <2>5. ~(work[w].number <= Len(revisions[Min(work[w].todo)]))
    BY <2>2, <2>4
  <2> QED
    BY <2>1, <2>5 DEF Publish
<1>5. work[w].pc # "publish" => revisions' = revisions
  BY <1>1 DEF HandlerStep, Start, ReadProfile, ReadJob, ReadPage, Store, Stored, Checkpoint,
         ReadAffected, RemoveJob, ReadCandidate, ReadRanking, Compare, Number, Publish, Finish, Fail
<1>6. work[w].pc \notin {"store", "remove"} => scores' = scores
  BY <1>1 DEF HandlerStep, Start, ReadProfile, ReadJob, ReadPage, Store, Stored, Checkpoint,
         ReadAffected, RemoveJob, ReadCandidate, ReadRanking, Compare, Number, Publish, Finish, Fail
<1>7. crashes' = crashes /\ (work[w].pc # "publish" => raised' = raised)
  BY <1>1 DEF HandlerStep, Start, ReadProfile, ReadJob, ReadPage, Store, Stored, Checkpoint,
         ReadAffected, RemoveJob, ReadCandidate, ReadRanking, Compare, Number, Publish, Finish, Fail,
         counters
<1> QED
  BY <1>3, <1>4, <1>5, <1>6, <1>7

\* What is pending in events the worker does not have.
LEMMA ElsewhereKept ==
  ASSUME Solo, NEW w \in Workers, Handles(w), NEW c \in Cands, NEW e \in Events, e # work[w].event
  PROVE  (Ahead(e, c) => Ahead(e, c)') /\ (Closing(e) => Closing(e)')
<1>1. /\ queue' = queue /\ work'[w].event = work[w].event /\ \A u \in Workers : u = w
      /\ runs'[e].checkpoint \in {runs[e].checkpoint, 0}
  BY HandlesFacts
<1>2. Closing(e) => Closing(e)'
  BY <1>1 DEF Closing
<1>3. Ahead(e, c) => Ahead(e, c)'
  <2>1. SUFFICES ASSUME Ahead(e, c) PROVE Ahead(e, c)'
    OBVIOUS
  <2>2. c > runs[e].checkpoint
    BY <1>1, <2>1 DEF Ahead
  <2>3. c > 0
    BY IdsAssumption
  <2>4. c > runs'[e].checkpoint
    BY <1>1, <2>2, <2>3
  <2> QED
    BY <1>1, <2>1, <2>4 DEF Ahead
<1> QED
  BY <1>2, <1>3

LEMMA ProfileKept ==
  ASSUME Solo, NEW w \in Workers, Handles(w), NEW c \in Cands, c \notin expired,
         ProfilePending(c)
  PROVE  ProfilePending(c)' \/ Coming(w, c)'
<1> DEFINE e == ProfileReady(c, profiles[c])
<1>1. /\ TypeInv /\ Holding(w) /\ work[w].event \in Events
      /\ UNCHANGED <<jobs, profiles, owed, expired, queue>> /\ work'[w].event = work[w].event
      /\ \A u \in Workers : u = w
  BY HandlesFacts
<1>2. CASE c \in owed \/ work[w].event # e
  BY <1>1, <1>2 DEF ProfilePending
<1>3. CASE c \notin owed /\ work[w].event = e
  <2>1. queue[e] \in Unsettled /\ work[w].pc \in {"start", "profile", "store"}
    BY <1>1, <1>3 DEF ProfilePending
  <2>2. work[w].event.type = "profile.ready" /\ work[w].event.id = c /\ work[w].event.version = profiles[c]
    BY <1>3, EventFields
  <2>3. work'[w].pc \in {"start", "profile", "store"} => ProfilePending(c)'
    BY <1>1, <2>1 DEF ProfilePending
  <2>4. CASE work[w].pc = "start"
    <3>1. work'[w].pc = "profile"
      BY <1>1, <2>2, <2>4, StepsAt, EndSteps
    <3> QED
      BY <2>3, <3>1
  <2>5. CASE work[w].pc = "profile"
    <3>1. ReadProfile(w) /\ c \notin work[w].seen
      BY <1>1, <2>5, StepsAt DEF Holding
    <3>2. work'[w].pc = "store"
      BY <1>1, <2>2, <3>1, ReadSteps
    <3> QED
      BY <2>3, <3>2
  <2>6. CASE work[w].pc = "store"
    <3>1. CASE Store(w)
      BY <1>1, <2>3, <3>1, StoreSteps
    <3>2. CASE Stored(w)
      <4>1. PublishFor(w, {c})
        BY <2>2, <3>2 DEF Stored
      <4>2. work'[w].todo = {c} /\ work'[w].pc = "candidate"
        BY <1>1, <4>1, PublishForMoves
      <4> QED
        BY <4>2 DEF Coming, Publishing
    <3> QED
      BY <2>6, <3>1, <3>2, StepsAt
  <2> QED
    BY <2>1, <2>4, <2>5, <2>6
<1> QED
  BY <1>2, <1>3

\* Within publish_for a worker goes on at its candidate, or to the next one.
LEMMA PublishGoes ==
  ASSUME Solo, NEW w \in Workers, Handles(w), work[w].pc \in Publishing
  PROVE  /\ work'[w].last = work[w].last
         /\ \/ /\ work'[w].todo = work[w].todo
               /\ work'[w].pc \in {"rank", "compare", "number", "publish"}
            \/ NextCandidate(w)
<1>1. TypeInv
  BY HandlesFacts
<1>2. PICK c : c = Min(work[w].todo)
  OBVIOUS
<1>3. ReadCandidate(w) \/ ReadRanking(w) \/ Compare(w) \/ Number(w) \/ NextCandidate(w)
  BY StepsAt DEF Publishing
<1> QED
  BY <1>1, <1>2, <1>3, PublishMoves, NextMoves

LEMMA AheadKept ==
  ASSUME Solo, NEW w \in Workers, Handles(w), NEW c \in Cands, c \notin expired, profiles[c] > 0,
         NEW e \in Events, Ahead(e, c),
         \/ e.type = "reconciliation.requested"
         \/ e.type = "job.updated" /\ jobs[e.id].version = e.version /\ jobs[e.id].active
  PROVE  Ahead(e, c)' \/ Coming(w, c)'
<1>1. /\ TypeInv /\ Holding(w) /\ work[w] \in Record /\ work[w].event \in Events /\ work[w].pc # "idle"
      /\ UNCHANGED <<jobs, profiles, owed, expired, queue>> /\ work'[w].event = work[w].event
      /\ \A u \in Workers : u = w
      /\ \A d \in Events :
           \/ runs'[d].checkpoint \in {runs[d].checkpoint, 0}
           \/ Checkpoint(w) /\ d = work[w].event /\ runs'[d].checkpoint = work[w].last
  BY HandlesFacts
<1>2. CASE work[w].event # e
  BY <1>2, ElsewhereKept
<1>3. CASE work[w].event = e
  <2>1. Suits(work[w].pc, e) /\ queue'[e] \in Unsettled /\ c \notin work[w].seen
    BY <1>1, <1>3, AtWork DEF Ahead, Holding
  <2>2. /\ work'[w].pc \in {"page", "store", "checkpoint"}
             \cup (IF e.type = "reconciliation.requested" THEN Publishing ELSE {})
        /\ c > work'[w].last
        => Ahead(e, c)'
    BY <1>1, <1>3, <2>1 DEF Ahead, Publishing
  <2>3. CASE work[w].pc \in {"start", "job"}
    <3>1. c > runs[e].checkpoint
      BY <1>1, <1>3, <2>3 DEF Ahead
    <3>2. CASE work[w].pc = "start" /\ e.type = "job.updated"
      <4>1. work'[w].pc = "job" /\ ~Checkpoint(w)
        BY <1>1, <1>3, <3>2, StepsAt, EndSteps DEF Checkpoint
      <4>2. c > runs'[e].checkpoint
        <5>1. c > 0
          BY IdsAssumption
        <5> QED
          BY <1>1, <3>1, <4>1, <5>1
      <4> QED
        BY <1>1, <1>3, <2>1, <4>1, <4>2 DEF Ahead
    <3>3. CASE work[w].pc = "start" /\ e.type = "reconciliation.requested"
      <4>1. Start(w)
        BY <3>3, StepsAt
      <4> DEFINE place == CASE work[w].event.type = "profile.ready" -> "profile"
                            [] work[w].event.type = "job.updated" -> "job"
                            [] work[w].event.type = "job.expired" -> "affected"
                            [] OTHER -> "page"
                 last == IF work[w].event.type = "reconciliation.requested"
                         THEN runs[work[w].event].checkpoint ELSE 0
      <4>2. work'[w] = [work[w] EXCEPT !.seen = expired, !.last = last, !.pc = place]
        BY <1>1, <4>1, MovesTo DEF Start
      <4>3. place = "page" /\ last = runs[e].checkpoint
        BY <1>3, <3>3
      <4> HIDE DEF place, last
      <4>4. work'[w].pc = "page" /\ work'[w].last = runs[e].checkpoint
        BY <1>1, <4>2, <4>3 DEF Record
      <4> QED
        BY <2>2, <3>1, <4>4
    <3>4. CASE work[w].pc = "job"
      <4>1. ReadJob(w) /\ e.type = "job.updated"
        BY <2>1, <3>4, StepsAt DEF Suits
      <4>2. work'[w].last = runs[e].checkpoint /\ work'[w].pc \in {"finish", "page", "affected"}
            /\ (work'[w].pc = "affected" => ~jobs[e.id].active)
        BY <1>1, <1>3, <4>1, ReadSteps
      <4>3. work'[w].pc = "page"
        <5> DEFINE place == CASE jobs[e.id].version # e.version -> "finish"
                              [] jobs[e.id].version = e.version /\ jobs[e.id].active -> "page"
                              [] OTHER -> "affected"
        <5>1. work'[w] = [work[w] EXCEPT !.last = runs[e].checkpoint, !.pc = place]
          BY <1>1, <1>3, <4>1, MovesTo DEF ReadJob
        <5>2. place = "page"
          BY <4>1
        <5> HIDE DEF place
        <5> QED
          BY <1>1, <5>1, <5>2 DEF Record
      <4> QED
        BY <2>2, <3>1, <4>2, <4>3
    <3> QED
      BY <2>3, <3>2, <3>3, <3>4
  <2>4. CASE work[w].pc \notin {"start", "job"}
    <3>1. c > work[w].last
          /\ work[w].pc \in {"page", "store", "checkpoint"}
               \cup (IF e.type = "reconciliation.requested" THEN Publishing ELSE {})
      BY <1>1, <1>3, <2>4 DEF Ahead
    <3>2. CASE work[w].pc = "page"
      <4>1. ReadPage(w)
        BY <3>2, StepsAt
      <4>2. \/ c \in work'[w].todo /\ work'[w].pc \in {"store", "candidate"}
            \/ c > work'[w].last /\ work'[w].pc \in {"store", "candidate"}
        BY <1>1, <2>1, <3>1, <4>1, PageTakes
      <4>3. /\ work'[w].pc = "store" => e.type = "job.updated"
            /\ work'[w].pc = "candidate" /\ e.type = "job.updated" => c \in work[w].seen
        <5>1. /\ work[w].event.type # "job.updated" => work'[w].pc # "store"
              /\ work'[w].pc = "candidate" /\ work[w].event.type = "job.updated" =>
                   ListActive(w, work[w].last) = {}
          BY <1>1, <4>1, PageTakes
        <5>2. work[w].last \in Cands \cup {0}
          BY <1>1 DEF Record
        <5> QED
          BY <1>1, <1>3, <3>1, <5>1, <5>2, EmptyListing
      <4> QED
        BY <1>1, <1>3, <2>1, <2>2, <4>2, <4>3 DEF Coming, Publishing
    <3>3. CASE work[w].pc = "store"
      <4>1. e.type = "job.updated"
        BY <2>1, <3>3 DEF Suits
      <4>2. work'[w].last = work[w].last /\ work'[w].pc \in {"store", "checkpoint"}
        <5>1. CASE Store(w)
          BY <1>1, <5>1, StoreSteps
        <5>2. CASE Stored(w)
          <6>1. Goes(w, "checkpoint")
            BY <1>3, <4>1, <5>2 DEF Stored
          <6> QED
            BY <1>1, <6>1, GoesTo
        <5> QED
          BY <3>3, <5>1, <5>2, StepsAt
      <4> QED
        BY <2>2, <3>1, <4>2
    <3>4. CASE work[w].pc = "checkpoint"
      <4>1. Goes(w, "page")
        BY <3>4, StepsAt DEF Checkpoint
      <4> QED
        BY <1>1, <2>2, <3>1, <4>1, GoesTo
    <3>5. CASE work[w].pc \in Publishing
      <4>1. e.type = "reconciliation.requested"
        BY <3>1, <3>5 DEF Publishing
      <4>2. work'[w].last = work[w].last
            /\ (work'[w].pc \in {"rank", "compare", "number", "publish"} \/ NextCandidate(w))
        BY <3>5, PublishGoes
      <4>3. work'[w].pc \in Publishing \cup {"checkpoint"}
        BY <1>1, <1>3, <4>1, <4>2, NextMoves DEF Publishing
      <4> QED
        BY <2>2, <3>1, <4>1, <4>2, <4>3
    <3> QED
      BY <3>1, <3>2, <3>3, <3>4, <3>5
  <2> QED
    BY <2>3, <2>4
<1> QED
  BY <1>2, <1>3

LEMMA JobKept ==
  ASSUME Solo, NEW w \in Workers, Handles(w), NEW c \in Cands, c \notin expired, profiles[c] > 0,
         NEW j \in Jobs, JobPending(c, j)
  PROVE  \/ JobPending(c, j)' \/ Coming(w, c)'
         \/ ReadAffected(w) /\ \A v \in 1..MaxJobVersion : ~Scored(c, j, v)
<1>1. /\ TypeInv /\ Holding(w) /\ work[w] \in Record /\ work[w].event \in Events /\ work[w].pc # "idle"
      /\ UNCHANGED <<jobs, profiles, owed, expired, queue>> /\ work'[w].event = work[w].event
      /\ \A u \in Workers : u = w
  BY HandlesFacts
<1>2. PICK v \in 1..MaxJobVersion :
        /\ v = jobs[j].version
        /\ IF jobs[j].active THEN Ahead(JobChanged(j, v), c) ELSE Closing(JobExpired(j, v))
  BY DEF JobPending
<1>3. CASE jobs[j].active
  <2> DEFINE e == JobChanged(j, v)
  <2>1. e \in Events /\ e.type = "job.updated" /\ e.id = j /\ e.version = v /\ Ahead(e, c)
    BY <1>2, <1>3, EventsDiffer, EventFields
  <2>2. Ahead(e, c)' \/ Coming(w, c)'
    <3> HIDE DEF e
    <3> QED
      BY <1>2, <1>3, <2>1, AheadKept
  <2> QED
    BY <1>1, <1>2, <1>3, <2>2 DEF JobPending
<1>4. CASE ~jobs[j].active
  <2> DEFINE e == JobExpired(j, v)
  <2>1. e \in Events /\ e.type = "job.expired" /\ e.id = j /\ e.version = v /\ Closing(e)
    BY <1>2, <1>4, EventsDiffer, EventFields
  <2>2. Closing(e)' => JobPending(c, j)'
    BY <1>1, <1>2, <1>4 DEF JobPending
  <2> HIDE DEF e
  <2>3. CASE work[w].event # e
    BY <2>1, <2>2, <2>3, ElsewhereKept
  <2>4. CASE work[w].event = e
    <3>1. work[w].pc \in {"start", "affected"} /\ queue[e] \in Unsettled
      BY <1>1, <2>1, <2>4 DEF Closing
    <3>2. CASE work[w].pc = "start"
      <4>1. work'[w].pc = "affected"
        BY <1>1, <2>1, <2>4, <3>2, StepsAt, EndSteps
      <4> QED
        BY <1>1, <2>2, <3>1, <4>1 DEF Closing
    <3>3. CASE work[w].pc = "affected"
      <4>1. ReadAffected(w)
        BY <3>3, StepsAt
      <4> DEFINE affected == {d \in Cands \ work[w].seen :
                                \E u \in 1..MaxJobVersion : <<d, profiles[d], j, u>> \in scores}
      <4>2. work'[w] = [work[w] EXCEPT !.pc = "remove", !.todo = affected]
        BY <1>1, <2>1, <2>4, <4>1, MovesTo DEF ReadAffected
      <4>3. c \notin work[w].seen
        BY <1>1 DEF Holding
      <4>4. c \in affected \/ \A u \in 1..MaxJobVersion : ~Scored(c, j, u)
        BY <4>3 DEF Scored
      <4> HIDE DEF affected
      <4>5. work'[w].pc = "remove" /\ work'[w].todo = affected
        BY <1>1, <4>2 DEF Record
      <4> QED
        BY <4>1, <4>4, <4>5 DEF Coming
    <3> QED
      BY <3>1, <3>2, <3>3
  <2> QED
    BY <2>3, <2>4
<1> QED
  BY <1>3, <1>4

\* Where a handler's step leads.
LEMMA Whence ==
  ASSUME Solo, NEW w \in Workers, Handles(w), NEW c, c = Min(work[w].todo)
  PROVE  /\ work'[w].pc = "rank" =>
              /\ work[w].pc = "candidate" /\ work'[w].todo = work[w].todo
              /\ profiles[c] # 0 /\ work'[w].plan.profile = profiles[c]
         /\ work'[w].pc = "compare" =>
              /\ work[w].pc = "rank" /\ work'[w].todo = work[w].todo
              /\ work'[w].plan = [profile |-> work[w].plan.profile,
                                  ranking |-> Rank(c, work[w].plan.profile)]
         /\ work'[w].pc \in {"number", "publish"} =>
              /\ work[w].pc \in {"compare", "number"} /\ work'[w].todo = work[w].todo
              /\ work'[w].plan = work[w].plan
         /\ work'[w].pc = "remove" => ReadAffected(w)
         /\ work'[w].pc = "store" => ReadProfile(w) \/ ReadPage(w) \/ Store(w)
         /\ work'[w].pc \notin {"idle", "fail", "retry"}
<1>1. TypeInv /\ Holding(w) /\ work[w].event \in Events /\ work[w].pc # "idle"
  BY HandlesFacts
<1>2. CASE work[w].pc = "start"
  <2>1. Start(w)
    BY <1>2, StepsAt
  <2>2. work'[w].pc \in {"profile", "job", "affected", "page"}
    <3> DEFINE place == CASE work[w].event.type = "profile.ready" -> "profile"
                          [] work[w].event.type = "job.updated" -> "job"
                          [] work[w].event.type = "job.expired" -> "affected"
                          [] OTHER -> "page"
    <3>1. work'[w].pc = place
      BY <1>1, <2>1, EndSteps
    <3>2. place \in {"profile", "job", "affected", "page"}
      OBVIOUS
    <3> QED
      BY <3>1, <3>2
  <2> QED
    BY <2>2 DEF Publishing
<1>3. CASE work[w].pc \in {"profile", "job", "affected"}
  <2>1. ReadProfile(w) \/ ReadJob(w) \/ ReadAffected(w)
    BY <1>3, StepsAt
  <2>2. \/ ReadProfile(w) /\ work'[w].pc \in {"store", "finish"}
        \/ ReadJob(w) /\ work'[w].pc \in {"finish", "page", "affected"}
        \/ ReadAffected(w) /\ work'[w].pc = "remove"
    BY <1>1, <2>1, ReadSteps
  <2>3. ReadProfile(w) => work[w].event.type = "profile.ready"
    BY <1>1, AtWork DEF ReadProfile, Suits
  <2> QED
    BY <2>2, <2>3 DEF Publishing
<1>4. CASE work[w].pc = "page"
  <2>1. ReadPage(w)
    BY <1>4, StepsAt
  <2>2. work'[w].pc \in {"store", "candidate", "finish"}
    BY <1>1, <2>1, PageTakes
  <2> QED
    BY <2>1, <2>2
<1>5. CASE work[w].pc \in {"store", "checkpoint", "remove"}
  <2>1. \/ Store(w) /\ work'[w].pc = "store"
        \/ work'[w].pc \in {"checkpoint", "page"}
        \/ work'[w].pc \in {"candidate", "finish"} /\ work[w].event.type # "job.updated"
    <3>1. CASE Store(w)
      BY <1>1, <3>1, StoreSteps
    <3>2. CASE Stored(w)
      <4>1. CASE work[w].event.type = "profile.ready"
        <5>1. PublishFor(w, {work[w].event.id})
          BY <3>2, <4>1 DEF Stored
        <5> QED
          BY <1>1, <4>1, <5>1, PublishForMoves
      <4>2. CASE work[w].event.type # "profile.ready"
        <5>1. Goes(w, "checkpoint")
          BY <3>2, <4>2 DEF Stored
        <5> QED
          BY <1>1, <5>1, GoesTo
      <4> QED
        BY <4>1, <4>2
    <3>3. CASE Checkpoint(w)
      <4>1. Goes(w, "page")
        BY <3>3 DEF Checkpoint
      <4> QED
        BY <1>1, <4>1, GoesTo
    <3>4. CASE RemoveJob(w)
      <4>1. work[w].event.type = "job.expired"
        BY <1>1, <3>4 DEF RemoveJob, Holding
      <4>2. work'[w].pc \in {"candidate", "finish"}
        BY <1>1, <3>4, StoreSteps
      <4> QED
        BY <4>1, <4>2
    <3> QED
      BY <1>5, <3>1, <3>2, <3>3, <3>4, StepsAt
  <2> QED
    BY <2>1 DEF Publishing
<1>6. CASE work[w].pc \in Publishing
  <2>1. ReadCandidate(w) \/ ReadRanking(w) \/ Compare(w) \/ Number(w) \/ NextCandidate(w)
    BY <1>6, StepsAt DEF Publishing
  <2>2. CASE NextCandidate(w)
    <3>1. work'[w].pc \in {"candidate", "checkpoint", "finish"}
      BY <1>1, <2>2, NextMoves
    <3> QED
      BY <1>6, <3>1
  <2>3. CASE ~NextCandidate(w) /\ ReadCandidate(w)
    BY <1>1, <1>6, <2>3, PublishMoves DEF ReadCandidate
  <2>4. CASE ~NextCandidate(w) /\ ReadRanking(w)
    BY <1>1, <1>6, <2>4, PublishMoves DEF ReadRanking
  <2>5. CASE ~NextCandidate(w) /\ Compare(w)
    BY <1>1, <1>6, <2>5, PublishMoves DEF Compare
  <2>6. CASE ~NextCandidate(w) /\ Number(w)
    BY <1>1, <1>6, <2>6, PublishMoves DEF Number
  <2> QED
    BY <2>1, <2>2, <2>3, <2>4, <2>5, <2>6
<1>7. CASE work[w].pc = "finish"
  <2>1. Finish(w)
    BY <1>7 DEF Handles, HandlerStep, Start, ReadProfile, ReadJob, ReadPage, Store, Stored, Checkpoint,
         ReadAffected, RemoveJob, ReadCandidate, ReadRanking, Compare, Number, Publish
  <2>2. Goes(w, "acknowledge")
    BY <2>1 DEF Finish
  <2>3. work'[w].pc = "acknowledge"
    BY <1>1, <2>2, GoesTo
  <2> QED
    BY <1>7, <2>3
<1> QED
  BY <1>2, <1>3, <1>4, <1>5, <1>6, <1>7, StepsAt

-----------------------------------------------------------------------------
(* A step of a handler keeps what is pending, or publishes *)

LEMMA RankMembers ==
  ASSUME NEW c, NEW p, NEW j \in Jobs, NEW v \in 1..MaxJobVersion
  PROVE  <<j, v>> \in Rank(c, p) <=>
           <<c, p, j, v>> \in scores /\ jobs[j].active /\ jobs[j].version = v
<1>1. <<j, v>> \in JobVersions /\ <<j, v>>[1] = j /\ <<j, v>>[2] = v
  BY DEF JobVersions
<1> QED
  BY <1>1 DEF Rank

\* Inside publish_for nothing that is pending is lost.
LEMMA PendingStays ==
  ASSUME Solo, NEW w \in Workers, Handles(w), work[w].pc \in Publishing, NEW c \in Cands
  PROVE  /\ ProfilePending(c) => ProfilePending(c)'
         /\ \A j \in Jobs : JobPending(c, j) => JobPending(c, j)'
<1>1. /\ UNCHANGED <<jobs, profiles, owed, expired, queue>> /\ work'[w].event = work[w].event
      /\ \A u \in Workers : u = w
  BY HandlesFacts
<1>2. ProfilePending(c) => ProfilePending(c)'
  <2>1. c \in owed \/ work[w].event # ProfileReady(c, profiles[c]) \/ ~ProfilePending(c)
    BY DEF ProfilePending, Publishing
  <2> QED
    BY <1>1, <2>1 DEF ProfilePending
<1>3. ASSUME NEW j \in Jobs, JobPending(c, j)
      PROVE  JobPending(c, j)'
  <2>1. PICK v \in 1..MaxJobVersion :
          /\ v = jobs[j].version
          /\ IF jobs[j].active THEN Ahead(JobChanged(j, v), c) ELSE Closing(JobExpired(j, v))
    BY <1>3 DEF JobPending
  <2>2. /\ JobChanged(j, v) \in Events /\ JobChanged(j, v).type = "job.updated"
        /\ JobExpired(j, v) \in Events
    BY EventsDiffer, EventFields
  <2>3. Ahead(JobChanged(j, v), c) => Ahead(JobChanged(j, v), c)'
    <3>1. Ahead(JobChanged(j, v), c) => work[w].event # JobChanged(j, v)
      BY <2>2 DEF Ahead, Publishing
    <3> QED
      BY <2>2, <3>1, ElsewhereKept
  <2>4. Closing(JobExpired(j, v)) => Closing(JobExpired(j, v))'
    <3>1. Closing(JobExpired(j, v)) => work[w].event # JobExpired(j, v)
      BY DEF Closing, Publishing
    <3> QED
      BY <2>2, <3>1, ElsewhereKept
  <2> QED
    BY <1>1, <2>1, <2>3, <2>4 DEF JobPending
<1> QED
  BY <1>2, <1>3

LEMMA GoodStays ==
  ASSUME Solo, NEW w \in Workers, Handles(w), work[w].pc \in Publishing, NEW c \in Cands, NEW r,
         Good(c, r)
  PROVE  Good(c, r)'
<1>1. jobs' = jobs /\ profiles' = profiles /\ scores' = scores
  <2>1. work[w].pc \notin {"store", "remove"}
    BY DEF Publishing
  <2> QED
    BY <2>1, HandlesFacts, StepsAt
<1>2. Rank(c, profiles[c])' = Rank(c, profiles[c])
  BY <1>1 DEF Rank
<1>3. \A j \in Jobs : Shows(c, r, j) => Shows(c, r, j)'
  BY <1>1, <1>2, PendingStays DEF Shows
<1> QED
  BY <1>1, <1>3 DEF Good, Scored

\* A candidate at the head of a worker's list is published for, or needs no publication.
LEMMA ComingKept ==
  ASSUME Solo, NEW w \in Workers, Handles(w), NEW c \in Cands, c \notin expired, profiles[c] > 0,
         Coming(w, c)
  PROVE  Coming(w, c)' \/ ProfilePending(c)' \/ UpToDate(c)'
<1>1. /\ TypeInv /\ Holding(w) /\ work[w] \in Record /\ work[w].event \in Events /\ work[w].pc # "idle"
      /\ UNCHANGED <<jobs, profiles, owed, expired, queue>> /\ work'[w].event = work[w].event
  BY HandlesFacts
<1>2. c \in work[w].todo /\ c \notin work[w].seen
  BY <1>1 DEF Coming, Holding
<1>3. CASE work[w].pc \in {"page", "store", "checkpoint"}
  <2>1. work[w].event.type = "job.updated"
    BY <1>3 DEF Coming, Publishing
  <2>2. c \in work'[w].todo /\ work'[w].pc \in {"page", "store", "checkpoint", "candidate"}
    <3>1. CASE ReadPage(w)
      BY <1>1, <1>2, <2>1, <3>1, PageTakes
    <3>2. CASE Store(w)
      <4>1. PICK s : work'[w] = [work[w] EXCEPT !.found = work[w].found \ {s}]
        BY <1>1, <3>2, MovesTo DEF Store
      <4> QED
        BY <1>1, <1>2, <1>3, <3>2, <4>1 DEF Store, Record
    <3>3. CASE Stored(w)
      <4>1. Goes(w, "checkpoint")
        BY <2>1, <3>3 DEF Stored
      <4> QED
        BY <1>1, <1>2, <4>1, GoesTo
    <3>4. CASE Checkpoint(w)
      <4>1. Goes(w, "page")
        BY <3>4 DEF Checkpoint
      <4> QED
        BY <1>1, <1>2, <4>1, GoesTo
    <3> QED
      BY <1>3, <3>1, <3>2, <3>3, <3>4, StepsAt
  <2> QED
    BY <1>1, <2>1, <2>2 DEF Coming, Publishing
<1>4. CASE work[w].pc = "remove"
  <2>1. PublishFor(w, work[w].todo)
    BY <1>4, StepsAt DEF RemoveJob
  <2>2. work'[w].todo = work[w].todo /\ work'[w].pc = "candidate"
    BY <1>1, <1>2, <2>1, PublishForMoves
  <2> QED
    BY <1>2, <2>2 DEF Coming, Publishing
<1>5. CASE work[w].pc \in Publishing
  <2>1. CASE ~NextCandidate(w)
    <3>1. work'[w].todo = work[w].todo /\ work'[w].pc \in {"rank", "compare", "number", "publish"}
      BY <1>5, <2>1, PublishGoes
    <3> QED
      BY <1>2, <3>1 DEF Coming, Publishing
  <2>2. CASE NextCandidate(w) /\ c # Min(work[w].todo)
    <3>1. c \in work'[w].todo /\ work'[w].pc = "candidate"
      BY <1>1, <1>2, <2>2, NextMoves
    <3> QED
      BY <3>1 DEF Coming, Publishing
  <2>3. CASE NextCandidate(w) /\ c = Min(work[w].todo)
    <3>1. PICK r : r = work[w].plan
      OBVIOUS
    <3>2. /\ work[w].pc \in {"compare", "publish"}
          /\ revisions'[c] # <<>> /\ revisions'[c][Len(revisions'[c])] = r
      <4>1. CASE work[w].pc = "publish"
        <5>1. revisions' = [revisions EXCEPT ![c] = Append(@, r)]
          BY <2>3, <3>1, <4>1, StepsAt
        <5>2. revisions[c] \in Seq(Revision) /\ r \in Revision /\ revisions'[c] = Append(revisions[c], r)
          BY <1>1, <3>1, <5>1 DEF TypeInv, TypeOK, Record
        <5>3. Len(revisions'[c]) = Len(revisions[c]) + 1 /\ Len(revisions[c]) \in Nat
          BY <5>2
        <5>4. revisions'[c] # <<>> /\ revisions'[c][Len(revisions'[c])] = r
          BY <5>2, <5>3
        <5> QED
          BY <4>1, <5>4
      <4>2. CASE work[w].pc # "publish"
        <5>1. revisions' = revisions
          BY <4>2, StepsAt
        <5>2. ReadCandidate(w) \/ ReadRanking(w) \/ Compare(w) \/ Number(w)
          BY <1>5, <4>2, StepsAt DEF Publishing
        <5>3. Compare(w) /\ revisions[c] # <<>> /\ Latest(c) = work[w].plan
          <6>1. work'[w].todo # work[w].todo /\ work'[w].pc \notin {"rank", "compare", "number", "publish"}
            BY <1>1, <1>2, <2>3, NextMoves
          <6>2. profiles[c] # 0 /\ c \in Cands
            OBVIOUS
          <6>3. ~ReadCandidate(w)
            BY <1>1, <1>2, <2>3, <6>1, <6>2, PublishMoves
          <6>4. ~ReadRanking(w) /\ ~Number(w)
            BY <1>1, <2>3, <6>1, PublishMoves
          <6> QED
            BY <1>1, <2>3, <5>2, <6>1, <6>3, <6>4, PublishMoves
        <5> QED
          BY <3>1, <5>1, <5>3 DEF Compare, Latest
      <4> QED
        BY <4>1, <4>2
    <3>3. Good(c, r) \/ ProfilePending(c)
      BY <2>3, <3>1, <3>2 DEF Handles, RepairInv, PlanFine
    <3>4. CASE ProfilePending(c)
      BY <1>5, <3>4, PendingStays
    <3>5. CASE Good(c, r)
      <4>1. Good(c, r)'
        BY <1>5, <3>5, GoodStays
      <4> QED
        BY <3>2, <4>1 DEF UpToDate, Good, Shows, Latest
    <3> QED
      BY <3>3, <3>4, <3>5
  <2> QED
    BY <2>1, <2>2, <2>3
<1> QED
  BY <1>3, <1>4, <1>5 DEF Coming

\* A candidate's scores change only under a worker that will publish for it.
LEMMA OwnScores ==
  ASSUME Solo, NEW w \in Workers, Handles(w), NEW c \in Cands, c \notin expired, profiles[c] > 0
  PROVE  \/ \A j \in Jobs, v \in 1..MaxJobVersion :
              <<c, profiles[c], j, v>> \in scores' <=> <<c, profiles[c], j, v>> \in scores
         \/ Coming(w, c) \/ ProfilePending(c)
<1>1. /\ TypeInv /\ Holding(w) /\ Batch(w) /\ work[w].event \in Events /\ work[w].pc # "idle"
      /\ \A u \in Workers : u = w
  BY HandlesFacts
<1>2. CASE Store(w)
  <2>1. PICK s \in work[w].found : scores' = scores \cup {s}
    BY <1>2 DEF Store
  <2>2. work[w].pc = "store" /\ work[w].event.type \in {"profile.ready", "job.updated"}
    BY <1>1, <1>2, AtWork DEF Store, Suits
  <2>3. CASE s[1] = c /\ s[2] = profiles[c] /\ work[w].event.type = "job.updated"
    <3>1. c \in work[w].todo
      BY <1>1, <2>1, <2>2, <2>3 DEF Batch
    <3> QED
      BY <2>2, <2>3, <3>1 DEF Coming
  <2>4. CASE s[1] = c /\ s[2] = profiles[c] /\ work[w].event.type = "profile.ready"
    <3>1. work[w].event.id = c /\ work[w].event.version = profiles[c]
      BY <1>1, <2>1, <2>2, <2>4 DEF Batch
    <3>2. work[w].event = ProfileReady(c, profiles[c])
      BY <1>1, <2>4, <3>1, EventFields
    <3> QED
      BY <1>1, <2>2, <3>2 DEF ProfilePending, Holding, Unsettled
  <2>5. CASE ~(s[1] = c /\ s[2] = profiles[c])
    <3>1. \A j, v : <<c, profiles[c], j, v>> # s
      BY <2>5
    <3> QED
      BY <2>1, <3>1
  <2> QED
    BY <2>2, <2>3, <2>4, <2>5
<1>3. CASE RemoveJob(w)
  <2>1. work[w].pc = "remove" /\ scores' = {s \in scores : s[3] # work[w].event.id}
    BY <1>3 DEF RemoveJob
  <2>2. CASE c \in work[w].todo
    BY <2>1, <2>2 DEF Coming
  <2>3. CASE c \notin work[w].todo
    <3>1. \/ ProfilePending(c)
          \/ \A v \in 1..MaxJobVersion : <<c, profiles[c], work[w].event.id, v>> \notin scores
      BY <2>1, <2>3 DEF Handles, RepairInv, AllAffected
    <3>2. \A j, v : <<c, profiles[c], j, v>>[3] = j
      OBVIOUS
    <3> QED
      BY <2>1, <3>1, <3>2
  <2> QED
    BY <2>2, <2>3
<1>4. CASE ~Store(w) /\ ~RemoveJob(w)
  <2>1. scores' = scores
    <3>1. CASE work[w].pc \notin {"store", "remove"}
      BY <3>1, StepsAt
    <3>2. CASE work[w].pc \in {"store", "remove"}
      <4>1. Stored(w)
        BY <1>4, <3>2, StepsAt
      <4> QED
        BY <4>1 DEF Stored
    <3> QED
      BY <3>1, <3>2
  <2> QED
    BY <2>1
<1> QED
  BY <1>2, <1>3, <1>4

LEMMA GoodKept ==
  ASSUME Solo, NEW w \in Workers, Handles(w), NEW c \in Cands, c \notin expired, profiles[c] > 0,
         NEW r, Good(c, r),
         \A j \in Jobs, v \in 1..MaxJobVersion :
           <<c, profiles[c], j, v>> \in scores' <=> <<c, profiles[c], j, v>> \in scores
  PROVE  Good(c, r)' \/ Coming(w, c)'
<1>1. jobs' = jobs /\ profiles' = profiles
  BY HandlesFacts
<1>2. \A j \in Jobs, v \in 1..MaxJobVersion :
        <<j, v>> \in Rank(c, profiles[c])' <=> <<j, v>> \in Rank(c, profiles[c])
  <2> SUFFICES ASSUME NEW j \in Jobs, NEW v \in 1..MaxJobVersion
               PROVE  <<j, v>> \in Rank(c, profiles[c])' <=> <<j, v>> \in Rank(c, profiles[c])
    OBVIOUS
  <2>1. <<j, v>> \in JobVersions /\ <<j, v>>[1] = j /\ <<j, v>>[2] = v
    BY DEF JobVersions
  <2> QED
    BY <1>1, <2>1 DEF Rank
<1>3. SUFFICES ASSUME ~Coming(w, c)' PROVE Good(c, r)'
  OBVIOUS
<1>4. ASSUME NEW j \in Jobs PROVE Shows(c, r, j)'
  <2>1. CASE \A v \in 1..MaxJobVersion : <<j, v>> \in r.ranking <=> <<j, v>> \in Rank(c, profiles[c])
    BY <1>2, <2>1 DEF Shows
  <2>2. CASE JobPending(c, j)
    <3>1. JobPending(c, j)' \/ \A v \in 1..MaxJobVersion : ~Scored(c, j, v)
      BY <1>3, <2>2, JobKept
    <3>2. CASE \A v \in 1..MaxJobVersion : ~Scored(c, j, v)
      <4>1. \A v \in 1..MaxJobVersion : <<j, v>> \notin r.ranking
        BY <3>2 DEF Good
      <4>2. \A v \in 1..MaxJobVersion : <<j, v>> \notin Rank(c, profiles[c])
        BY <3>2, RankMembers DEF Scored
      <4> QED
        BY <1>2, <4>1, <4>2 DEF Shows
    <3> QED
      BY <3>1, <3>2 DEF Shows
  <2> QED
    BY <2>1, <2>2 DEF Good, Shows
<1> QED
  BY <1>1, <1>4 DEF Good, Scored

LEMMA FineKept ==
  ASSUME Solo, NEW w \in Workers, Handles(w), NEW c \in Cands, c \notin expired, profiles[c] > 0,
         Fine(c)
  PROVE  Fine(c)'
<1>1. \A u \in Workers : u = w
  BY HandlesFacts
<1>2. CASE ProfilePending(c)
  <2>1. ProfilePending(c)' \/ Coming(w, c)'
    BY <1>2, ProfileKept
  <2> QED
    BY <2>1 DEF Fine
<1>3. CASE RepairPending(c)
  <2>1. PICK n \in 1..MaxCrashes : Ahead(Reconcile(n), c)
    BY <1>3 DEF RepairPending
  <2>2. Reconcile(n) \in Events /\ Reconcile(n).type = "reconciliation.requested"
    BY EventsDiffer, EventFields
  <2>3. Ahead(Reconcile(n), c)' \/ Coming(w, c)'
    BY <2>1, <2>2, AheadKept
  <2> QED
    BY <2>3 DEF Fine, RepairPending
<1>4. CASE Coming(w, c)
  <2>1. Coming(w, c)' \/ ProfilePending(c)' \/ UpToDate(c)'
    BY <1>4, ComingKept
  <2> QED
    BY <2>1 DEF Fine
<1>5. CASE UpToDate(c) /\ ~ProfilePending(c) /\ ~Coming(w, c)
  <2>1. PICK r : r = Latest(c)
    OBVIOUS
  <2>2. Good(c, r)' \/ Coming(w, c)'
    <3>1. Good(c, r)
      BY <1>5, <2>1 DEF UpToDate
    <3> QED
      BY <1>5, <3>1, OwnScores, GoodKept
  <2>3. revisions'[c] = revisions[c]
    <3>1. CASE work[w].pc # "publish"
      BY <3>1, StepsAt
    <3>2. CASE work[w].pc = "publish"
      <4>1. TypeInv /\ work[w].todo \subseteq Cands /\ work[w].todo # {}
        <5>1. TypeInv /\ Fits(work[w]) /\ work[w] \in Record
          BY HandlesFacts, AtWork
        <5> QED
          BY <3>2, <5>1 DEF Fits, Record, Publishing
      <4>2. Min(work[w].todo) # c
        <5>1. Min(work[w].todo) \in work[w].todo
          BY <4>1, ExtremesOfCands
        <5> QED
          BY <1>5, <3>2, <5>1 DEF Coming, Publishing
      <4>3. revisions' = [revisions EXCEPT ![Min(work[w].todo)] = Append(@, work[w].plan)]
        BY <3>2, StepsAt
      <4> QED
        BY <4>1, <4>2, <4>3 DEF TypeInv, TypeOK
    <3> QED
      BY <3>1, <3>2
  <2>4. revisions[c] # <<>>
    BY <1>5 DEF UpToDate
  <2>5. Good(c, r)' => UpToDate(c)'
    BY <2>1, <2>3, <2>4 DEF UpToDate, Good, Shows, Latest
  <2> QED
    BY <2>2, <2>5 DEF Fine
<1> QED
  BY <1>1, <1>2, <1>3, <1>4, <1>5 DEF Fine

\* What a worker has read for a candidate is still good when it publishes it.
LEMMA PlanKept ==
  ASSUME Solo, NEW w \in Workers, Handles(w)
  PROVE  PlanFine(w)'
<1>1. TypeInv /\ PlanFine(w) /\ profiles' = profiles /\ work[w].pc # "idle"
  BY HandlesFacts DEF Handles, RepairInv
<1>2. PICK c : c = Min(work[w].todo)
  OBVIOUS
<1>3. work'[w].pc \in {"rank", "compare", "number", "publish"} =>
        work[w].pc \in Publishing /\ work'[w].todo = work[w].todo /\ c \in Cands
  <2>1. SUFFICES ASSUME work'[w].pc \in {"rank", "compare", "number", "publish"}
                 PROVE  work[w].pc \in Publishing /\ work'[w].todo = work[w].todo /\ c \in Cands
    OBVIOUS
  <2>2. work[w].pc \in Publishing /\ work'[w].todo = work[w].todo
    BY <1>2, <2>1, Whence DEF Publishing
  <2>3. work[w].todo \subseteq Cands /\ work[w].todo # {}
    BY <1>1, <2>2, AtWork DEF Fits, Record
  <2> QED
    BY <1>2, <2>2, <2>3, ExtremesOfCands
<1>4. CASE work'[w].pc = "rank"
  <2>1. work'[w].todo = work[w].todo /\ work'[w].plan.profile = profiles'[c]
    BY <1>1, <1>2, <1>4, Whence
  <2> QED
    BY <1>2, <1>4, <2>1 DEF PlanFine
<1>5. CASE work'[w].pc \in {"compare", "number", "publish"}
  <2>1. PICK r : r = work'[w].plan
    OBVIOUS
  <2>2. Good(c, r) \/ ProfilePending(c)
    <3>1. CASE work'[w].pc = "compare"
      <4>1. work[w].pc = "rank"
            /\ r = [profile |-> work[w].plan.profile, ranking |-> Rank(c, work[w].plan.profile)]
        BY <1>2, <2>1, <3>1, Whence
      <4>2. work[w].plan.profile = profiles[c] \/ ProfilePending(c)
        BY <1>1, <1>2, <4>1 DEF PlanFine
      <4>3. CASE work[w].plan.profile = profiles[c]
        <5>1. r.profile = profiles[c] /\ r.ranking = Rank(c, profiles[c])
          BY <4>1, <4>3
        <5>2. \A j \in Jobs, v \in 1..MaxJobVersion : <<j, v>> \in r.ranking => Scored(c, j, v)
          BY <5>1, RankMembers DEF Scored
        <5> QED
          BY <5>1, <5>2 DEF Good, Shows
      <4> QED
        BY <4>2, <4>3
    <3>2. CASE work'[w].pc \in {"number", "publish"}
      <4>1. work[w].pc \in {"compare", "number"} /\ r = work[w].plan
        BY <1>2, <2>1, <3>2, Whence
      <4> QED
        BY <1>1, <1>2, <4>1 DEF PlanFine
    <3> QED
      BY <1>5, <3>1, <3>2
  <2>3. Good(c, r)' \/ ProfilePending(c)'
    BY <1>3, <1>5, <2>2, GoodStays, PendingStays
  <2>4. Min(work'[w].todo) = c
    BY <1>2, <1>3, <1>5
  <2> QED
    BY <1>5, <2>1, <2>3, <2>4 DEF PlanFine, Good, Shows, ProfilePending
<1> QED
  BY <1>4, <1>5 DEF PlanFine

\* A closing takes everyone who has a score of the job.
LEMMA AffectedKept ==
  ASSUME Solo, NEW w \in Workers, Handles(w)
  PROVE  AllAffected(w)'
<1>1. /\ TypeInv /\ Holding(w) /\ work[w] \in Record /\ work'[w].event = work[w].event
      /\ profiles' = profiles /\ expired' = expired
  BY HandlesFacts
<1>2. SUFFICES ASSUME work'[w].pc = "remove", NEW c \in Cands \ expired, NEW v \in 1..MaxJobVersion,
                      <<c, profiles[c], work[w].event.id, v>> \in scores'
               PROVE  c \in work'[w].todo
  BY <1>1 DEF AllAffected
<1>3. ReadAffected(w)
  BY <1>2, Whence
<1> DEFINE affected == {d \in Cands \ work[w].seen :
                          \E u \in 1..MaxJobVersion : <<d, profiles[d], work[w].event.id, u>> \in scores}
<1>4. work'[w] = [work[w] EXCEPT !.pc = "remove", !.todo = affected] /\ scores' = scores
  BY <1>1, <1>3, MovesTo DEF ReadAffected
<1>5. c \in affected
  BY <1>1, <1>2, <1>4 DEF Holding
<1> HIDE DEF affected
<1>6. work'[w].todo = affected
  BY <1>1, <1>4 DEF Record
<1> QED
  BY <1>5, <1>6

LEMMA BatchKept ==
  ASSUME Solo, NEW w \in Workers, Handles(w)
  PROVE  Batch(w)'
<1>1. /\ TypeInv /\ Batch(w) /\ work[w] \in Record /\ work'[w].event = work[w].event
      /\ work[w].event \in Events /\ work[w].pc # "idle" /\ profiles' = profiles
  BY HandlesFacts
<1>2. PICK c : c = Min(work[w].todo)
  OBVIOUS
<1>3. ASSUME work'[w].pc = "store", NEW s \in work'[w].found
      PROVE  /\ work[w].event.type = "job.updated" => s[1] \in work'[w].todo
             /\ work[w].event.type = "profile.ready" =>
                  s[1] = work[w].event.id /\ s[2] = work[w].event.version
  <2>1. ReadProfile(w) \/ ReadPage(w) \/ Store(w)
    BY <1>2, <1>3, Whence
  <2>2. CASE ReadProfile(w)
    <3>1. work'[w].found = {<<work[w].event.id, work[w].event.version, x[1], x[2]>> : x \in ActiveJobs}
      BY <1>1, <1>3, <2>2, ReadSteps
    <3>2. s[1] = work[w].event.id /\ s[2] = work[w].event.version
      BY <1>3, <3>1
    <3>3. work[w].event.type = "profile.ready"
      BY <1>1, <2>2, AtWork DEF ReadProfile, Suits
    <3> QED
      BY <3>2, <3>3
  <2>3. CASE ReadPage(w)
    BY <1>1, <1>3, <2>3, PageTakes
  <2>4. CASE Store(w)
    <3>1. PICK t : work'[w] = [work[w] EXCEPT !.found = work[w].found \ {t}]
      BY <1>1, <2>4, MovesTo DEF Store
    <3>2. work'[w].found \subseteq work[w].found /\ work'[w].todo = work[w].todo
      BY <1>1, <3>1 DEF Record
    <3> QED
      BY <1>1, <1>3, <2>4, <3>2 DEF Batch, Store
  <2> QED
    BY <2>1, <2>2, <2>3, <2>4
<1>4. ASSUME work'[w].pc \in {"rank", "compare", "number", "publish"}
      PROVE  profiles[Min(work'[w].todo)] > 0
  <2>1. work'[w].todo = work[w].todo
    BY <1>2, <1>4, Whence
  <2>2. CASE work'[w].pc = "rank"
    <3>1. work[w].pc = "candidate" /\ profiles[c] # 0
      BY <1>2, <2>2, Whence
    <3>2. work[w].todo \subseteq Cands /\ work[w].todo # {}
      BY <1>1, <3>1, AtWork DEF Fits, Record, Publishing
    <3>3. profiles[c] \in 0..MaxProfileVersion
      BY <1>1, <1>2, <3>2, ExtremesOfCands DEF TypeInv, TypeOK
    <3> QED
      BY <1>2, <2>1, <3>1, <3>3, BoundsAssumption
  <2>3. CASE work'[w].pc # "rank"
    <3>1. work[w].pc \in {"rank", "compare", "number"}
      BY <1>2, <1>4, <2>3, Whence
    <3> QED
      BY <1>1, <2>1, <3>1 DEF Batch
  <2> QED
    BY <2>2, <2>3
<1>5. work'[w].pc \notin {"idle", "fail", "retry"}
  BY <1>2, Whence
<1> QED
  BY <1>1, <1>3, <1>4, <1>5 DEF Batch

LEMMA FactsKept ==
  ASSUME Solo, NEW w \in Workers, Handles(w)
  PROVE  Facts'
<1>1. /\ TypeInv /\ Batch(w) /\ Holding(w) /\ work[w].event \in Events /\ work[w].pc # "idle"
      /\ UNCHANGED <<jobs, profiles, queue, crashes>> /\ Facts /\ \A u \in Workers : u = w
      /\ \A e \in Events :
           \/ runs'[e].checkpoint \in {runs[e].checkpoint, 0}
           \/ Checkpoint(w) /\ e = work[w].event /\ runs'[e].checkpoint = work[w].last
  BY HandlesFacts, StepsAt DEF Handles, RepairInv
<1>2. \A u \in Workers : Batch(u)'
  BY <1>1, BatchKept
<1>3. ASSUME NEW c \in Cands, revisions'[c] # <<>> PROVE profiles[c] > 0
  <2>1. CASE work[w].pc # "publish"
    BY <1>1, <1>3, <2>1, StepsAt DEF Facts
  <2>2. CASE work[w].pc = "publish"
    <3>1. revisions' = [revisions EXCEPT ![Min(work[w].todo)] = Append(@, work[w].plan)]
      BY <2>2, StepsAt
    <3>2. CASE c = Min(work[w].todo)
      BY <1>1, <2>2, <3>2 DEF Batch
    <3>3. CASE c # Min(work[w].todo)
      <4>1. revisions'[c] = revisions[c]
        BY <1>1, <3>1, <3>3 DEF TypeInv, TypeOK
      <4> QED
        BY <1>1, <1>3, <4>1 DEF Facts
    <3> QED
      BY <3>2, <3>3
  <2> QED
    BY <2>1, <2>2
<1>4. ASSUME NEW n \in 1..MaxCrashes, n > crashes
      PROVE  queue[Reconcile(n)] = "unknown" /\ runs'[Reconcile(n)].checkpoint = 0
  <2>1. queue[Reconcile(n)] = "unknown" /\ runs[Reconcile(n)].checkpoint = 0
    BY <1>1, <1>4 DEF Facts
  <2>2. Reconcile(n) \in Events /\ Reconcile(n) # work[w].event
    BY <1>1, <2>1, EventsDiffer DEF Holding
  <2> QED
    BY <1>1, <2>1, <2>2
<1> QED
  BY <1>1, <1>2, <1>3, <1>4 DEF Facts

\* The steps of a handler before its end keep the invariant.
LEMMA HandlerRepairs ==
  ASSUME Solo, NEW w \in Workers, Handles(w), ChurnInv', CoverInv'
  PROVE  RepairInv'
<1>1. /\ \A u \in Workers : u = w
      /\ profiles' = profiles /\ expired' = expired /\ raised' = raised
  BY HandlesFacts, StepsAt
<1>2. AllFine'
  <2>1. SUFFICES ASSUME ~raised, NEW c \in Cands \ expired, profiles[c] > 0 PROVE Fine(c)'
    BY <1>1 DEF AllFine
  <2>2. Fine(c)
    BY <2>1 DEF Handles, RepairInv, AllFine
  <2> QED
    BY <2>1, <2>2, FineKept
<1> QED
  BY <1>1, <1>2, PlanKept, AffectedKept, FactsKept DEF RepairInv

-----------------------------------------------------------------------------
(* The other steps *)

\* A handler that raises.
LEMMA StumbleRepairs ==
  ASSUME Solo, NEW w \in Workers, RepairInv, Raise(w) \/ Fail(w), ChurnInv', CoverInv'
  PROVE  RepairInv'
<1>1. TypeInv /\ Facts /\ Batch(w) /\ Holding(w) /\ \A u \in Workers : u = w
  BY DEF RepairInv, CoverInv, Facts, Solo
<1>2. work[w].event \in Events /\ work[w].pc # "idle"
  BY <1>1, AtWork DEF Raise, Fail
<1>3. work'[w].pc \in {"fail", "retry"}
  BY <1>1, GoesTo DEF Raise, Fail
<1>4. raised' /\ UNCHANGED <<jobs, profiles, queue, revisions, crashes>>
  BY <1>1 DEF Raise, Fail, Batch, world, counters
<1>5. ASSUME NEW n \in 1..MaxCrashes, n > crashes
      PROVE  queue[Reconcile(n)] = "unknown" /\ runs'[Reconcile(n)].checkpoint = 0
  <2>1. queue[Reconcile(n)] = "unknown" /\ runs[Reconcile(n)].checkpoint = 0
    BY <1>1, <1>5 DEF Facts
  <2>2. Reconcile(n) \in Events /\ Reconcile(n) # work[w].event
    BY <1>1, <1>2, <2>1, EventsDiffer DEF Holding
  <2>3. ~Acknowledge(w) /\ ~Retry(w)
    BY <1>1, <1>3, EndSteps DEF Idle
  <2> QED
    BY <1>1, <2>1, <2>2, <2>3, HandlerTables DEF HandlerStep
<1>6. Facts'
  <2>1. Batch(w)'
    BY <1>3, <1>4 DEF Batch
  <2> QED
    BY <1>1, <1>4, <1>5, <2>1 DEF Facts
<1> QED
  BY <1>1, <1>3, <1>4, <1>6 DEF RepairInv, AllFine, AllAffected, PlanFine

\* Claiming an event, or ending one that nothing waits for, keeps what is pending.
LEMMA QueuePending ==
  ASSUME Solo, CoverInv, NEW w \in Workers, (\E e \in Events : Claim(w, e)) \/ Acknowledge(w),
         NEW c \in Cands
  PROVE  /\ \A d \in Events : (Ahead(d, c) => Ahead(d, c)') /\ (Closing(d) => Closing(d)')
         /\ profiles[c] > 0 /\ ProfilePending(c) => ProfilePending(c)'
         /\ \A j \in Jobs : JobPending(c, j) => JobPending(c, j)'
         /\ ~Coming(w, c)
<1>1. TypeInv /\ Holding(w) /\ \A u \in Workers : u = w
  BY DEF CoverInv, Solo
<1>2. UNCHANGED <<jobs, profiles, owed, runs>>
  BY DEF Claim, Acknowledge, world
<1>3. PICK e \in Events : \/ Claim(w, e)
                          \/ Acknowledge(w) /\ e = work[w].event
  BY <1>1, AtWork DEF Acknowledge
<1>4. queue \in [Events -> {"unknown", "waiting", "delayed", "taken", "done", "parked"}]
  BY <1>1 DEF TypeInv, TypeOK
<1>5. \/ /\ work[w].pc = "idle" /\ work'[w].pc = "start" /\ work'[w].event = e
         /\ queue' = [queue EXCEPT ![e] = "taken"]
      \/ /\ work[w].pc = "acknowledge" /\ work[w].event = e
         /\ work'[w].pc = "idle" /\ work'[w].event \notin Events
         /\ queue' = [queue EXCEPT ![e] = "done"]
  <2>1. CASE Claim(w, e)
    BY <1>1, <2>1, EndSteps DEF Claim
  <2>2. CASE Acknowledge(w) /\ e = work[w].event
    <3>1. work'[w] = Idle
      BY <1>1, <2>2, EndSteps
    <3> QED
      BY <2>2, <3>1, NotAnEvent DEF Acknowledge, Idle
  <2> QED
    BY <1>3, <2>1, <2>2
<1>6. ASSUME NEW d \in Events, queue[d] \in Unsettled, work[w].pc = "acknowledge" => work[w].event # d
      PROVE  /\ queue'[d] \in Unsettled
             /\ work'[w].event = d => work'[w].pc = "start"
  BY <1>4, <1>5, <1>6 DEF Unsettled
<1>7. ASSUME NEW d \in Events, Ahead(d, c) PROVE Ahead(d, c)'
  <2>1. work[w].event # d /\ c > runs[d].checkpoint /\ queue[d] \in Unsettled
    BY <1>5, <1>7 DEF Ahead, Publishing
  <2>2. queue'[d] \in Unsettled /\ (work'[w].event = d => work'[w].pc = "start")
    BY <1>6, <2>1
  <2> QED
    BY <1>1, <1>2, <2>1, <2>2 DEF Ahead
<1>8. ASSUME NEW d \in Events, Closing(d) PROVE Closing(d)'
  <2>1. queue'[d] \in Unsettled /\ (work'[w].event = d => work'[w].pc = "start")
    BY <1>6, <1>8 DEF Closing
  <2> QED
    BY <1>1, <2>1 DEF Closing
<1>9. ASSUME profiles[c] > 0, ProfilePending(c) PROVE ProfilePending(c)'
  <2>1. CASE c \in owed
    BY <1>2, <2>1 DEF ProfilePending
  <2>2. CASE c \notin owed
    <3> DEFINE d == ProfileReady(c, profiles[c])
    <3>1. queue[d] \in Unsettled /\ (work[w].event = d => work[w].pc \in {"start", "profile", "store"})
      BY <1>9, <2>2 DEF ProfilePending
    <3>2. d \in Events
      <4>1. profiles[c] \in 1..MaxProfileVersion
        BY <1>1, <1>9, BoundsAssumption DEF TypeInv, TypeOK
      <4> QED
        BY <4>1, EventsDiffer
    <3>3. queue'[d] \in Unsettled /\ (work'[w].event = d => work'[w].pc = "start")
      <4> HIDE DEF d
      <4> QED
        BY <1>6, <3>1, <3>2
    <3> QED
      BY <1>1, <1>2, <3>3 DEF ProfilePending
  <2> QED
    BY <2>1, <2>2
<1>10. ASSUME NEW j \in Jobs, JobPending(c, j) PROVE JobPending(c, j)'
  <2>1. \A v \in 1..MaxJobVersion : JobChanged(j, v) \in Events /\ JobExpired(j, v) \in Events
    BY EventsDiffer
  <2> QED
    BY <1>2, <1>7, <1>8, <1>10, <2>1 DEF JobPending
<1>11. ~Coming(w, c)
  BY <1>5 DEF Coming, Publishing
<1> QED
  BY <1>7, <1>8, <1>9, <1>10, <1>11

LEMMA QueueRepairs ==
  ASSUME Solo, NEW w \in Workers, RepairInv, ChurnInv', CoverInv',
         (\E e \in Events : Claim(w, e)) \/ Acknowledge(w) \/ Retry(w) \/ Crash(w)
  PROVE  RepairInv'
<1>1. TypeInv /\ Facts /\ Batch(w) /\ Holding(w) /\ AllFine /\ CoverInv /\ \A u \in Workers : u = w
  BY DEF RepairInv, CoverInv, Facts, Solo
<1>2. UNCHANGED <<jobs, profiles, expired, scores, revisions, runs>>
  BY DEF Claim, Acknowledge, Retry, Crash, world
<1>3. queue \in [Events -> {"unknown", "waiting", "delayed", "taken", "done", "parked"}]
  BY <1>1 DEF TypeInv, TypeOK
<1>4. work'[w].pc \in {"start", "idle"}
  BY <1>1, EndSteps DEF Idle
<1>5. /\ \A d \in Events : queue[d] # "unknown" => queue'[d] # "unknown"
      /\ \A n \in 1..MaxCrashes : n > crashes' =>
           n > crashes /\ (queue[Reconcile(n)] = "unknown" => queue'[Reconcile(n)] = "unknown")
  <2>1. CASE Crash(w)
    <3>1. /\ queue' = [queue EXCEPT ![Reconcile(crashes + 1)] = "waiting"] /\ crashes' = crashes + 1
          /\ crashes \in Nat
      BY <1>1, <2>1, BoundsAssumption DEF Crash, TypeInv, TypeOK
    <3>2. ASSUME NEW n \in 1..MaxCrashes, n > crashes'
          PROVE  n > crashes /\ queue'[Reconcile(n)] = queue[Reconcile(n)]
      <4>1. n > crashes /\ n # crashes + 1
        BY <3>1, <3>2
      <4>2. Reconcile(n) \in Events /\ Reconcile(n) # Reconcile(crashes + 1)
        BY <4>1, EventsDiffer DEF Reconcile
      <4> QED
        BY <1>3, <3>1, <4>1, <4>2
    <3> QED
      BY <1>3, <3>1, <3>2
  <2>2. CASE ~Crash(w)
    <3>1. PICK e \in Events, fate \in {"delayed", "taken", "done", "parked"} :
            queue' = [queue EXCEPT ![e] = fate] /\ queue[e] # "unknown" /\ crashes' = crashes
      <4>1. CASE \E e \in Events : Claim(w, e)
        BY <4>1 DEF Claim, counters
      <4>2. CASE Acknowledge(w) \/ Retry(w)
        <5>1. work[w].event \in Events /\ queue[work[w].event] = "taken"
          BY <1>1, <4>2, AtWork DEF Acknowledge, Retry, Holding
        <5>2. crashes' = crashes /\ \E fate \in {"delayed", "done", "parked"} : queue' = [queue EXCEPT ![work[w].event] = fate]
          BY <4>2 DEF Acknowledge, Retry, counters
        <5>3. queue[work[w].event] # "unknown"
          BY <5>1
        <5> QED
          BY <5>1, <5>2, <5>3
      <4> QED
        BY <2>2, <4>1, <4>2
    <3>2. \A n \in 1..MaxCrashes : Reconcile(n) \in Events
      BY EventsDiffer
    <3> QED
      BY <1>3, <3>1, <3>2
  <2> QED
    BY <2>1, <2>2
<1>6. Facts'
  <2>1. Batch(w)'
    <3>1. work'[w].pc = "idle" => work'[w].event = NoEvent
      <4>1. work'[w] = Idle \/ work'[w].pc = "start"
        BY <1>1, EndSteps
      <4> QED
        BY <4>1 DEF Idle
    <3> QED
      BY <1>4, <3>1 DEF Batch
  <2>2. \A j \in Jobs : jobs[j].active => queue'[JobChanged(j, jobs[j].version)] # "unknown"
    <3>1. ASSUME NEW j \in Jobs, jobs[j].active PROVE JobChanged(j, jobs[j].version) \in Events
      <4>1. jobs[j].version \in 0..MaxJobVersion /\ jobs[j].version > 0
        BY <1>1, <3>1 DEF TypeInv, TypeOK, ActiveHasVersion
      <4>2. jobs[j].version \in 1..MaxJobVersion
        BY <4>1, BoundsAssumption
      <4> QED
        BY <4>2, EventsDiffer
    <3> QED
      BY <1>1, <1>5, <3>1 DEF Facts
  <2> QED
    BY <1>1, <1>2, <1>5, <2>1, <2>2 DEF Facts
<1>7. AllFine'
  <2>1. SUFFICES ASSUME ~raised', NEW c \in Cands \ expired, profiles[c] > 0 PROVE Fine(c)'
    BY <1>2 DEF AllFine
  <2>2. CASE (\E e \in Events : Claim(w, e)) \/ Acknowledge(w)
    <3>1. ~raised
      BY <2>1, <2>2 DEF Claim, Acknowledge, counters
    <3>2. Fine(c)
      BY <1>1, <2>1, <3>1 DEF AllFine
    <3>3. CASE ProfilePending(c)
      BY <1>1, <2>1, <2>2, <3>3, QueuePending DEF Fine
    <3>4. CASE RepairPending(c)
      <4>1. PICK n \in 1..MaxCrashes : Ahead(Reconcile(n), c)
        BY <3>4 DEF RepairPending
      <4>2. Reconcile(n) \in Events
        BY EventsDiffer
      <4> QED
        BY <1>1, <2>2, <4>1, <4>2, QueuePending DEF Fine, RepairPending
    <3>5. CASE UpToDate(c)
      <4>1. \A j \in Jobs : JobPending(c, j) => JobPending(c, j)'
        BY <1>1, <2>2, QueuePending
      <4>2. Rank(c, profiles[c])' = Rank(c, profiles[c])
        BY <1>2 DEF Rank
      <4>3. UpToDate(c)'
        BY <1>2, <3>5, <4>1, <4>2 DEF UpToDate, Good, Shows, Scored, Latest
      <4> QED
        BY <4>3 DEF Fine
    <3>6. ~Coming(w, c)
      BY <1>1, <2>2, QueuePending
    <3> QED
      BY <1>1, <3>2, <3>3, <3>4, <3>5, <3>6 DEF Fine
  <2>3. CASE Retry(w)
    BY <1>1, <2>1, <2>3 DEF Retry, Batch, counters
  <2>4. CASE Crash(w)
    <3>1. PICK n \in 1..MaxCrashes : n = crashes + 1 /\ n > crashes
      BY <1>1, <2>4, BoundsAssumption DEF Crash, TypeInv, TypeOK
    <3>2. PICK e \in Events : e = Reconcile(n)
      BY EventsDiffer
    <3>3. queue' = [queue EXCEPT ![e] = "waiting"] /\ work'[w].event = NoEvent
      <4>1. work'[w] = Idle
        BY <1>1, <2>4, EndSteps
      <4>2. queue' = [queue EXCEPT ![e] = "waiting"]
        BY <2>4, <3>1, <3>2 DEF Crash
      <4> QED
        BY <4>1, <4>2 DEF Idle
    <3>4. runs[e].checkpoint = 0
      BY <1>1, <3>1, <3>2 DEF Facts
    <3>5. c > 0
      BY IdsAssumption
    <3>6. Ahead(e, c)'
      <4>1. queue'[e] = "waiting"
        BY <1>3, <3>2, <3>3
      <4>2. \A u \in Workers : work'[u].event # e
        BY <1>1, <3>2, <3>3, NotAnEvent
      <4>3. c > runs'[e].checkpoint
        BY <1>2, <3>4, <3>5
      <4> QED
        BY <4>1, <4>2, <4>3 DEF Ahead, Unsettled
    <3> QED
      BY <3>2, <3>6 DEF Fine, RepairPending
  <2> QED
    BY <2>2, <2>3, <2>4
<1> QED
  BY <1>1, <1>4, <1>6, <1>7 DEF RepairInv, AllAffected, PlanFine, Publishing

\* A change of the world announces what it changes, and touches no event at work.
LEMMA WorldMoves ==
  ASSUME CoverInv, Facts,
         (\E j \in Jobs : ImportJob(j) \/ CloseJob(j))
           \/ (\E c \in Cands : SaveProfile(c) \/ EnqueueProfile(c) \/ Expire(c))
  PROVE  /\ UNCHANGED <<work, runs, scores, revisions, raised, crashes>> /\ expired \subseteq expired'
         /\ \A e \in Events :
              \/ queue'[e] = queue[e]
              \/ /\ queue[e] = "unknown" /\ queue'[e] = "waiting"
                 /\ \A n \in 1..MaxCrashes : e # Reconcile(n)
         /\ \A j \in Jobs :
              \/ jobs'[j] = jobs[j]
              \/ \E v \in 1..MaxJobVersion, e \in Events :
                   /\ jobs'[j].version = v /\ queue[e] = "unknown" /\ queue'[e] = "waiting"
                   /\ e = IF jobs'[j].active THEN JobChanged(j, v) ELSE JobExpired(j, v)
         /\ \A c \in Cands :
              /\ profiles'[c] = profiles[c] \/ (c \in owed' /\ profiles'[c] > 0)
              /\ c \in owed =>
                   \/ c \in owed'
                   \/ /\ profiles'[c] = profiles[c]
                      /\ profiles[c] > 0 => queue[ProfileReady(c, profiles[c])] = "unknown"
                                              /\ queue'[ProfileReady(c, profiles[c])] = "waiting"
<1>1. TypeInv /\ Announced
  BY DEF CoverInv
<1>2. UNCHANGED <<work, runs, scores, revisions, raised, crashes>> /\ expired \subseteq expired'
  BY DEF ImportJob, CloseJob, SaveProfile, EnqueueProfile, Expire, counters
<1>3. /\ jobs \in [Jobs -> [version : 0..MaxJobVersion, active : BOOLEAN]]
      /\ profiles \in [Cands -> 0..MaxProfileVersion]
      /\ queue \in [Events -> {"unknown", "waiting", "delayed", "taken", "done", "parked"}]
  BY <1>1 DEF TypeInv, TypeOK
<1> DEFINE
  Quiet == \A e \in Events :
             \/ queue'[e] = queue[e]
             \/ /\ queue[e] = "unknown" /\ queue'[e] = "waiting"
                /\ \A n \in 1..MaxCrashes : e # Reconcile(n)
  Told == \A j \in Jobs :
            \/ jobs'[j] = jobs[j]
            \/ \E v \in 1..MaxJobVersion, e \in Events :
                 /\ jobs'[j].version = v /\ queue[e] = "unknown" /\ queue'[e] = "waiting"
                 /\ e = IF jobs'[j].active THEN JobChanged(j, v) ELSE JobExpired(j, v)
  Owing == \A c \in Cands :
             /\ profiles'[c] = profiles[c] \/ (c \in owed' /\ profiles'[c] > 0)
             /\ c \in owed =>
                  \/ c \in owed'
                  \/ /\ profiles'[c] = profiles[c]
                     /\ profiles[c] > 0 => queue[ProfileReady(c, profiles[c])] = "unknown"
                                             /\ queue'[ProfileReady(c, profiles[c])] = "waiting"
<1>4. ASSUME NEW j \in Jobs, NEW v \in 1..MaxJobVersion, NEW e \in Events, NEW active \in BOOLEAN,
             v = jobs[j].version + 1,
             jobs' = [jobs EXCEPT ![j] = [version |-> v, active |-> active]],
             queue' = [queue EXCEPT ![e] = "waiting"],
             e = IF active THEN JobChanged(j, v) ELSE JobExpired(j, v),
             profiles' = profiles, owed' = owed
      PROVE  Quiet /\ Told /\ Owing
  <2>1. v > jobs[j].version
    BY <1>3, <1>4
  <2>2. queue[e] = "unknown"
    BY <1>1, <1>4, <2>1 DEF Announced
  <2>3. \A n \in 1..MaxCrashes : e # Reconcile(n)
    BY <1>4, EventsDiffer
  <2>4. jobs'[j] = [version |-> v, active |-> active] /\ \A i \in Jobs \ {j} : jobs'[i] = jobs[i]
    BY <1>3, <1>4
  <2>5. queue'[e] = "waiting" /\ \A d \in Events \ {e} : queue'[d] = queue[d]
    BY <1>3, <1>4
  <2>6. Told
    <3>1. SUFFICES ASSUME NEW i \in Jobs, i = j
                   PROVE  /\ jobs'[i].version = v
                          /\ e = IF jobs'[i].active THEN JobChanged(i, v) ELSE JobExpired(i, v)
      BY <2>2, <2>4, <2>5
    <3>2. jobs'[i].version = v /\ jobs'[i].active = active
      BY <2>4, <3>1
    <3> QED
      BY <1>4, <3>1, <3>2
  <2>7. Quiet
    BY <2>2, <2>3, <2>5
  <2> QED
    BY <1>4, <2>6, <2>7
<1>5. ASSUME NEW d \in Cands, profiles[d] + 1 \in 1..MaxProfileVersion,
             profiles' = [profiles EXCEPT ![d] = profiles[d] + 1],
             owed' = owed \cup {d}, UNCHANGED <<jobs, queue>>
      PROVE  Quiet /\ Told /\ Owing
  <2>1. profiles'[d] > 0 /\ \A c \in Cands \ {d} : profiles'[c] = profiles[c]
    BY <1>3, <1>5
  <2> QED
    BY <1>5, <2>1
<1>6. ASSUME NEW d \in Cands, d \in owed, owed' = owed \ {d},
             queue' = [queue EXCEPT ![ProfileReady(d, profiles[d])] = "waiting"],
             UNCHANGED <<jobs, profiles>>
      PROVE  Quiet /\ Told /\ Owing
  <2>1. PICK new : new = ProfileReady(d, profiles[d])
    OBVIOUS
  <2>2. \A e \in Events : queue'[e] = IF e = new THEN "waiting" ELSE queue[e]
    BY <1>3, <1>6, <2>1
  <2>3. profiles[d] > 0 => profiles[d] \in 1..MaxProfileVersion
    BY <1>3, BoundsAssumption
  <2>4. profiles[d] \in 1..MaxProfileVersion => queue[new] = "unknown" /\ new \in Events
    BY <1>1, <1>6, <2>1, EventsDiffer DEF Announced
  <2>5. new \in Events => profiles[d] \in 1..MaxProfileVersion
    <3>1. new.type = "profile.ready" /\ new.version = profiles[d]
      BY <2>1, EventFields
    <3> QED
      BY <3>1, EventFields
  <2>6. \A n \in 1..MaxCrashes : new # Reconcile(n)
    BY <2>1, EventsDiffer
  <2>7. Quiet
    BY <2>2, <2>4, <2>5, <2>6
  <2>8. Owing
    <3>1. SUFFICES ASSUME NEW c \in Cands, c = d, profiles[c] > 0
                   PROVE  queue[ProfileReady(c, profiles[c])] = "unknown"
                            /\ queue'[ProfileReady(c, profiles[c])] = "waiting"
      BY <1>6
    <3> QED
      BY <2>1, <2>2, <2>3, <2>4, <3>1
  <2> QED
    BY <1>6, <2>7, <2>8
<1>7. ASSUME jobs' = jobs, profiles' = profiles, owed' = owed, queue' = queue
      PROVE  Quiet /\ Told /\ Owing
  <2>1. Quiet
    BY <1>7
  <2>2. Told
    BY <1>7
  <2>3. Owing
    BY <1>7
  <2> HIDE DEF Quiet, Told, Owing
  <2> QED
    BY <2>1, <2>2, <2>3
<1>8. Quiet /\ Told /\ Owing
  <2>1. \/ jobs' = jobs /\ profiles' = profiles /\ owed' = owed /\ queue' = queue
        \/ \E j \in Jobs, v \in 1..MaxJobVersion, e \in Events, active \in BOOLEAN :
             /\ v = jobs[j].version + 1
             /\ jobs' = [jobs EXCEPT ![j] = [version |-> v, active |-> active]]
             /\ queue' = [queue EXCEPT ![e] = "waiting"]
             /\ e = IF active THEN JobChanged(j, v) ELSE JobExpired(j, v)
             /\ profiles' = profiles /\ owed' = owed
        \/ \E c \in Cands :
             /\ profiles[c] + 1 \in 1..MaxProfileVersion
             /\ profiles' = [profiles EXCEPT ![c] = profiles[c] + 1]
             /\ owed' = owed \cup {c} /\ jobs' = jobs /\ queue' = queue
        \/ \E c \in Cands :
             /\ c \in owed /\ owed' = owed \ {c}
             /\ queue' = [queue EXCEPT ![ProfileReady(c, profiles[c])] = "waiting"]
             /\ jobs' = jobs /\ profiles' = profiles
    BY <1>1, WorldSteps
  <2> HIDE DEF Quiet, Told, Owing
  <2> QED
    BY <1>4, <1>5, <1>6, <1>7, <2>1
<1> QED
  BY <1>2, <1>8

\* Nothing that is pending is lost by it.
LEMMA WorldPending ==
  ASSUME Solo, RepairInv,
         (\E j \in Jobs : ImportJob(j) \/ CloseJob(j))
           \/ (\E c \in Cands : SaveProfile(c) \/ EnqueueProfile(c) \/ Expire(c)),
         NEW c \in Cands
  PROVE  /\ \A d \in Events : (Ahead(d, c) => Ahead(d, c)') /\ (Closing(d) => Closing(d)')
         /\ \A j \in Jobs : JobPending(c, j) \/ jobs'[j] # jobs[j] => JobPending(c, j)'
         /\ (profiles[c] > 0 /\ ProfilePending(c)) \/ profiles'[c] # profiles[c] => ProfilePending(c)'
         /\ \A w \in Workers : Coming(w, c) => Coming(w, c)'
<1>1. CoverInv /\ Facts /\ Announced /\ TypeInv
  BY DEF RepairInv, CoverInv
<1>2. UNCHANGED <<work, runs>>
  BY <1>1, WorldMoves
<1>3. ASSUME NEW d \in Events, queue[d] \in Unsettled PROVE queue'[d] = queue[d]
  BY <1>1, <1>3, WorldMoves DEF Unsettled
<1>4. ASSUME NEW d \in Events, queue[d] = "unknown", NEW w \in Workers PROVE work[w].event # d
  <2>1. CASE work[w].pc = "idle"
    BY <1>1, <2>1, NotAnEvent DEF Facts, Batch
  <2>2. CASE work[w].pc # "idle"
    BY <1>1, <1>4, <2>2 DEF CoverInv, Holding
  <2> QED
    BY <2>1, <2>2
<1>5. ASSUME NEW d \in Events PROVE (Ahead(d, c) => Ahead(d, c)') /\ (Closing(d) => Closing(d)')
  <2>1. Ahead(d, c) => Ahead(d, c)'
    BY <1>2, <1>3 DEF Ahead
  <2>2. Closing(d) => Closing(d)'
    BY <1>2, <1>3 DEF Closing
  <2> QED
    BY <2>1, <2>2
<1>6. ASSUME NEW j \in Jobs, jobs'[j] # jobs[j] PROVE JobPending(c, j)'
  <2>1. PICK v \in 1..MaxJobVersion, e \in Events :
          /\ jobs'[j].version = v /\ queue[e] = "unknown" /\ queue'[e] = "waiting"
          /\ e = IF jobs'[j].active THEN JobChanged(j, v) ELSE JobExpired(j, v)
    BY <1>1, <1>6, WorldMoves
  <2>2. \A w \in Workers : work'[w].event # e
    BY <1>2, <1>4, <2>1
  <2>3. CASE jobs'[j].active
    <3>1. e = JobChanged(j, v)
      BY <2>1, <2>3
    <3>2. runs'[e].checkpoint = 0
      BY <1>1, <1>2, <2>1, <3>1 DEF Announced
    <3>3. c > 0
      BY IdsAssumption
    <3>4. Ahead(e, c)'
      BY <2>1, <2>2, <3>2, <3>3 DEF Ahead, Unsettled
    <3> QED
      BY <2>1, <2>3, <3>1, <3>4 DEF JobPending
  <2>4. CASE ~jobs'[j].active
    <3>1. e = JobExpired(j, v)
      BY <2>1, <2>4
    <3>2. Closing(e)'
      BY <2>1, <2>2 DEF Closing, Unsettled
    <3> QED
      BY <2>1, <2>4, <3>1, <3>2 DEF JobPending
  <2> QED
    BY <2>3, <2>4
<1>7. ASSUME NEW j \in Jobs, jobs'[j] = jobs[j], JobPending(c, j) PROVE JobPending(c, j)'
  <2>1. \A v \in 1..MaxJobVersion : JobChanged(j, v) \in Events /\ JobExpired(j, v) \in Events
    BY EventsDiffer
  <2> QED
    BY <1>5, <1>7, <2>1 DEF JobPending
<1>8. ASSUME profiles'[c] # profiles[c] PROVE ProfilePending(c)'
  BY <1>1, <1>8, WorldMoves DEF ProfilePending
<1>9. ASSUME profiles'[c] = profiles[c], profiles[c] > 0, ProfilePending(c) PROVE ProfilePending(c)'
  <2>1. PICK e \in Events : e = ProfileReady(c, profiles[c])
    <3>1. profiles[c] \in 1..MaxProfileVersion
      BY <1>1, <1>9, BoundsAssumption DEF TypeInv, TypeOK
    <3> QED
      BY <3>1, EventsDiffer
  <2>2. CASE c \in owed
    <3>1. c \in owed' \/ (queue[e] = "unknown" /\ queue'[e] = "waiting")
      BY <1>1, <1>9, <2>1, <2>2, WorldMoves
    <3>2. CASE c \in owed'
      BY <3>2 DEF ProfilePending
    <3>3. CASE queue[e] = "unknown" /\ queue'[e] = "waiting"
      <4>1. \A w \in Workers : work'[w].event # e
        BY <1>2, <1>4, <3>3
      <4> QED
        BY <1>9, <2>1, <3>3, <4>1 DEF ProfilePending, Unsettled
    <3> QED
      BY <3>1, <3>2, <3>3
  <2>3. CASE c \notin owed
    <3>1. queue[e] \in Unsettled /\ \A w \in Workers : work[w].event = e => work[w].pc \in {"start", "profile", "store"}
      BY <1>9, <2>1, <2>3 DEF ProfilePending
    <3>2. queue'[e] = queue[e]
      BY <1>3, <3>1
    <3> QED
      BY <1>2, <1>9, <2>1, <3>1, <3>2 DEF ProfilePending
  <2> QED
    BY <2>2, <2>3
<1>10. \A w \in Workers : Coming(w, c) => Coming(w, c)'
  BY <1>2 DEF Coming
<1> QED
  BY <1>5, <1>6, <1>7, <1>8, <1>9, <1>10

LEMMA WorldGood ==
  ASSUME Solo, RepairInv,
         (\E j \in Jobs : ImportJob(j) \/ CloseJob(j))
           \/ (\E c \in Cands : SaveProfile(c) \/ EnqueueProfile(c) \/ Expire(c)),
         NEW c \in Cands, NEW r, Good(c, r)
  PROVE  Good(c, r)' \/ ProfilePending(c)'
<1>1. scores' = scores
  BY WorldMoves DEF RepairInv
<1>2. CASE profiles'[c] # profiles[c]
  BY <1>2, WorldPending
<1>3. CASE profiles'[c] = profiles[c]
  <2>1. ASSUME NEW j \in Jobs PROVE Shows(c, r, j)'
    <3>1. CASE JobPending(c, j) \/ jobs'[j] # jobs[j]
      <4>1. JobPending(c, j)'
        BY <3>1, WorldPending
      <4> QED
        BY <4>1 DEF Shows
    <3>2. CASE jobs'[j] = jobs[j] /\ ~JobPending(c, j)
      <4>1. \A v \in 1..MaxJobVersion : <<j, v>> \in r.ranking <=> <<j, v>> \in Rank(c, profiles[c])
        BY <3>2 DEF Good, Shows
      <4>2. \A v \in 1..MaxJobVersion :
              <<j, v>> \in Rank(c, profiles[c])' <=> <<j, v>> \in Rank(c, profiles[c])
        <5> SUFFICES ASSUME NEW v \in 1..MaxJobVersion
                     PROVE  <<j, v>> \in Rank(c, profiles[c])' <=> <<j, v>> \in Rank(c, profiles[c])
          OBVIOUS
        <5>1. <<j, v>> \in JobVersions /\ <<j, v>>[1] = j /\ <<j, v>>[2] = v
          BY DEF JobVersions
        <5> QED
          BY <1>1, <1>3, <3>2, <5>1 DEF Rank
      <4> QED
        BY <4>1, <4>2 DEF Shows
    <3> QED
      BY <3>1, <3>2
  <2> QED
    BY <1>1, <1>3, <2>1 DEF Good, Scored
<1> QED
  BY <1>2, <1>3

LEMMA WorldRepairs ==
  ASSUME Solo, RepairInv, ChurnInv', CoverInv',
         (\E j \in Jobs : ImportJob(j) \/ CloseJob(j))
           \/ (\E c \in Cands : SaveProfile(c) \/ EnqueueProfile(c) \/ Expire(c))
  PROVE  RepairInv'
<1>1. TypeInv /\ TypeInv' /\ CoverInv /\ Facts /\ AllFine /\ \A w \in Workers : AllAffected(w) /\ PlanFine(w)
  BY DEF RepairInv, CoverInv
<1>2. UNCHANGED <<work, runs, scores, revisions, raised, crashes>> /\ expired \subseteq expired'
  BY <1>1, WorldMoves
<1>3. ASSUME NEW c \in Cands
      PROVE  /\ profiles[c] \in Nat /\ profiles'[c] \in Nat
             /\ profiles[c] > 0 => profiles'[c] > 0
  <2>1. profiles[c] \in Nat /\ profiles'[c] \in Nat
    BY <1>1 DEF TypeInv, TypeOK
  <2> QED
    BY <1>1, <2>1, WorldMoves
<1>4. ASSUME NEW w \in Workers PROVE Batch(w)' /\ PlanFine(w)' /\ AllAffected(w)'
  <2>1. PICK c : c = Min(work[w].todo)
    OBVIOUS
  <2>2. work[w].pc \in {"rank", "compare", "number", "publish"} => c \in Cands /\ profiles[c] > 0
    <3>1. work[w].pc \in {"rank", "compare", "number", "publish"} =>
            work[w].todo \subseteq Cands /\ work[w].todo # {}
      BY <1>1, AtWork DEF Fits, Record, Publishing
    <3> QED
      BY <1>1, <2>1, <3>1, ExtremesOfCands DEF Facts, Batch
  <2>3. Batch(w)'
    BY <1>1, <1>2, <1>3, <2>1, <2>2 DEF Facts, Batch
  <2>4. work[w].pc = "rank" => (work[w].plan.profile = profiles'[c] \/ ProfilePending(c)')
    <3>1. work[w].pc = "rank" => work[w].plan.profile = profiles[c] \/ ProfilePending(c)
      BY <1>1, <2>1 DEF PlanFine
    <3> QED
      BY <2>2, <3>1, WorldPending
  <2>5. PICK r : r = work[w].plan
    OBVIOUS
  <2>6. work[w].pc \in {"compare", "number", "publish"} => Good(c, r)' \/ ProfilePending(c)'
    <3>1. work[w].pc \in {"compare", "number", "publish"} => Good(c, r) \/ ProfilePending(c)
      BY <1>1, <2>1, <2>5 DEF PlanFine
    <3> QED
      BY <2>2, <3>1, WorldPending, WorldGood
  <2>7. PlanFine(w)'
    BY <1>2, <2>1, <2>4, <2>5, <2>6 DEF PlanFine, Good, Shows, ProfilePending
  <2>8. AllAffected(w)'
    <3>1. SUFFICES ASSUME work[w].pc = "remove", NEW d \in Cands \ expired', NEW v \in 1..MaxJobVersion,
                          <<d, profiles'[d], work[w].event.id, v>> \in scores
                   PROVE  d \in work[w].todo \/ ProfilePending(d)'
      BY <1>2 DEF AllAffected
    <3>2. CASE profiles'[d] # profiles[d]
      BY <3>2, WorldPending
    <3>3. CASE profiles'[d] = profiles[d]
      <4>1. d \in work[w].todo \/ ProfilePending(d)
        BY <1>1, <1>2, <3>1, <3>3 DEF AllAffected
      <4>2. profiles[d] > 0
        <5>1. <<d, profiles[d], work[w].event.id, v>> \in Scores
          BY <1>1, <3>1, <3>3 DEF TypeInv, TypeOK
        <5>2. profiles[d] \in 1..MaxProfileVersion
          BY <5>1 DEF Scores
        <5> QED
          BY <5>2, BoundsAssumption
      <4> QED
        BY <4>1, <4>2, WorldPending
    <3> QED
      BY <3>2, <3>3
  <2> QED
    BY <2>3, <2>7, <2>8
<1>5. Facts'
  <2>1. \A n \in 1..MaxCrashes : n > crashes => queue'[Reconcile(n)] = "unknown" /\ runs'[Reconcile(n)].checkpoint = 0
    <3>1. SUFFICES ASSUME NEW n \in 1..MaxCrashes, n > crashes
                   PROVE  queue'[Reconcile(n)] = queue[Reconcile(n)]
      BY <1>1, <1>2 DEF Facts
    <3>2. PICK e \in Events : e = Reconcile(n)
      BY EventsDiffer
    <3> QED
      BY <1>1, <3>2, WorldMoves
  <2>2. ASSUME NEW j \in Jobs, jobs'[j].active PROVE queue'[JobChanged(j, jobs'[j].version)] # "unknown"
    <3>1. CASE jobs'[j] # jobs[j]
      <4>1. PICK v \in 1..MaxJobVersion, e \in Events :
              /\ jobs'[j].version = v /\ queue[e] = "unknown" /\ queue'[e] = "waiting"
              /\ e = IF jobs'[j].active THEN JobChanged(j, v) ELSE JobExpired(j, v)
        BY <1>1, <3>1, WorldMoves
      <4> QED
        BY <2>2, <4>1
    <3>2. CASE jobs'[j] = jobs[j]
      <4>1. jobs[j].version \in 0..MaxJobVersion /\ jobs[j].version > 0
        BY <1>1, <2>2, <3>2 DEF TypeInv, TypeOK, ActiveHasVersion
      <4>2. jobs[j].version \in 1..MaxJobVersion
        BY <4>1, BoundsAssumption
      <4>3. PICK e \in Events : e = JobChanged(j, jobs[j].version)
        BY <4>2, EventsDiffer
      <4>4. queue[e] # "unknown"
        BY <1>1, <2>2, <3>2, <4>3 DEF Facts
      <4> QED
        BY <1>1, <3>2, <4>3, <4>4, WorldMoves
    <3> QED
      BY <3>1, <3>2
  <2> QED
    BY <1>1, <1>2, <1>3, <1>4, <2>1, <2>2 DEF Facts
<1>6. AllFine'
  <2>1. SUFFICES ASSUME ~raised, NEW c \in Cands \ expired', profiles'[c] > 0 PROVE Fine(c)'
    BY <1>2 DEF AllFine
  <2>2. CASE profiles'[c] # profiles[c]
    BY <2>2, WorldPending DEF Fine
  <2>3. CASE profiles'[c] = profiles[c]
    <3>1. Fine(c) /\ profiles[c] > 0
      BY <1>1, <1>2, <2>1, <2>3 DEF AllFine
    <3>2. CASE ProfilePending(c)
      BY <3>1, <3>2, WorldPending DEF Fine
    <3>3. CASE RepairPending(c)
      <4>1. PICK n \in 1..MaxCrashes : Ahead(Reconcile(n), c)
        BY <3>3 DEF RepairPending
      <4>2. Ahead(Reconcile(n), c)'
        BY <4>1, EventsDiffer, WorldPending
      <4> QED
        BY <4>2 DEF Fine, RepairPending
    <3>4. CASE \E w \in Workers : Coming(w, c)
      BY <3>4, WorldPending DEF Fine
    <3>5. CASE UpToDate(c)
      <4>1. PICK r : r = Latest(c)
        OBVIOUS
      <4>2. revisions[c] # <<>> /\ Good(c, r)
        BY <3>5, <4>1 DEF UpToDate
      <4>3. Good(c, r)' \/ ProfilePending(c)'
        BY <4>2, WorldGood
      <4>4. Good(c, r)' => UpToDate(c)'
        BY <1>2, <4>1, <4>2 DEF UpToDate, Good, Shows, Latest
      <4> QED
        BY <4>3, <4>4 DEF Fine
    <3> QED
      BY <3>1, <3>2, <3>3, <3>4, <3>5 DEF Fine
  <2> QED
    BY <2>2, <2>3
<1> QED
  BY <1>4, <1>5, <1>6 DEF RepairInv

LEMMA StepRepairs ==
  ASSUME Solo, RepairInv, [Next]_vars
  PROVE  RepairInv'
<1>1. TypeInv /\ ChurnInv /\ CoverInv
  BY DEF RepairInv, ChurnInv
<1>2. ChurnInv'
  BY <1>1, StepTypes, StepDiffers DEF ChurnInv
<1>3. CoverInv'
  BY <1>1, StepAccounts
<1>4. CASE UNCHANGED vars
  <2>1. UNCHANGED <<jobs, profiles, owed, expired, scores, revisions, queue, runs, work, raised, crashes>>
    BY <1>4 DEF vars
  <2>2. Facts'
    BY <2>1 DEF RepairInv, Facts, Batch
  <2>3. ASSUME NEW c
        PROVE  /\ ProfilePending(c)' <=> ProfilePending(c)
               /\ RepairPending(c)' <=> RepairPending(c)
               /\ \A w \in Workers : Coming(w, c)' <=> Coming(w, c)
               /\ \A r : Good(c, r)' <=> Good(c, r)
    <3>1. (ProfilePending(c)' <=> ProfilePending(c)) /\ (RepairPending(c)' <=> RepairPending(c))
      BY <2>1 DEF ProfilePending, RepairPending, Ahead
    <3>2. \A w \in Workers : Coming(w, c)' <=> Coming(w, c)
      BY <2>1 DEF Coming
    <3>3. \A j : JobPending(c, j)' <=> JobPending(c, j)
      BY <2>1 DEF JobPending, Ahead, Closing
    <3>4. Rank(c, profiles[c])' = Rank(c, profiles[c]) /\ \A j, v : Scored(c, j, v)' <=> Scored(c, j, v)
      BY <2>1 DEF Rank, Scored
    <3>5. \A r, j : Shows(c, r, j)' <=> Shows(c, r, j)
      BY <3>3, <3>4 DEF Shows
    <3>6. \A r : Good(c, r)' <=> Good(c, r)
      BY <2>1, <3>4, <3>5 DEF Good
    <3> QED
      BY <3>1, <3>2, <3>6
  <2>4. AllFine'
    <3>1. \A c : UpToDate(c)' <=> UpToDate(c)
      BY <2>1, <2>3 DEF UpToDate, Latest
    <3>2. \A c : Fine(c)' <=> Fine(c)
      BY <2>3, <3>1 DEF Fine
    <3> QED
      BY <2>1, <3>2 DEF RepairInv, AllFine
  <2>5. ASSUME NEW w \in Workers PROVE AllAffected(w)' /\ PlanFine(w)'
    <3>1. AllAffected(w) /\ PlanFine(w)
      BY DEF RepairInv
    <3>2. AllAffected(w)'
      BY <2>1, <2>3, <3>1 DEF AllAffected
    <3>3. PlanFine(w)'
      BY <2>1, <2>3, <3>1 DEF PlanFine
    <3> QED
      BY <3>2, <3>3
  <2> QED
    BY <1>2, <1>3, <2>2, <2>4, <2>5 DEF RepairInv
<1>5. CASE (\E j \in Jobs : ImportJob(j) \/ CloseJob(j))
             \/ (\E c \in Cands : SaveProfile(c) \/ EnqueueProfile(c) \/ Expire(c))
  BY <1>2, <1>3, <1>5, WorldRepairs
<1>6. ASSUME NEW w \in Workers,
             (\E e \in Events : Claim(w, e)) \/ HandlerStep(w) \/ Raise(w) \/ Crash(w)
      PROVE  RepairInv'
  <2>1. CASE (\E e \in Events : Claim(w, e)) \/ Acknowledge(w) \/ Retry(w) \/ Crash(w)
    BY <1>2, <1>3, <2>1, QueueRepairs
  <2>2. CASE Raise(w) \/ Fail(w)
    BY <1>2, <1>3, <2>2, StumbleRepairs
  <2>3. CASE HandlerStep(w) /\ ~Fail(w) /\ ~Acknowledge(w) /\ ~Retry(w)
    <3>1. Handles(w)
      BY <2>3 DEF Handles
    <3> QED
      BY <1>2, <1>3, <3>1, HandlerRepairs
  <2> QED
    BY <1>6, <2>1, <2>2, <2>3
<1> QED
  BY <1>4, <1>5, <1>6 DEF Next

LEMMA InitRepairs == Init => RepairInv
<1> SUFFICES ASSUME Init PROVE RepairInv
  OBVIOUS
<1>1. ChurnInv
  BY InitDiffers
<1>2. CoverInv
  BY InitAccounts
<1>3. \A w \in Workers : work[w].pc = "idle" /\ work[w].event = NoEvent
  BY DEF Init, Idle
<1>4. \A w \in Workers : Batch(w) /\ AllAffected(w) /\ PlanFine(w)
  BY <1>3 DEF Batch, AllAffected, PlanFine
<1>5. AllFine
  BY DEF Init, AllFine
<1>6. Facts
  <2>1. \A n \in 1..MaxCrashes : queue[Reconcile(n)] = "unknown" /\ runs[Reconcile(n)].checkpoint = 0
    BY EventsDiffer DEF Init
  <2>2. \A c \in Cands : revisions[c] = <<>>
    BY DEF Init
  <2>3. \A j \in Jobs : ~jobs[j].active
    BY DEF Init
  <2> QED
    BY <1>4, <2>1, <2>2, <2>3 DEF Facts
<1> QED
  BY <1>1, <1>2, <1>4, <1>5, <1>6 DEF RepairInv

\* With nothing left to do, what is pending is nothing: a revision agrees with
\* the ranking, and the ranking with the active jobs.
LEMMA SettledRepairs == RepairInv => RestartRepairs
<1> SUFFICES ASSUME RepairInv, overtaken = {}, ~raised, Settled, NEW c \in Cands \ expired
             PROVE  Current(c)
  BY DEF RestartRepairs, ReplayLosesNoChange, SettledIsCurrent
<1>1. TypeInv /\ ActiveHasVersion /\ Facts /\ AllFine /\ CoverInv
  BY DEF RepairInv, ChurnInv, TypeInv
<1>2. /\ profiles[c] \in 0..MaxProfileVersion
      /\ revisions[c] \in Seq(Revision)
      /\ \A j \in Jobs : jobs[j] \in [version : 0..MaxJobVersion, active : BOOLEAN]
  BY <1>1 DEF TypeInv, TypeOK
<1>3. /\ owed = {}
      /\ \A e \in Events : queue[e] \in {"unknown", "done"}
      /\ \A w \in Workers : work[w].pc = "idle"
  BY DEF Settled
<1>4. \A e \in Events : queue[e] \notin Unsettled
  BY <1>3 DEF Unsettled
<1>5. CASE profiles[c] = 0
  <2>1. revisions[c] = <<>>
    BY <1>1, <1>5 DEF Facts
  <2> QED
    BY <1>5, <2>1 DEF Current
<1>6. CASE profiles[c] # 0
  <2>1. profiles[c] \in 1..MaxProfileVersion
    BY <1>2, <1>6, BoundsAssumption
  <2>2. ProfileReady(c, profiles[c]) \in Events
    BY <2>1, EventsDiffer
  <2>3. ~ProfilePending(c)
    BY <1>3, <1>4, <2>2 DEF ProfilePending
  <2>4. ~RepairPending(c)
    BY <1>4, EventsDiffer DEF RepairPending, Ahead
  <2>5. \A w \in Workers : ~Coming(w, c)
    BY <1>3 DEF Coming, Publishing
  <2>6. Fine(c)
    BY <1>1, <2>1 DEF AllFine
  <2>7. revisions[c] # <<>> /\ Good(c, Latest(c))
    BY <2>3, <2>4, <2>5, <2>6 DEF Fine, UpToDate
  <2>8. Latest(c) \in Revision
    BY <1>2, <2>7 DEF Latest
  <2>9. ASSUME NEW j \in Jobs PROVE ~JobPending(c, j)
    BY <1>4, EventsDiffer DEF JobPending, Ahead, Closing
  <2>10. ASSUME NEW j \in Jobs, NEW v \in 1..MaxJobVersion
         PROVE  <<j, v>> \in Latest(c).ranking <=> <<j, v>> \in Rank(c, profiles[c])
    BY <2>7, <2>9 DEF Good, Shows
  <2>11. ASSUME NEW j \in Jobs, NEW v \in 1..MaxJobVersion
         PROVE  <<j, v>> \in Rank(c, profiles[c]) <=> jobs[j].active /\ jobs[j].version = v
    <3>1. SUFFICES ASSUME jobs[j].active, jobs[j].version = v
                   PROVE  <<c, profiles[c], j, v>> \in scores
      BY RankMembers
    <3>2. jobs[j] = [version |-> v, active |-> TRUE]
      BY <1>2, <3>1
    <3>3. Standing(c, j, v)
      BY <2>1, <3>2 DEF Standing
    <3>4. queue[JobChanged(j, v)] = "done"
      <4>1. queue[JobChanged(j, v)] # "unknown"
        BY <1>1, <3>1 DEF Facts
      <4> QED
        BY <1>3, <4>1, EventsDiffer
    <3>5. Covered(c, j, v)
      BY <1>1, <3>3, <3>4 DEF CoverInv, Accounts, AtEnd
    <3>6. ~Awaited(c)
      BY <1>3, <2>2 DEF Awaited
    <3> QED
      BY <3>5, <3>6 DEF Covered, Scored
  <2>12. \A x : x \in Latest(c).ranking <=> x \in ActiveJobs
    <3>1. TAKE x
    <3>2. CASE x \in Latest(c).ranking
      <4>1. PICK j \in Jobs, v \in 1..MaxJobVersion : x = <<j, v>>
        BY <2>8, <3>2 DEF Revision, JobVersions
      <4> QED
        BY <2>10, <2>11, <3>2, <4>1 DEF ActiveJobs
    <3>3. CASE x \in ActiveJobs
      <4>1. PICK j \in Jobs : jobs[j].active /\ x = <<j, jobs[j].version>>
        BY <3>3 DEF ActiveJobs
      <4>2. PICK v \in 1..MaxJobVersion : v = jobs[j].version
        <5>1. jobs[j].version > 0 /\ jobs[j].version \in 0..MaxJobVersion
          BY <1>1, <1>2, <4>1 DEF ActiveHasVersion
        <5> QED
          BY <5>1, BoundsAssumption
      <4>3. <<j, v>> \in Latest(c).ranking
        BY <2>10, <2>11, <4>1, <4>2
      <4> QED
        BY <3>3, <4>1, <4>2, <4>3
    <3> QED
      BY <3>2, <3>3
  <2>13. Latest(c).profile = profiles[c] /\ Latest(c).ranking = ActiveJobs
    BY <2>7, <2>12 DEF Good
  <2>14. Latest(c) = [profile |-> profiles[c], ranking |-> ActiveJobs]
    BY <2>8, <2>13 DEF Revision
  <2> QED
    BY <2>7, <2>14 DEF Current
<1> QED
  BY <1>5, <1>6

\* When every event has been handled, no handler has raised since a worker last
\* started and no closing overtook its reopened job, every retained candidate's
\* newest revision is for the current profile and ranks exactly the active jobs
\* at their current versions, whatever the order of events and crashes, with one
\* worker process.
THEOREM RepairSound == ASSUME Solo PROVE Spec => []RestartRepairs
<1>1. Init => RepairInv
  BY InitRepairs
<1>2. RepairInv /\ [Next]_vars => RepairInv'
  BY StepRepairs
<1>3. RepairInv => RestartRepairs
  BY SettledRepairs
<1> QED
  BY <1>1, <1>2, <1>3, PTL DEF Spec
=============================================================================
