-------------------------- MODULE ResumeAnalysisProofs --------------------------
(***************************************************************************)
(* Proofs about ResumeAnalysis, for every set of uploads and workers, with *)
(* or without leases that run out, and any bound on crashes.               *)
(***************************************************************************)
EXTENDS ResumeAnalysis, QueueRowsProofs

-----------------------------------------------------------------------------
(* Types *)

Record == [pc : Places, on : Analyses \cup {NoAnalysis}, version : Nat, seen : States]

\* A worker in the middle of a step has an analysis in hand.
InHand == \A w \in Workers : work[w].pc # "idle" => work[w].on \in Analyses

TypeInv == TypeOK /\ InHand

\* What a move of a worker does to the records.
LEMMA MoveTo ==
  ASSUME TypeOK, NEW w \in Workers, NEW now \in Record, Moves(w, now),
         now.pc # "idle" => now.on \in Analyses, InHand
  PROVE  /\ work' \in [Workers -> Record] /\ InHand' /\ work'[w] = now
         /\ \A u \in Workers \ {w} : work'[u] = work[u]
  BY DEF TypeOK, Moves, Record, InHand

LEMMA Home ==
  ASSUME TypeInv, NEW w \in Workers, Moves(w, Idle)
  PROVE  /\ work' \in [Workers -> Record] /\ InHand' /\ work'[w].pc = "idle"
         /\ \A u \in Workers \ {w} : work'[u] = work[u]
<1>1. Idle \in Record /\ Idle.pc = "idle"
  BY DEF Idle, Record, Places, States
<1> QED
  BY <1>1, MoveTo DEF TypeInv

\* A step from one place to another keeps what the worker has read.
LEMMA GoTo ==
  ASSUME TypeInv, NEW w \in Workers, work[w].pc # "idle", NEW place \in Places, Goes(w, place)
  PROVE  /\ work' \in [Workers -> Record] /\ InHand'
         /\ work'[w].pc = place /\ work'[w].on = work[w].on /\ work'[w].version = work[w].version
         /\ \A u \in Workers \ {w} : work'[u] = work[u]
<1> DEFINE now == [work[w] EXCEPT !.pc = place]
<1>1. work[w] \in Record
  BY DEF TypeInv, TypeOK, Record
<1>2. now \in Record /\ now.pc = place /\ now.on = work[w].on /\ now.version = work[w].version
  BY <1>1 DEF Record
<1>3. now.on \in Analyses /\ Moves(w, now)
  BY <1>2 DEF TypeInv, InHand, Goes
<1> HIDE DEF now
<1> QED
  BY <1>2, <1>3, MoveTo DEF TypeInv

\* The analysis in hand, as the actions name it.
LEMMA OnTypes ==
  ASSUME TypeInv, NEW w \in Workers, work[w].pc # "idle"
  PROVE  work[w].on \in Analyses /\ rows[work[w].on] \in Row /\ analysis[work[w].on] \in States
  BY DEF TypeInv, TypeOK, InHand, States

LEMMA CheckTypes ==
  ASSUME TypeInv, NEW w \in Workers, NEW from \in Places \ {"idle"}, NEW to \in Places, Check(w, from, to)
  PROVE  TypeInv'
<1>0. work[w].pc # "idle"
  BY DEF Check
<1>1. UNCHANGED <<others, analysis, profiles>>
  BY DEF Check
<1>2. rows' \in [Analyses -> Row] /\ work' \in [Workers -> Record] /\ InHand'
  <2>1. CASE Renewable(rows[work[w].on], w)
    <3>1. rows' = [rows EXCEPT ![work[w].on] = Renewed(@)] /\ Goes(w, to)
      BY <2>1 DEF Check
    <3>2. Renewed(rows[work[w].on]) \in Row
      BY <1>0, OnTypes, RowTypes
    <3> QED
      BY <1>0, <3>1, <3>2, GoTo DEF TypeInv, TypeOK
  <2>2. CASE ~Renewable(rows[work[w].on], w)
    BY <2>2, Home DEF Check, TypeInv, TypeOK
  <2> QED
    BY <2>1, <2>2
<1> QED
  BY <1>1, <1>2 DEF TypeInv, TypeOK, others, intake, matching, Record

\* A step of a worker that changes at most its record and its row.
LEMMA OwnTypes ==
  ASSUME TypeInv, UNCHANGED <<others, analysis, profiles>>, rows' \in [Analyses -> Row],
         work' \in [Workers -> Record], InHand'
  PROVE  TypeInv'
  BY DEF TypeInv, TypeOK, others, intake, matching, Record

LEMMA PutTypes ==
  ASSUME TypeInv, NEW a \in Analyses, NEW s \in States, NEW seen, Put(a, seen, s)
  PROVE  /\ analysis' \in [Analyses -> States]
         /\ \A b \in Analyses \ {a} : analysis'[b] = analysis[b]
         /\ analysis'[a] = IF Unwritten(seen, s) THEN analysis[a] ELSE s
<1>1. analysis \in [Analyses -> States]
  BY DEF TypeInv, TypeOK
<1>2. analysis' = [analysis EXCEPT ![a] = IF Unwritten(seen, s) THEN analysis[a] ELSE s]
  BY DEF Put
<1> QED
  BY <1>1, <1>2

\* The read before a write.
LEMMA ReadTypes ==
  ASSUME TypeInv, NEW w \in Workers, work[w].pc # "idle", NEW place \in Places, Reads(w, place)
  PROVE  /\ TypeInv' /\ UNCHANGED <<others, analysis, rows, profiles>>
         /\ work'[w].pc = place /\ work'[w].on = work[w].on /\ work'[w].version = work[w].version
         /\ work'[w].seen = analysis[work[w].on]
         /\ \A u \in Workers \ {w} : work'[u] = work[u]
<1> DEFINE mid == [work[w] EXCEPT !.pc = place]
           now == [mid EXCEPT !.seen = analysis[work[w].on]]
<1>1. work[w] \in Record /\ analysis[work[w].on] \in States /\ work[w].on \in Analyses
  BY OnTypes DEF TypeInv, TypeOK, Record
<1>2. mid \in Record /\ mid.pc = place /\ mid.on = work[w].on /\ mid.version = work[w].version
  BY <1>1 DEF Record
<1>3. Moves(w, now) /\ UNCHANGED <<others, analysis, rows, profiles>>
  BY DEF Reads
<1> HIDE DEF mid
<1>4. /\ now \in Record /\ now.pc = place /\ now.on = work[w].on /\ now.version = work[w].version
      /\ now.seen = analysis[work[w].on]
  BY <1>1, <1>2 DEF Record
<1> HIDE DEF now
<1>5. /\ work' \in [Workers -> Record] /\ InHand' /\ work'[w] = now
      /\ \A u \in Workers \ {w} : work'[u] = work[u]
  BY <1>1, <1>3, <1>4, MoveTo DEF TypeInv
<1> QED
  BY <1>3, <1>4, <1>5, OwnTypes DEF TypeInv, TypeOK

LEMMA LookTypes ==
  ASSUME TypeInv, NEW w \in Workers, NEW from \in Places \ {"idle"}, NEW place \in Places,
         Look(w, from, place)
  PROVE  /\ TypeInv' /\ UNCHANGED <<others, analysis, rows, profiles>>
         /\ work[w].pc = from /\ work'[w].on = work[w].on /\ work'[w].version = work[w].version
         /\ \/ work'[w].pc = place /\ work'[w].seen = analysis[work[w].on]
            \/ work'[w].pc = "refused"
         /\ \A u \in Workers \ {w} : work'[u] = work[u]
<1>1. work[w].pc = from /\ "refused" \in Places
  BY DEF Look, Places
<1>2. CASE Reads(w, place)
  BY <1>1, <1>2, ReadTypes
<1>3. CASE Goes(w, "refused") /\ UNCHANGED <<others, analysis, rows, profiles>>
  <2>1. /\ work' \in [Workers -> Record] /\ InHand'
        /\ work'[w].pc = "refused" /\ work'[w].on = work[w].on /\ work'[w].version = work[w].version
        /\ \A u \in Workers \ {w} : work'[u] = work[u]
    BY <1>1, <1>3, GoTo
  <2> QED
    BY <1>1, <1>3, <2>1, OwnTypes DEF TypeInv, TypeOK
<1> QED
  BY <1>2, <1>3 DEF Look

LEMMA MarkTypes ==
  ASSUME TypeInv, NEW w \in Workers, NEW from \in Places \ {"idle"}, NEW s \in States,
         NEW place \in Places, Mark(w, from, s, place)
  PROVE  /\ TypeInv' /\ UNCHANGED <<others, rows, profiles>>
         /\ work[w].pc = from /\ work'[w].pc = place
         /\ work'[w].on = work[w].on /\ work'[w].version = work[w].version
         /\ \A u \in Workers \ {w} : work'[u] = work[u]
         /\ \A b \in Analyses \ {work[w].on} : analysis'[b] = analysis[b]
         /\ analysis'[work[w].on] = IF Unwritten(work[w].seen, s) THEN analysis[work[w].on] ELSE s
<1>1. /\ work[w].pc = from /\ Put(work[w].on, work[w].seen, s) /\ Goes(w, place)
      /\ UNCHANGED <<others, rows, profiles>>
  BY DEF Mark
<1>2. work[w].on \in Analyses
  BY <1>1, OnTypes
<1>3. /\ analysis' \in [Analyses -> States]
      /\ \A b \in Analyses \ {work[w].on} : analysis'[b] = analysis[b]
      /\ analysis'[work[w].on] = IF Unwritten(work[w].seen, s) THEN analysis[work[w].on] ELSE s
  BY <1>1, <1>2, PutTypes
<1>4. /\ work' \in [Workers -> Record] /\ InHand'
      /\ work'[w].pc = place /\ work'[w].on = work[w].on /\ work'[w].version = work[w].version
      /\ \A u \in Workers \ {w} : work'[u] = work[u]
  BY <1>1, GoTo
<1>5. TypeInv'
  BY <1>1, <1>3, <1>4 DEF TypeInv, TypeOK, others, intake, matching, Record
<1> QED
  BY <1>1, <1>3, <1>4, <1>5

\* The places and states of the four updates.
Marks(w) == Extracting(w) \/ Profiling(w) \/ Awaiting(w) \/ RecordFailure(w)
Looks(w) == Extract(w) \/ Profile(w) \/ AwaitMatches(w)

\* What each of the updates writes and where it goes, as one fact.
Wrote(w, from, s, place) ==
  /\ UNCHANGED <<others, rows, profiles>>
  /\ work[w].pc = from /\ work'[w].pc = place
  /\ work'[w].on = work[w].on /\ work'[w].version = work[w].version
  /\ \A u \in Workers \ {w} : work'[u] = work[u]
  /\ \A b \in Analyses \ {work[w].on} : analysis'[b] = analysis[b]
  /\ analysis'[work[w].on] = IF Unwritten(work[w].seen, s) THEN analysis[work[w].on] ELSE s

LEMMA MarksWrite ==
  ASSUME TypeInv, NEW w \in Workers, Marks(w)
  PROVE  /\ TypeInv'
         /\ \/ Wrote(w, "extracting", "extracting", "refused")
            \/ Wrote(w, "extracting", "extracting", "profile")
            \/ Wrote(w, "profiling", "profiling", "save")
            \/ Wrote(w, "matching", "matching", "leave")
            \/ Wrote(w, "failed", "failed", "acknowledge")
<1>0. /\ {"extracting", "profiling", "matching", "failed"} \subseteq Places \ {"idle"}
      /\ {"refused", "profile", "save", "leave", "acknowledge"} \subseteq Places
      /\ {"extracting", "profiling", "matching", "failed"} \subseteq States
  BY DEF Places, Leased, States
<1>1. CASE Extracting(w)
  <2>1. PICK place \in {"refused", "profile"} : Mark(w, "extracting", "extracting", place)
    BY <1>1 DEF Extracting, Extracted
  <2> QED
    BY <1>0, <2>1, MarkTypes DEF Wrote
<1>2. CASE Profiling(w)
  BY <1>0, <1>2, MarkTypes DEF Profiling, Wrote
<1>3. CASE Awaiting(w)
  BY <1>0, <1>3, MarkTypes DEF Awaiting, Wrote
<1>4. CASE RecordFailure(w)
  BY <1>0, <1>4, MarkTypes DEF RecordFailure, Wrote
<1> QED
  BY <1>1, <1>2, <1>3, <1>4 DEF Marks

LEMMA LooksRead ==
  ASSUME TypeInv, NEW w \in Workers, Looks(w)
  PROVE  /\ TypeInv' /\ UNCHANGED <<others, analysis, rows, profiles>>
         /\ work'[w].on = work[w].on /\ work'[w].version = work[w].version
         /\ work[w].pc \in {"extract", "profile", "advance"}
         /\ \/ work[w].pc = "extract" /\ work'[w].pc = "extracting"
            \/ work[w].pc = "profile" /\ work'[w].pc = "profiling"
            \/ work[w].pc = "advance" /\ work'[w].pc = "matching"
            \/ work'[w].pc = "refused"
         /\ work'[w].pc # "refused" => work'[w].seen = analysis[work[w].on]
         /\ \A u \in Workers \ {w} : work'[u] = work[u]
<1>0. /\ {"extract", "profile", "advance"} \subseteq Places \ {"idle"}
      /\ {"extracting", "profiling", "matching"} \subseteq Places
  BY DEF Places, Leased
<1>1. CASE Extract(w)
  BY <1>0, <1>1, LookTypes DEF Extract
<1>2. CASE Profile(w)
  BY <1>0, <1>2, LookTypes DEF Profile
<1>3. CASE AwaitMatches(w)
  BY <1>0, <1>3, LookTypes DEF AwaitMatches
<1> QED
  BY <1>1, <1>2, <1>3 DEF Looks

LEMMA InitTypes == Init => TypeInv
<1> SUFFICES ASSUME Init PROVE TypeInv
  OBVIOUS
<1>1. Idle \in Record /\ Idle.pc = "idle" /\ 0 \in 0..MaxCrashes
  BY LapsingAssumption DEF Idle, Record, Places, States
<1>2. profiles \in Seq(Analyses) /\ published \in 0..Len(profiles)
  BY DEF Init
<1> QED
  BY <1>1, <1>2, RowTypes DEF Init, TypeInv, TypeOK, InHand, Record, States

LEMMA UploadTypes ==
  ASSUME TypeInv, NEW a \in Analyses,
         Store(a) \/ Accept(a) \/ Refuse(a) \/ Compensate(a) \/ CrashUpload(a)
  PROVE  TypeInv'
<1>1. UNCHANGED <<quality, profiles, announced, published, expired, work>>
  BY DEF Store, Accept, Refuse, Compensate, CrashUpload, matching
<1> DEFINE Counted == /\ upload' \in [Analyses -> {"new", "stored", "late", "refused", "stray", "over"}]
                      /\ files' \subseteq Analyses /\ crashes' \in 0..MaxCrashes
<1>2. Counted
  <2>1. ASSUME Store(a) \/ Refuse(a) \/ Compensate(a) PROVE Counted
    BY <2>1 DEF Store, Refuse, Compensate, TypeInv, TypeOK
  <2>2. ASSUME Accept(a) PROVE Counted
    BY <2>2 DEF Accept, TypeInv, TypeOK
  <2>3. ASSUME CrashUpload(a) PROVE Counted
    BY <2>3, LapsingAssumption DEF CrashUpload, TypeInv, TypeOK
  <2> QED
    BY <2>1, <2>2, <2>3
<1>3. analysis' \in [Analyses -> States] /\ rows' \in [Analyses -> Row]
  BY SMTT(40), RowTypes DEF Store, Accept, Refuse, Compensate, CrashUpload, TypeInv, TypeOK, States
<1> QED
  BY <1>1, <1>2, <1>3 DEF TypeInv, TypeOK, InHand, States

LEMMA ClaimTypes ==
  ASSUME TypeInv, NEW w \in Workers, NEW a \in Analyses, Claim(w, a)
  PROVE  TypeInv' /\ work'[w].pc = "open" /\ work'[w].on = a
<1> DEFINE now == [Idle EXCEPT !.pc = "open", !.on = a]
<1>1. now \in Record /\ now.pc = "open" /\ now.on = a
  BY DEF Idle, Record, Places, States
<1>2. Moves(w, now) /\ rows' = [rows EXCEPT ![a] = Claimed(@, w)] /\ UNCHANGED <<others, analysis, profiles>>
  BY DEF Claim
<1> HIDE DEF now
<1>3. work' \in [Workers -> Record] /\ InHand' /\ work'[w] = now
  BY <1>1, <1>2, MoveTo DEF TypeInv
<1>4. Claimed(rows[a], w) \in Row
  BY RowTypes DEF TypeInv, TypeOK
<1>5. rows' \in [Analyses -> Row]
  BY <1>2, <1>4 DEF TypeInv, TypeOK
<1> QED
  BY <1>1, <1>2, <1>3, <1>5, OwnTypes

LEMMA ExamineTypes ==
  ASSUME TypeInv, NEW w \in Workers, NEW a \in Analyses, Examine(w, a)
  PROVE  TypeInv' /\ work'[w].pc \in {"fail", "ready"} /\ work'[w].on = a
<1>1. PICK place \in {"fail", "ready"} : Moves(w, [Idle EXCEPT !.pc = place, !.on = a])
  BY DEF Examine
<1> DEFINE now == [Idle EXCEPT !.pc = place, !.on = a]
<1>2. now \in Record /\ now.pc = place /\ now.on = a
  BY DEF Idle, Record, Places, States
<1> HIDE DEF now
<1>3. work' \in [Workers -> Record] /\ InHand' /\ work'[w] = now
  BY <1>1, <1>2, MoveTo DEF TypeInv, now
<1>4. UNCHANGED <<others, analysis, rows, profiles>>
  BY DEF Examine
<1> QED
  BY <1>2, <1>3, <1>4, OwnTypes DEF TypeInv, TypeOK

\* Where process goes from its beginning.
LEMMA BeginTypes ==
  ASSUME TypeInv, NEW w \in Workers, Begin(w)
  PROVE  /\ TypeInv'
         /\ work'[w].on = work[w].on
         /\ \/ work'[w].pc = "refused"
            \/ work'[w].pc = "embed" /\ \E v \in 1..Len(profiles) : profiles[v] = work[w].on
            \/ work'[w].pc = "extract" /\ work'[w].version \in Nat \ {0}
<1> DEFINE n == Len(profiles)
<1>1. work[w].pc # "idle" /\ UNCHANGED <<others, analysis, rows, profiles>>
  BY DEF Begin
<1>2. n \in Nat /\ work[w] \in Record
  BY DEF TypeInv, TypeOK, Record
<1>3. "refused" \in Places /\ "embed" \in Places /\ "extract" \in Places
  BY DEF Places, Leased
<1>4. CASE expired
  BY <1>1, <1>3, <1>4, GoTo, OwnTypes DEF Begin, TypeInv, TypeOK
<1>5. CASE ~expired /\ n > 0 /\ profiles[n] = work[w].on
  <2> DEFINE mid == [work[w] EXCEPT !.pc = "embed"]
             now == [mid EXCEPT !.version = n]
  <2>1. n \in 1..n
    BY <1>2, <1>5
  <2>2. mid \in Record /\ mid.pc = "embed" /\ mid.on = work[w].on
    BY <1>2, <1>3 DEF Record
  <2>3. Moves(w, now)
    BY <1>5 DEF Begin
  <2> HIDE DEF n, mid
  <2>4. now \in Record /\ now.pc = "embed" /\ now.on = work[w].on
    BY <1>2, <2>1, <2>2 DEF Record
  <2> HIDE DEF now
  <2>5. work' \in [Workers -> Record] /\ InHand' /\ work'[w] = now
    BY <1>1, <2>3, <2>4, MoveTo, OnTypes DEF TypeInv
  <2> QED
    BY <1>1, <1>5, <2>1, <2>4, <2>5, OwnTypes DEF TypeInv, TypeOK, n
<1>6. CASE ~expired /\ ~(n > 0 /\ profiles[n] = work[w].on)
  <2> DEFINE mid == [work[w] EXCEPT !.pc = "extract"]
             now == [mid EXCEPT !.version = n + 1]
  <2>1. n + 1 \in Nat \ {0}
    BY <1>2
  <2>2. mid \in Record /\ mid.pc = "extract" /\ mid.on = work[w].on
    BY <1>2, <1>3 DEF Record
  <2>3. Moves(w, now)
    BY <1>6 DEF Begin
  <2> HIDE DEF n, mid
  <2>4. now \in Record /\ now.pc = "extract" /\ now.on = work[w].on /\ now.version = n + 1
    BY <1>2, <2>1, <2>2 DEF Record
  <2> HIDE DEF now
  <2>5. work' \in [Workers -> Record] /\ InHand' /\ work'[w] = now
    BY <1>1, <2>3, <2>4, MoveTo, OnTypes DEF TypeInv
  <2> QED
    BY <1>1, <2>1, <2>4, <2>5, OwnTypes DEF TypeInv, TypeOK
<1> QED
  BY <1>4, <1>5, <1>6

LEMMA SaveTypes ==
  ASSUME TypeInv, NEW w \in Workers, SaveProfile(w)
  PROVE  TypeInv'
<1> DEFINE a == work[w].on
           v == work[w].version
<1>1. work[w].pc # "idle" /\ UNCHANGED <<others, analysis, rows>>
  BY DEF SaveProfile
<1>2. a \in Analyses /\ profiles \in Seq(Analyses) /\ Len(profiles) \in Nat
  BY <1>1, OnTypes DEF TypeInv, TypeOK
<1>3. \E place \in {"embed", "refused"} : Goes(w, place)
  BY DEF SaveProfile
<1>4. profiles' = profiles \/ profiles' = Append(profiles, a)
  BY DEF SaveProfile
<1>5. work' \in [Workers -> Record] /\ InHand'
  BY <1>1, <1>3, GoTo DEF Places, Leased
<1> HIDE DEF a
<1>6. profiles' \in Seq(Analyses) /\ Len(profiles') \in Nat /\ Len(profiles') >= Len(profiles)
  BY <1>2, <1>4
<1>7. published' \in 0..Len(profiles')
  BY <1>1, <1>2, <1>6 DEF TypeInv, TypeOK, others, matching
<1> QED
  BY <1>1, <1>5, <1>6, <1>7 DEF TypeInv, TypeOK, others, intake, matching, Record

LEMMA MatchTypes ==
  ASSUME TypeInv, (\E a \in Analyses : Match(a) \/ ParkMatch(a)) \/ Republish \/ Expire
  PROVE  TypeInv'
<1>1. UNCHANGED <<intake, analysis, rows, profiles, work, crashes>>
  BY DEF Match, ParkMatch, Republish, Expire
<1>2. /\ announced' \in [Analyses -> {"absent", "waiting", "done", "failed"}]
      /\ expired' \in BOOLEAN
  BY DEF Match, ParkMatch, Republish, Expire, TypeInv, TypeOK, matching
<1>3. published' = published \/ published' = Len(profiles)
  BY DEF Match, ParkMatch, Republish, Expire, matching
<1>4. Len(profiles) \in 0..Len(profiles)
  BY DEF TypeInv, TypeOK
<1> QED
  BY <1>1, <1>2, <1>3, <1>4 DEF TypeInv, TypeOK, InHand, intake

LEMMA SettleTypes ==
  ASSUME TypeInv, NEW w \in Workers, RenewToFail(w) \/ Acknowledge(w) \/ Retry(w)
  PROVE  TypeInv'
<1> DEFINE a == work[w].on
<1>1. work[w].pc # "idle" /\ UNCHANGED <<others, analysis, profiles>>
  BY DEF RenewToFail, Acknowledge, Retry
<1>2. a \in Analyses /\ rows[a] \in Row
  BY <1>1, OnTypes
<1>3. Renewed(rows[a]) \in Row /\ Acknowledged(rows[a]) \in Row /\ Retried(rows[a]) \in Row
  BY <1>2, RowTypes
<1>4. rows' \in [Analyses -> Row]
  BY <1>3 DEF RenewToFail, Acknowledge, Retry, TypeInv, TypeOK
<1>5. work' \in [Workers -> Record] /\ InHand'
  <2>1. Moves(w, Idle) \/ \E place \in {"failing", "acknowledge"} : Goes(w, place)
    BY DEF RenewToFail, Acknowledge, Retry
  <2> QED
    BY <1>1, <2>1, GoTo, Home DEF Places
<1> QED
  BY <1>1, <1>4, <1>5, OwnTypes

\* The read and the write of finish_matching.
LEMMA DropTypes ==
  ASSUME TypeInv, NEW w \in Workers, ReadFailing(w) \/ ReadDropped(w) \/ ReadClosed(w)
  PROVE  /\ TypeInv' /\ UNCHANGED <<others, analysis, rows, profiles>>
         /\ \/ work[w].pc = "failing" /\ work'[w].pc = "failed" /\ work'[w].seen = analysis[work[w].on]
            \/ work[w].pc = "fail" /\ work'[w].pc = "drop"
            \/ work[w].pc = "ready" /\ work'[w].pc = "close"
            \/ work[w].pc = "ready" /\ work'[w].pc = "idle"
         /\ work'[w].pc # "idle" => work'[w].on = work[w].on
         /\ \A u \in Workers \ {w} : work'[u] = work[u]
<1>0. {"failed", "drop", "close"} \subseteq Places
  BY DEF Places
<1>1. CASE ReadFailing(w)
  BY <1>0, <1>1, ReadTypes DEF ReadFailing
<1>2. CASE ReadDropped(w)
  BY <1>0, <1>2, ReadTypes DEF ReadDropped
<1>3. CASE ReadClosed(w)
  <2>1. work[w].pc = "ready"
    BY <1>3 DEF ReadClosed
  <2>2. CASE Reads(w, "close")
    BY <1>0, <2>1, <2>2, ReadTypes
  <2>3. CASE Moves(w, Idle) /\ UNCHANGED <<others, analysis, rows, profiles>>
    BY <2>1, <2>3, Home, OwnTypes DEF TypeInv, TypeOK
  <2> QED
    BY <1>3, <2>2, <2>3 DEF ReadClosed
<1> QED
  BY <1>1, <1>2, <1>3

LEMMA ConcludeTypes ==
  ASSUME TypeInv, NEW w \in Workers, Conclude(w)
  PROVE  /\ TypeInv' /\ UNCHANGED <<others, rows, profiles>>
         /\ work[w].pc \in {"drop", "close"} /\ work'[w].pc = "idle"
         /\ \A u \in Workers \ {w} : work'[u] = work[u]
         /\ \A b \in Analyses \ {work[w].on} : analysis'[b] = analysis[b]
         /\ \/ analysis'[work[w].on] \in {analysis[work[w].on], "failed"}
            \/ analysis'[work[w].on] = "ready" /\ work[w].pc = "close"
<1>1. PICK s \in {"failed", "ready"} :
        Put(work[w].on, work[w].seen, s) /\ (s = "ready" => work[w].pc = "close")
  BY DEF Conclude
<1>2. /\ work[w].pc \in {"drop", "close"} /\ UNCHANGED <<others, rows, profiles>> /\ Moves(w, Idle)
  BY DEF Conclude
<1>3. work[w].on \in Analyses /\ s \in States
  BY <1>2, OnTypes DEF States
<1>4. /\ analysis' \in [Analyses -> States]
      /\ \A b \in Analyses \ {work[w].on} : analysis'[b] = analysis[b]
      /\ analysis'[work[w].on] = IF Unwritten(work[w].seen, s) THEN analysis[work[w].on] ELSE s
  BY <1>1, <1>3, PutTypes
<1>5. /\ work' \in [Workers -> Record] /\ InHand' /\ work'[w].pc = "idle"
      /\ \A u \in Workers \ {w} : work'[u] = work[u]
  BY <1>2, Home
<1>6. TypeInv'
  BY <1>2, <1>4, <1>5 DEF TypeInv, TypeOK, others, intake, matching, Record
<1> QED
  BY <1>1, <1>2, <1>4, <1>5, <1>6

LEMMA WalkTypes ==
  ASSUME TypeInv, NEW w \in Workers, Open(w) \/ Embed(w) \/ Enqueue(w) \/ Stumble(w)
  PROVE  TypeInv'
<1>1. work[w].pc # "idle" /\ UNCHANGED <<intake, published, expired, crashes, analysis, rows, profiles>>
  BY DEF Open, Embed, Enqueue, Stumble, others, matching, Leased
<1>2. \E place \in {"enter", "acknowledge", "refused", "announce", "advance", "retry"} : Goes(w, place)
  BY DEF Open, Embed, Enqueue, Stumble
<1>3. work' \in [Workers -> Record] /\ InHand'
  BY <1>1, <1>2, GoTo DEF Places, Leased
<1>4. announced' \in [Analyses -> {"absent", "waiting", "done", "failed"}]
  BY DEF Open, Embed, Enqueue, Stumble, others, matching, TypeInv, TypeOK
<1> QED
  BY <1>1, <1>3, <1>4 DEF TypeInv, TypeOK, intake, Record

LEMMA StepTypes == TypeInv /\ [Next]_vars => TypeInv'
<1> SUFFICES ASSUME TypeInv, [Next]_vars PROVE TypeInv'
  OBVIOUS
<1>1. ASSUME NEW w \in Workers, Process(w) PROVE TypeInv'
  <2>1. CASE Enter(w) \/ CheckSave(w) \/ CheckAnnounce(w) \/ Leave(w)
    BY <2>1, CheckTypes DEF Enter, CheckSave, CheckAnnounce, Leave, Places, Leased
  <2>2. CASE Looks(w) \/ Marks(w)
    BY <2>2, LooksRead, MarksWrite
  <2>3. CASE Begin(w) \/ SaveProfile(w)
    BY <2>3, BeginTypes, SaveTypes
  <2>4. CASE Embed(w) \/ Enqueue(w) \/ Stumble(w)
    BY <2>4, WalkTypes
  <2> QED
    BY <1>1, <2>1, <2>2, <2>3, <2>4 DEF Process, Looks, Marks
<1>2. ASSUME NEW w \in Workers, Step(w) PROVE TypeInv'
  BY <1>1, <1>2, ClaimTypes, ExamineTypes, WalkTypes, SettleTypes, DropTypes, ConcludeTypes,
     MarksWrite DEF Step, Marks
<1>3. ASSUME NEW w \in Workers, Crash(w) PROVE TypeInv'
  <2>1. crashes' \in 0..MaxCrashes
    BY <1>3, LapsingAssumption DEF Crash, TypeInv, TypeOK
  <2>2. work' \in [Workers -> Record] /\ InHand'
    BY <1>3, Home DEF Crash
  <2> QED
    BY <1>3, <2>1, <2>2 DEF Crash, TypeInv, TypeOK, intake, matching, Record
<1>4. CASE Tick
  <2>1. ASSUME NEW a \in Analyses
        PROVE  [Aged(rows[a]) EXCEPT !.lease = rows[a].lease] \in Row /\ Aged(rows[a]) \in Row
    <3>1. rows[a] \in Row
      BY DEF TypeInv, TypeOK
    <3>2. Aged(rows[a]) \in Row /\ rows[a].lease \in 0..Lease
      BY <3>1, RowTypes DEF Row
    <3> QED
      BY <3>2 DEF Row
  <2>2. rows' \in [Analyses -> Row]
    BY <1>4, <2>1 DEF Tick
  <2> QED
    BY <1>4, <2>2 DEF Tick, TypeInv, TypeOK, InHand, intake, matching
<1>5. CASE UNCHANGED vars
  BY <1>5 DEF vars, TypeInv, TypeOK, InHand
<1> QED
  BY <1>2, <1>3, <1>4, <1>5, UploadTypes, MatchTypes DEF Next

\* The tables and the worker's records always have the shape TypeOK gives them,
\* and a worker in the middle of a step has an analysis in hand.
THEOREM TypeCorrect == Spec => []TypeOK
<1>1. Init => TypeInv
  BY InitTypes
<1>2. TypeInv /\ [Next]_vars => TypeInv'
  BY StepTypes
<1>3. TypeInv => TypeOK
  BY DEF TypeInv
<1> QED
  BY <1>1, <1>2, <1>3, PTL DEF Spec

-----------------------------------------------------------------------------
(* The life of an analysis *)

Saved(a) == \E v \in 1..Len(profiles) : profiles[v] = a

\* What a worker has in hand was accepted, and its place says what has been
\* stored for it.
PlaceInv(w) ==
  LET place == work[w].pc
      a == work[w].on
  IN
  /\ place # "idle" => analysis[a] # "none"
  /\ place \in {"embed", "announce", "enqueue", "advance", "matching"} => Saved(a)
  /\ place \in {"advance", "matching"} => announced[a] # "absent"
  /\ place \in {"extract", "extracting", "profile", "profiling", "save", "saving"} =>
       work[w].version # 0
  /\ place \in {"matching", "failed"} => work[w].seen # "none"

RowsKnown == \A a \in Analyses : rows[a].state # "absent" => analysis[a] # "none"

LifeInv ==
  RowsKnown /\ (\A w \in Workers : PlaceInv(w)) /\ WaitingIsAnnounced

\* What every step but an acceptance keeps.
Kept ==
  \A a \in Analyses :
    /\ analysis'[a] = "none" <=> analysis[a] = "none"
    /\ Saved(a) => Saved(a)'
    /\ announced[a] # "absent" => announced'[a] # "absent"
    /\ analysis'[a] = "matching" =>
         analysis[a] = "matching" \/ (announced'[a] # "absent" /\ Saved(a)')
    /\ rows'[a].state # "absent" => rows[a].state # "absent" \/ analysis[a] # "none"

LEMMA QuietKept ==
  ASSUME TypeInv, UNCHANGED <<analysis, announced, profiles>>,
         \A a \in Analyses : rows'[a].state # "absent" => rows[a].state # "absent" \/ analysis[a] # "none"
  PROVE  Kept
  BY DEF Kept, Saved

\* Whoever stands still keeps what its place says.
LEMMA StandsStill ==
  ASSUME TypeInv, LifeInv, Kept, NEW w \in Workers, work'[w] = work[w]
  PROVE  PlaceInv(w)'
<1>1. PlaceInv(w) /\ (work[w].pc # "idle" => work[w].on \in Analyses)
  BY DEF LifeInv, TypeInv, InHand
<1> QED
  BY <1>1 DEF PlaceInv, Kept

\* A step that keeps all this needs only the place of its worker examined.
LEMMA KeptLife ==
  ASSUME TypeInv, LifeInv, Kept, \A w \in Workers : work'[w] = work[w] \/ PlaceInv(w)'
  PROVE  LifeInv'
<1>1. \A w \in Workers : PlaceInv(w)'
  BY StandsStill
<1>2. RowsKnown'
  BY DEF LifeInv, RowsKnown, Kept
<1>3. WaitingIsAnnounced'
  BY DEF LifeInv, WaitingIsAnnounced, Kept, Saved
<1> QED
  BY <1>1, <1>2, <1>3 DEF LifeInv

\* The steps of a worker that change only its record and its row.
LEMMA OwnLife ==
  ASSUME TypeInv, LifeInv, NEW w \in Workers, work[w].pc # "idle",
         UNCHANGED <<analysis, announced, profiles>>,
         \A a \in Analyses \ {work[w].on} : rows'[a] = rows[a],
         \A u \in Workers \ {w} : work'[u] = work[u],
         PlaceInv(w)'
  PROVE  LifeInv'
<1>1. work[w].on \in Analyses /\ analysis[work[w].on] # "none"
  BY DEF LifeInv, PlaceInv, TypeInv, InHand
<1>2. Kept
  BY <1>1, QuietKept
<1> QED
  BY <1>2, KeptLife

LEMMA CheckLife ==
  ASSUME TypeInv, LifeInv, NEW w \in Workers,
         NEW from, NEW to \in Places, from # "idle", Check(w, from, to),
         <<from, to>> \in {<<"enter", "begin">>, <<"save", "saving">>,
                          <<"leave", "acknowledge">>, <<"announce", "enqueue">>}
  PROVE  LifeInv'
<1>1. /\ work[w].pc = from /\ UNCHANGED <<analysis, announced, profiles>>
      /\ work[w].on \in Analyses /\ PlaceInv(w)
  BY DEF Check, others, matching, TypeInv, InHand, LifeInv
<1>2. \A a \in Analyses \ {work[w].on} : rows'[a] = rows[a]
  BY DEF Check, TypeInv, TypeOK
<1>3. Moves(w, Idle) \/ Goes(w, to)
  BY DEF Check
<1>4. CASE Moves(w, Idle)
  <2>1. work'[w].pc = "idle" /\ \A u \in Workers \ {w} : work'[u] = work[u]
    BY <1>4, Home
  <2>2. PlaceInv(w)'
    BY <2>1 DEF PlaceInv
  <2> QED
    BY <1>1, <1>2, <2>1, <2>2, OwnLife
<1>5. CASE Goes(w, to)
  <2>1. /\ work'[w].pc = to /\ work'[w].on = work[w].on /\ work'[w].version = work[w].version
        /\ \A u \in Workers \ {w} : work'[u] = work[u]
    BY <1>1, <1>5, GoTo
  <2>2. PlaceInv(w)'
    BY <1>1, <2>1 DEF PlaceInv, Saved
  <2> QED
    BY <1>1, <1>2, <2>1, <2>2, OwnLife
<1> QED
  BY <1>3, <1>4, <1>5

LEMMA LookLife ==
  ASSUME TypeInv, LifeInv, NEW w \in Workers,
         Looks(w) \/ ReadFailing(w) \/ ReadDropped(w) \/ ReadClosed(w)
  PROVE  LifeInv'
<1>1. /\ UNCHANGED <<others, analysis, rows, profiles>> /\ work[w].pc # "idle"
      /\ work'[w].pc # "idle" => work'[w].on = work[w].on
      /\ \A u \in Workers \ {w} : work'[u] = work[u]
      /\ \/ work[w].pc = "extract" /\ work'[w].pc = "extracting" /\ work'[w].version = work[w].version
         \/ work[w].pc = "profile" /\ work'[w].pc = "profiling" /\ work'[w].version = work[w].version
         \/ work[w].pc = "advance" /\ work'[w].pc = "matching"
         \/ work'[w].pc \in {"refused", "failed", "drop", "close", "idle"}
      /\ work'[w].pc \in {"matching", "failed"} => work'[w].seen = analysis[work[w].on]
  <2>1. CASE Looks(w)
    BY <2>1, LooksRead
  <2>2. CASE ReadFailing(w) \/ ReadDropped(w) \/ ReadClosed(w)
    BY <2>2, DropTypes
  <2> QED
    BY <2>1, <2>2
<1>2. work[w].on \in Analyses /\ PlaceInv(w)
  BY <1>1 DEF LifeInv, TypeInv, InHand
<1>3. PlaceInv(w)'
  BY <1>1, <1>2 DEF PlaceInv, Saved, others, matching
<1>4. UNCHANGED <<analysis, announced, profiles>> /\ \A a \in Analyses : rows'[a] = rows[a]
  BY <1>1 DEF others, matching
<1> QED
  BY <1>1, <1>3, <1>4, OwnLife

\* A write leaves the analysis known, and waiting only if it waited or its event is
\* in the queue.
LEMMA WriteKept ==
  ASSUME TypeInv, LifeInv, UNCHANGED <<announced, rows, profiles>>,
         NEW a \in Analyses, analysis[a] # "none",
         \A b \in Analyses \ {a} : analysis'[b] = analysis[b],
         analysis'[a] # "none",
         analysis'[a] = "matching" => analysis[a] = "matching" \/ (announced[a] # "absent" /\ Saved(a))
  PROVE  Kept
<1> SUFFICES ASSUME NEW b \in Analyses
             PROVE  /\ analysis'[b] = "none" <=> analysis[b] = "none"
                    /\ analysis'[b] = "matching" =>
                         analysis[b] = "matching" \/ (announced[b] # "absent" /\ Saved(b))
  BY DEF Kept, Saved
<1> QED
  OBVIOUS

LEMMA MarkLife ==
  ASSUME TypeInv, LifeInv, NEW w \in Workers, Marks(w)
  PROVE  LifeInv'
<1>1. PICK s \in {"extracting", "profiling", "matching", "failed"},
           to \in {"refused", "profile", "save", "leave", "acknowledge"} :
        /\ Wrote(w, s, s, to)
        /\ to \in {"profile", "save"} => s \in {"extracting", "profiling"}
  BY MarksWrite
<1>2. /\ UNCHANGED <<announced, rows, profiles>> /\ work[w].pc = s
      /\ work'[w].pc = to /\ work'[w].on = work[w].on /\ work'[w].version = work[w].version
      /\ \A u \in Workers \ {w} : work'[u] = work[u]
      /\ \A b \in Analyses \ {work[w].on} : analysis'[b] = analysis[b]
      /\ analysis'[work[w].on] \in {analysis[work[w].on], s}
  BY <1>1 DEF Wrote, others, matching
<1>3. PICK a \in Analyses : a = work[w].on
  BY <1>2 DEF TypeInv, InHand
<1>4. analysis[a] # "none" /\ PlaceInv(w)
  BY <1>2, <1>3 DEF LifeInv, PlaceInv
<1>5. s = "matching" => announced[a] # "absent" /\ Saved(a)
  BY <1>2, <1>3, <1>4 DEF PlaceInv
<1>6. Kept
  BY <1>2, <1>3, <1>4, <1>5, WriteKept
<1>7. PlaceInv(w)'
  BY <1>1, <1>2, <1>3, <1>4 DEF PlaceInv
<1> QED
  BY <1>2, <1>6, <1>7, KeptLife

LEMMA SaveLife ==
  ASSUME TypeInv, LifeInv, NEW w \in Workers, SaveProfile(w)
  PROVE  LifeInv'
<1> DEFINE v == work[w].version
<1>1. work[w].pc = "saving" /\ UNCHANGED <<analysis, announced, rows>>
  BY DEF SaveProfile, others, matching
<1>a. PICK a \in Analyses : a = work[w].on
  BY <1>1 DEF TypeInv, InHand
<1>2. /\ analysis[a] # "none" /\ v \in Nat \ {0}
      /\ profiles \in Seq(Analyses) /\ Len(profiles) \in Nat
  BY <1>1, <1>a DEF LifeInv, PlaceInv, TypeInv, TypeOK
<1>3. PICK place \in {"embed", "refused"} :
        /\ Goes(w, place)
        /\ \/ profiles' = profiles /\ (place = "embed" => v <= Len(profiles) /\ profiles[v] = a)
           \/ profiles' = Append(profiles, a)
  <2>1. CASE v > Len(profiles)
    BY <1>a, <2>1 DEF SaveProfile
  <2>2. CASE ~(v > Len(profiles))
    <3>1. v <= Len(profiles)
      BY <1>2, <2>2
    <3> QED
      BY <1>a, <2>2, <3>1 DEF SaveProfile
  <2> QED
    BY <2>1, <2>2
<1>4. /\ work'[w].pc = place /\ work'[w].on = a
      /\ \A u \in Workers \ {w} : work'[u] = work[u]
  BY <1>1, <1>3, <1>a, GoTo DEF Places, Leased
<1>5. /\ Len(profiles') \in Nat /\ Len(profiles) <= Len(profiles')
      /\ \A n \in 1..Len(profiles) : profiles'[n] = profiles[n]
      /\ place = "embed" => Saved(a)'
  <2>1. CASE profiles' = profiles /\ (place = "embed" => v <= Len(profiles) /\ profiles[v] = a)
    <3>1. v <= Len(profiles) => v \in 1..Len(profiles)
      BY <1>2
    <3>2. place = "embed" => Saved(a)'
      BY <2>1, <3>1 DEF Saved
    <3> QED
      BY <1>2, <2>1, <3>2
  <2>2. CASE profiles' = Append(profiles, a)
    <3>1. /\ Len(profiles') = Len(profiles) + 1 /\ profiles'[Len(profiles) + 1] = a
          /\ \A n \in 1..Len(profiles) : profiles'[n] = profiles[n]
      BY <1>2, <2>2
    <3>2. Len(profiles) + 1 \in 1..Len(profiles')
      BY <1>2, <3>1
    <3>3. Saved(a)'
      BY <3>1, <3>2 DEF Saved
    <3>4. Len(profiles') \in Nat /\ Len(profiles) <= Len(profiles')
      BY <1>2, <3>1
    <3> QED
      BY <3>1, <3>3, <3>4
  <2> QED
    BY <1>3, <2>1, <2>2
<1>6. \A b \in Analyses : Saved(b) => Saved(b)'
  <2>1. \A n \in 1..Len(profiles) : n \in 1..Len(profiles')
    BY <1>2, <1>5
  <2> QED
    BY <1>5, <2>1 DEF Saved
<1>7. Kept
  BY <1>1, <1>6 DEF Kept
<1>8. PlaceInv(w)'
  BY <1>1, <1>2, <1>3, <1>4, <1>5 DEF PlaceInv
<1> QED
  BY <1>4, <1>7, <1>8, KeptLife

LEMMA BeginLife ==
  ASSUME TypeInv, LifeInv, NEW w \in Workers, Begin(w)
  PROVE  LifeInv'
<1>1. work[w].pc = "begin" /\ UNCHANGED <<analysis, announced, rows, profiles>>
  BY DEF Begin, others, matching
<1>2. \A u \in Workers \ {w} : work'[u] = work[u]
  BY DEF Begin, Moves, Goes, TypeInv, TypeOK
<1>3. /\ work'[w].on = work[w].on
      /\ \/ work'[w].pc = "refused"
         \/ work'[w].pc = "embed" /\ \E v \in 1..Len(profiles) : profiles[v] = work[w].on
         \/ work'[w].pc = "extract" /\ work'[w].version \in Nat \ {0}
  BY BeginTypes
<1>4. analysis[work[w].on] # "none"
  BY <1>1 DEF LifeInv, PlaceInv
<1>5. PlaceInv(w)'
  BY <1>1, <1>3, <1>4 DEF PlaceInv, Saved
<1> QED
  BY <1>1, <1>2, <1>5, OwnLife

LEMMA WalkLife ==
  ASSUME TypeInv, LifeInv, NEW w \in Workers, Open(w) \/ Embed(w) \/ Stumble(w)
  PROVE  LifeInv'
<1>1. /\ work[w].pc # "idle" /\ UNCHANGED <<analysis, announced, rows, profiles>>
      /\ PlaceInv(w)
  BY DEF Open, Embed, Stumble, others, matching, Leased, LifeInv
<1>2. PICK place \in {"enter", "acknowledge", "refused", "announce", "retry"} :
        Goes(w, place) /\ (place = "announce" => work[w].pc = "embed")
  BY DEF Open, Embed, Stumble
<1>3. /\ work'[w].pc = place /\ work'[w].on = work[w].on
      /\ \A u \in Workers \ {w} : work'[u] = work[u]
  BY <1>1, <1>2, GoTo DEF Places, Leased
<1>4. PlaceInv(w)'
  BY <1>1, <1>2, <1>3 DEF PlaceInv, Saved
<1> QED
  BY <1>1, <1>3, <1>4, OwnLife

LEMMA EnqueueLife ==
  ASSUME TypeInv, LifeInv, NEW w \in Workers, Enqueue(w)
  PROVE  LifeInv'
<1>1. work[w].pc = "enqueue" /\ UNCHANGED <<analysis, rows, profiles>> /\ Goes(w, "advance")
  BY DEF Enqueue
<1>2. PICK a \in Analyses : a = work[w].on
  BY <1>1 DEF TypeInv, InHand
<1>3. analysis[a] # "none" /\ Saved(a)
  BY <1>1, <1>2 DEF LifeInv, PlaceInv
<1>4. /\ announced'[a] # "absent"
      /\ \A b \in Analyses : announced[b] # "absent" => announced'[b] # "absent"
  BY <1>2 DEF Enqueue, TypeInv, TypeOK
<1>5. /\ work'[w].pc = "advance" /\ work'[w].on = a
      /\ \A u \in Workers \ {w} : work'[u] = work[u]
  BY <1>1, <1>2, GoTo DEF Places, Leased
<1>6. Kept
  BY <1>1, <1>4 DEF Kept, Running, Saved
<1>7. PlaceInv(w)'
  BY <1>1, <1>3, <1>4, <1>5 DEF PlaceInv, Saved
<1> QED
  BY <1>5, <1>6, <1>7, KeptLife

LEMMA SettleLife ==
  ASSUME TypeInv, LifeInv, NEW w \in Workers, RenewToFail(w) \/ Acknowledge(w) \/ Retry(w)
  PROVE  LifeInv'
<1>1. work[w].pc # "idle" /\ UNCHANGED <<analysis, announced, profiles>> /\ PlaceInv(w)
  BY DEF RenewToFail, Acknowledge, Retry, others, matching, LifeInv
<1>2. \A a \in Analyses \ {work[w].on} : rows'[a] = rows[a]
  BY DEF RenewToFail, Acknowledge, Retry, TypeInv, TypeOK
<1>3. Moves(w, Idle) \/ \E place \in {"failing", "acknowledge"} : Goes(w, place)
  BY DEF RenewToFail, Acknowledge, Retry
<1>4. /\ work'[w].pc = "idle" \/ (work'[w].pc \in {"failing", "acknowledge"} /\ work'[w].on = work[w].on)
      /\ \A u \in Workers \ {w} : work'[u] = work[u]
  BY <1>1, <1>3, GoTo, Home DEF Places
<1>5. PlaceInv(w)'
  BY <1>1, <1>4 DEF PlaceInv
<1> QED
  BY <1>1, <1>2, <1>4, <1>5, OwnLife

LEMMA EndLife ==
  ASSUME TypeInv, LifeInv, NEW w \in Workers, Conclude(w)
  PROVE  LifeInv'
<1>1. PICK a \in Analyses : a = work[w].on /\ analysis[a] # "none"
  BY ConcludeTypes DEF LifeInv, PlaceInv, TypeInv, InHand
<1>2. /\ UNCHANGED <<announced, rows, profiles>> /\ work'[w].pc = "idle"
      /\ \A u \in Workers \ {w} : work'[u] = work[u]
      /\ \A b \in Analyses \ {a} : analysis'[b] = analysis[b]
      /\ analysis'[a] \in {analysis[a], "failed", "ready"}
  BY <1>1, ConcludeTypes DEF others, matching
<1>3. Kept
  BY <1>1, <1>2, WriteKept
<1>4. PlaceInv(w)'
  BY <1>2 DEF PlaceInv
<1> QED
  BY <1>2, <1>3, <1>4, KeptLife

LEMMA TakeLife ==
  ASSUME TypeInv, LifeInv, NEW w \in Workers, NEW a \in Analyses, Claim(w, a) \/ Examine(w, a)
  PROVE  LifeInv'
<1>1. UNCHANGED <<analysis, announced, profiles>> /\ \A u \in Workers \ {w} : work'[u] = work[u]
  BY DEF Claim, Examine, Moves, others, matching, TypeInv, TypeOK
<1>2. work'[w].pc \in {"open", "fail", "ready"} /\ work'[w].on = a
  BY ClaimTypes, ExamineTypes
<1>3. analysis[a] # "none"
  <2>1. CASE Claim(w, a)
    BY <2>1 DEF Claim, Due, LifeInv, RowsKnown
  <2>2. CASE Examine(w, a)
    BY <2>2 DEF Examine, Running
  <2> QED
    BY <2>1, <2>2
<1>4. \A b \in Analyses \ {a} : rows'[b] = rows[b]
  BY DEF Claim, Examine, TypeInv, TypeOK
<1>5. Kept
  BY <1>1, <1>3, <1>4, QuietKept
<1>6. PlaceInv(w)'
  BY <1>1, <1>2, <1>3 DEF PlaceInv
<1> QED
  BY <1>1, <1>5, <1>6, KeptLife

\* An acceptance is the one step that starts an analysis, and nobody has it in
\* hand yet.
LEMMA AcceptLife ==
  ASSUME TypeInv, LifeInv, NEW a \in Analyses, analysis[a] = "none", Accept(a)
  PROVE  LifeInv'
<1>1. /\ UNCHANGED <<announced, profiles, work>>
      /\ analysis'[a] = "queued" /\ \A b \in Analyses \ {a} : analysis'[b] = analysis[b] /\ rows'[b] = rows[b]
  BY DEF Accept, matching, TypeInv, TypeOK
<1>3. RowsKnown'
  BY <1>1 DEF LifeInv, RowsKnown
<1>4. WaitingIsAnnounced'
  BY <1>1 DEF LifeInv, WaitingIsAnnounced
<1>5. ASSUME NEW w \in Workers PROVE PlaceInv(w)'
  <2>1. PlaceInv(w) /\ (work[w].pc # "idle" => work[w].on \in Analyses)
    BY DEF LifeInv, TypeInv, InHand
  <2> QED
    BY <1>1, <2>1 DEF PlaceInv, Saved
<1> QED
  BY <1>3, <1>4, <1>5 DEF LifeInv

-----------------------------------------------------------------------------
(* The files *)

\* FilesAccountedFor, with what an upload that is being answered still has.
FilesInv ==
  \A a \in Analyses :
    /\ analysis[a] # "none" => upload[a] = "over" /\ a \in files
    /\ upload[a] \in {"stored", "late", "refused"} => a \in files
    /\ a \in files /\ analysis[a] = "none" => upload[a] \in {"stored", "late", "refused", "stray"}

\* No step of a worker starts an analysis.
LEMMA StepStarts ==
  ASSUME TypeInv, LifeInv, NEW w \in Workers, Step(w) \/ Crash(w)
  PROVE  /\ \A a \in Analyses : analysis'[a] = "none" <=> analysis[a] = "none"
         /\ UNCHANGED intake
<1>1. CASE \/ (\E a \in Analyses : Claim(w, a) \/ Examine(w, a)) \/ Open(w) \/ RenewToFail(w)
           \/ Acknowledge(w) \/ Retry(w) \/ Enter(w) \/ Begin(w) \/ CheckSave(w) \/ SaveProfile(w)
           \/ Embed(w) \/ CheckAnnounce(w) \/ Enqueue(w) \/ Leave(w) \/ Stumble(w) \/ Crash(w)
  BY <1>1 DEF Claim, Examine, Open, RenewToFail, Acknowledge, Retry, Enter, Begin, CheckSave,
     SaveProfile, Embed, CheckAnnounce, Enqueue, Leave, Stumble, Check, Crash, others
<1>2. CASE Looks(w) \/ ReadFailing(w) \/ ReadDropped(w) \/ ReadClosed(w)
  BY <1>2, LooksRead, DropTypes DEF others
<1>3. CASE Marks(w) \/ Conclude(w)
  <2>1. PICK s \in {"extracting", "profiling", "matching", "ready", "failed"} :
          /\ UNCHANGED others /\ work[w].pc # "idle"
          /\ \A b \in Analyses \ {work[w].on} : analysis'[b] = analysis[b]
          /\ analysis'[work[w].on] \in {analysis[work[w].on], s}
    <3>1. CASE Marks(w)
      BY <3>1, MarksWrite DEF Wrote
    <3>2. CASE Conclude(w)
      BY <3>2, ConcludeTypes
    <3> QED
      BY <1>3, <3>1, <3>2
  <2>2. PICK a \in Analyses : a = work[w].on /\ analysis[a] # "none"
    BY <2>1 DEF LifeInv, PlaceInv, TypeInv, InHand
  <2> QED
    BY <2>1, <2>2 DEF others
<1> QED
  BY <1>1, <1>2, <1>3 DEF Step, Process, Looks, Marks

LEMMA StepFiles ==
  ASSUME TypeInv, LifeInv, FilesInv, [Next]_vars
  PROVE  FilesInv'
<1>1. ASSUME NEW w \in Workers, Step(w) \/ Crash(w) PROVE FilesInv'
  BY <1>1, StepStarts DEF FilesInv, intake
<1>2. ASSUME NEW a \in Analyses, Store(a) \/ Accept(a) \/ Refuse(a) PROVE FilesInv'
  BY <1>2 DEF Store, Accept, Admissible, Refuse, FilesInv, TypeInv, TypeOK
<1>3. ASSUME NEW a \in Analyses, Compensate(a) PROVE FilesInv'
  BY <1>3 DEF Compensate, FilesInv, TypeInv, TypeOK
<1>4. ASSUME NEW a \in Analyses, CrashUpload(a) PROVE FilesInv'
  BY <1>4 DEF CrashUpload, FilesInv, TypeInv, TypeOK
<1>5. ASSUME (\E a \in Analyses : Match(a) \/ ParkMatch(a)) \/ Republish \/ Expire \/ Tick
      PROVE  FilesInv'
  BY <1>5 DEF Match, ParkMatch, Republish, Expire, Tick, FilesInv, intake
<1>6. CASE UNCHANGED vars
  BY <1>6 DEF vars, FilesInv
<1> QED
  BY <1>1, <1>2, <1>3, <1>4, <1>5, <1>6 DEF Next

LEMMA StepLife ==
  ASSUME TypeInv, LifeInv, FilesInv, [Next]_vars
  PROVE  LifeInv'
<1>1. ASSUME NEW w \in Workers, Process(w) PROVE LifeInv'
  <2>1. CASE Enter(w) \/ CheckSave(w) \/ CheckAnnounce(w) \/ Leave(w)
    BY <2>1, CheckLife DEF Enter, CheckSave, CheckAnnounce, Leave, Places, Leased
  <2> QED
    BY <1>1, <2>1, LookLife, MarkLife, BeginLife, SaveLife, WalkLife, EnqueueLife
       DEF Process, Looks, Marks
<1>2. ASSUME NEW w \in Workers, Step(w) PROVE LifeInv'
  BY <1>1, <1>2, TakeLife, WalkLife, SettleLife, LookLife, MarkLife, EndLife DEF Step, Marks
<1>3. ASSUME NEW w \in Workers, Crash(w) PROVE LifeInv'
  <2>1. UNCHANGED <<analysis, announced, profiles, rows>> /\ Moves(w, Idle)
    BY <1>3 DEF Crash, matching
  <2>2. work'[w].pc = "idle" /\ \A u \in Workers \ {w} : work'[u] = work[u]
    BY <2>1, Home
  <2>3. PlaceInv(w)'
    BY <2>2 DEF PlaceInv
  <2> QED
    BY <2>1, <2>2, <2>3, QuietKept, KeptLife
<1>4. ASSUME NEW a \in Analyses, Store(a) \/ Refuse(a) \/ Compensate(a) \/ CrashUpload(a)
      PROVE  LifeInv'
  <2>1. UNCHANGED <<analysis, announced, profiles, rows, work>>
    BY <1>4 DEF Store, Refuse, Compensate, CrashUpload, matching
  <2> QED
    BY <2>1, QuietKept, KeptLife
<1>5. ASSUME NEW a \in Analyses, Accept(a) PROVE LifeInv'
  <2>1. analysis[a] = "none"
    BY <1>5 DEF Accept, Admissible, FilesInv
  <2> QED
    BY <1>5, <2>1, AcceptLife
<1>6. ASSUME NEW a \in Analyses, Match(a) \/ ParkMatch(a) PROVE LifeInv'
  <2>1. UNCHANGED <<analysis, profiles, rows, work>>
        /\ \A b \in Analyses : announced[b] # "absent" => announced'[b] # "absent"
    BY <1>6 DEF Match, ParkMatch, TypeInv, TypeOK
  <2>2. Kept
    BY <2>1 DEF Kept, Saved
  <2> QED
    BY <2>1, <2>2, KeptLife
<1>7. CASE Republish \/ Expire
  <2>1. UNCHANGED <<analysis, announced, profiles, rows, work>>
    BY <1>7 DEF Republish, Expire, matching
  <2> QED
    BY <2>1, QuietKept, KeptLife
<1>8. CASE Tick
  <2>1. UNCHANGED <<analysis, announced, profiles, work>>
    BY <1>8 DEF Tick, matching
  <2>2. \A a \in Analyses : rows'[a].state = rows[a].state
    BY ZenonT(40), <1>8 DEF Tick, Aged, TypeInv, TypeOK, Row
  <2> QED
    BY <2>1, <2>2, QuietKept, KeptLife
<1>9. CASE UNCHANGED vars
  <2>1. UNCHANGED <<analysis, announced, profiles, rows, work>>
    BY <1>9 DEF vars, matching
  <2> QED
    BY <2>1, QuietKept, KeptLife
<1> QED
  BY <1>2, <1>3, <1>4, <1>5, <1>6, <1>7, <1>8, <1>9 DEF Next

LEMMA InitLife == Init => LifeInv /\ FilesInv
<1> SUFFICES ASSUME Init PROVE LifeInv /\ FilesInv
  OBVIOUS
<1>1. Idle.pc = "idle" /\ NoRow.state = "absent"
  BY DEF Idle, NoRow
<1>2. \A w \in Workers : PlaceInv(w)
  BY <1>1 DEF Init, PlaceInv
<1> QED
  BY <1>1, <1>2 DEF Init, LifeInv, FilesInv, RowsKnown, WaitingIsAnnounced

LEMMA LifeHolds == Spec => [](TypeInv /\ LifeInv /\ FilesInv)
<1>1. Init => TypeInv /\ LifeInv /\ FilesInv
  BY InitTypes, InitLife
<1>2. TypeInv /\ LifeInv /\ FilesInv /\ [Next]_vars => (TypeInv /\ LifeInv /\ FilesInv)'
  BY StepTypes, StepLife, StepFiles
<1> QED
  BY <1>1, <1>2, PTL DEF Spec

\* Whoever wrote it, an analysis that waits for matching has its profile stored
\* and its event in the match queue.
THEOREM WaitingSound == Spec => []WaitingIsAnnounced
<1>1. LifeInv => WaitingIsAnnounced
  BY DEF LifeInv
<1> QED
  BY <1>1, LifeHolds, PTL

\* An accepted upload has its file, and any other file is that of a request in
\* flight, or of one whose process died or whose clean-up failed.
THEOREM FilesSound == Spec => []FilesAccountedFor
<1>1. FilesInv => FilesAccountedFor
  BY DEF FilesInv, FilesAccountedFor
<1> QED
  BY <1>1, LifeHolds, PTL

-----------------------------------------------------------------------------
(* What a finished row leaves behind, where a live worker keeps its lease *)

Over(a) == analysis[a] \in Terminal \cup {"matching"}

\* The places from which a step still writes its row.
Loose == {"idle", "fail", "drop", "ready", "close"}
Holding == Places \ Loose

HoldInv(w) ==
  LET a == work[w].on IN
  /\ work[w].pc \in Holding => Renewable(rows[a], w)
  /\ work[w].pc \in {"acknowledge", "leave"} => Over(a)
  /\ work[w].pc \in {"matching", "failed"} /\ work[w].seen \in Terminal \cup {"matching"} => Over(a)

DoneInv == DoneHasOutcome /\ \A w \in Workers : HoldInv(w)

\* The stages are in their order.
LEMMA Ranks ==
  /\ Rank("queued") = 1 /\ Rank("extracting") = 2 /\ Rank("profiling") = 3
  /\ Rank("matching") = 4 /\ Rank("ready") = 5
<1>1. ASSUME NEW n \in 1..5 PROVE Rank(Stages[n]) = n
  <2>1. Len(Stages) = 5
    BY DEF Stages
  <2>2. \A m \in 1..5 : Stages[m] = Stages[n] => m = n
    BY DEF Stages
  <2> QED
    BY <2>1, <2>2 DEF Rank
<1>2. /\ Stages[1] = "queued" /\ Stages[2] = "extracting" /\ Stages[3] = "profiling"
      /\ Stages[4] = "matching" /\ Stages[5] = "ready"
  BY DEF Stages
<1>3. 1 \in 1..5 /\ 2 \in 1..5 /\ 3 \in 1..5 /\ 4 \in 1..5 /\ 5 \in 1..5
  OBVIOUS
<1> QED
  BY <1>1, <1>2, <1>3

\* An analysis that waits or is over is started again by nobody but a worker that
\* holds its row and writes a stage over what it read before.
LEMMA StaysOver ==
  ASSUME TypeInv, LifeInv, FilesInv, [Next]_vars, ~ \E w \in Workers : Marks(w)
  PROVE  \A a \in Analyses : Over(a) => Over(a)'
<1>1. ASSUME NEW w \in Workers, Conclude(w) PROVE \A b \in Analyses : Over(b) => Over(b)'
  <2>1. PICK a \in Analyses : a = work[w].on
    BY <1>1, ConcludeTypes DEF TypeInv, InHand
  <2> QED
    BY <1>1, <2>1, ConcludeTypes DEF Over, Terminal
<1>2. ASSUME NEW a \in Analyses, Accept(a) PROVE \A b \in Analyses : Over(b) => Over(b)'
  BY <1>2 DEF Accept, Admissible, FilesInv, Over, Terminal, TypeInv, TypeOK
<1>3. ASSUME NEW w \in Workers, Looks(w) \/ ReadFailing(w) \/ ReadDropped(w) \/ ReadClosed(w)
      PROVE  UNCHANGED analysis
  BY <1>3, LooksRead, DropTypes
<1>4. \/ UNCHANGED analysis
      \/ \E a \in Analyses : Accept(a)
      \/ \E w \in Workers : Conclude(w)
  BY <1>3 DEF Next, vars, Step, Process, Looks, Marks, Claim, Examine, Open, RenewToFail, Acknowledge,
     Retry, Enter, Begin, CheckSave, SaveProfile, Embed, CheckAnnounce, Enqueue, Leave, Stumble, Check,
     Crash, Store, Refuse, Compensate, CrashUpload, Match, ParkMatch, Republish, Expire, Tick, others
<1> QED
  BY <1>1, <1>2, <1>4 DEF Over

\* A row a worker holds is nobody else's, so a step that writes at most the row
\* in its own hand takes nothing from another worker.
LEMMA OwnHold ==
  ASSUME TypeInv, LifeInv, DoneInv, NEW w \in Workers, NEW a \in Analyses,
         \A b \in Analyses : Over(b) => Over(b)',
         \A b \in Analyses \ {a} : rows'[b] = rows[b],
         rows'[a] = rows[a] \/ ~(rows[a].state = "inflight" /\ rows[a].owner # w /\ rows[a].lease > 0),
         \A u \in Workers \ {w} : work'[u] = work[u],
         rows'[a].state = "done" => rows[a].state = "done" \/ Over(a),
         HoldInv(w)'
  PROVE  DoneInv'
<1>1. ASSUME NEW u \in Workers \ {w} PROVE HoldInv(u)'
  <2>1. work'[u] = work[u] /\ HoldInv(u)
    BY DEF DoneInv
  <2>2. CASE work[u].pc \in Holding
    <3>1. PICK b \in Analyses : b = work[u].on
      BY <2>2 DEF Holding, Loose, TypeInv, InHand
    <3>2. Renewable(rows[b], u)
      BY <2>1, <2>2, <3>1 DEF HoldInv
    <3>3. rows'[b] = rows[b]
      BY <3>2 DEF Renewable
    <3> QED
      BY <2>1, <3>1, <3>2, <3>3 DEF HoldInv, Renewable
  <2>3. CASE work[u].pc \notin Holding
    BY <2>1, <2>3 DEF HoldInv, Holding, Loose, Places, Leased
  <2> QED
    BY <2>2, <2>3
<1>2. DoneHasOutcome'
  <2>1. \A b \in Analyses : rows'[b].state = "done" => Over(b)
    BY DEF DoneInv, DoneHasOutcome, Over
  <2> QED
    BY <2>1 DEF DoneHasOutcome, Over
<1> QED
  BY <1>1, <1>2 DEF DoneInv

\* What the transactions on a row do to the columns that say whose it is.
LEMMA RowColumns ==
  ASSUME NEW r \in Row, NEW w \in Workers
  PROVE  /\ Renewable(Claimed(r, w), w)
         /\ Renewable(r, w) => Renewable(Renewed(r), w) /\ ~Refused(r, w)
         /\ Acknowledged(r).state = "done" /\ Retried(r).state # "done"
<1>1. Renewable(Claimed(r, w), w)
  <2>1. Claimed(r, w) \in Row /\ Claimed(r, w).state = "inflight"
        /\ Claimed(r, w).owner = w /\ Claimed(r, w).lease = Lease
    BY RowTypes DEF Claimed, Row
  <2> QED
    BY <2>1, TimesAssumption DEF Renewable
<1>2. Renewable(r, w) => Renewable(Renewed(r), w) /\ ~Refused(r, w)
  BY TimesAssumption DEF Renewable, Renewed, Refused, Row
<1>3. Acknowledged(r).state = "done" /\ Retried(r).state # "done"
  <2>1. Released(r) \in Row
    BY RowTypes
  <2> QED
    BY <2>1 DEF Acknowledged, Retried, Row
<1> QED
  BY <1>1, <1>2, <1>3

\* A step that leaves the rows alone.
LEMMA WalkHold ==
  ASSUME TypeInv, LifeInv, DoneInv, NEW w \in Workers, work[w].pc \in Holding,
         \A b \in Analyses : Over(b) => Over(b)',
         rows' = rows, \A u \in Workers \ {w} : work'[u] = work[u],
         work'[w].on = work[w].on,
         work'[w].pc \notin {"matching", "failed"},
         \A b \in Analyses : b = work[w].on /\ work'[w].pc \in {"acknowledge", "leave"} => Over(b)'
  PROVE  DoneInv'
<1>1. PICK a \in Analyses : a = work[w].on
  BY DEF Holding, Loose, TypeInv, InHand
<1>2. HoldInv(w)'
  BY <1>1 DEF HoldInv, DoneInv, Over
<1> QED
  BY <1>1, <1>2, OwnHold

\* A step that ends with the worker idle, or with no row in its hand.
LEMMA LetHold ==
  ASSUME TypeInv, LifeInv, DoneInv, NEW w \in Workers,
         \A b \in Analyses : Over(b) => Over(b)',
         rows' = rows, \A u \in Workers \ {w} : work'[u] = work[u],
         work'[w].pc \in Loose
  PROVE  DoneInv'
<1>1. HoldInv(w)'
  BY DEF HoldInv, Holding, Loose
<1>2. ASSUME NEW u \in Workers \ {w} PROVE HoldInv(u)'
  <2>1. work'[u] = work[u] /\ HoldInv(u)
    BY DEF DoneInv
  <2>2. work[u].pc = "idle" \/ work[u].on \in Analyses
    BY DEF TypeInv, InHand
  <2> QED
    BY <2>1, <2>2 DEF HoldInv, Holding, Loose
<1>3. DoneHasOutcome'
  BY DEF DoneInv, DoneHasOutcome, Over
<1> QED
  BY <1>1, <1>2, <1>3 DEF DoneInv

LEMMA ClaimHold ==
  ASSUME TypeInv, LifeInv, DoneInv, NEW w \in Workers, NEW a \in Analyses, Claim(w, a),
         \A b \in Analyses : Over(b) => Over(b)'
  PROVE  DoneInv'
<1>1. rows[a] \in Row /\ rows' = [rows EXCEPT ![a] = Claimed(@, w)] /\ Due(rows[a])
  BY DEF Claim, TypeInv, TypeOK
<1>2. rows'[a] = Claimed(rows[a], w) /\ \A b \in Analyses \ {a} : rows'[b] = rows[b]
  BY <1>1 DEF TypeInv, TypeOK
<1>3. Renewable(rows'[a], w)
  BY <1>1, <1>2, RowColumns
<1>4. work'[w].pc = "open" /\ work'[w].on = a /\ \A u \in Workers \ {w} : work'[u] = work[u]
  BY ZenonT(40), ClaimTypes DEF Claim, Moves, TypeInv, TypeOK
<1>5. HoldInv(w)'
  BY <1>3, <1>4 DEF HoldInv, Renewable
<1>6. rows[a].lease \in Nat /\ (rows[a].state = "pending" \/ rows[a].lease = 0)
  BY <1>1, TimesAssumption DEF Due, Row
<1>7. ~(rows[a].state = "inflight" /\ rows[a].owner # w /\ rows[a].lease > 0)
  BY <1>6
<1>8. rows'[a].state # "done"
  BY <1>3 DEF Renewable
<1> QED
  BY <1>2, <1>4, <1>5, <1>7, <1>8, OwnHold

LEMMA CheckHold ==
  ASSUME TypeInv, LifeInv, DoneInv, NEW w \in Workers,
         NEW from, NEW to \in Places, from \in Holding, Check(w, from, to),
         to \in {"acknowledge", "leave"} => from = "leave", to \notin {"matching", "failed"},
         \A b \in Analyses : Over(b) => Over(b)'
  PROVE  DoneInv'
<1>1. work[w].pc = from
  BY DEF Check
<1>2. PICK a \in Analyses : a = work[w].on
  BY <1>1 DEF Holding, Loose, TypeInv, InHand
<1>3. rows[a] \in Row /\ Renewable(rows[a], w) /\ (from = "leave" => Over(a))
  BY <1>1, <1>2 DEF DoneInv, HoldInv, TypeInv, TypeOK
<1>4. rows' = [rows EXCEPT ![a] = Renewed(@)] /\ Goes(w, to)
  BY <1>2, <1>3 DEF Check
<1>5. rows'[a] = Renewed(rows[a]) /\ \A b \in Analyses \ {a} : rows'[b] = rows[b]
  BY <1>4 DEF TypeInv, TypeOK
<1>6. /\ work'[w].pc = to /\ work'[w].on = a
      /\ \A u \in Workers \ {w} : work'[u] = work[u]
  BY <1>1, <1>2, <1>4, GoTo DEF Holding, Loose
<1>7. Renewable(rows'[a], w)
  BY <1>3, <1>5, RowColumns
<1>8. HoldInv(w)'
  BY <1>3, <1>6, <1>7 DEF HoldInv, Renewable, Over
<1> QED
  BY <1>3, <1>5, <1>6, <1>7, <1>8, OwnHold DEF Renewable

\* The end of a step finds the lease it began with.
LEMMA SettleHold ==
  ASSUME TypeInv, LifeInv, DoneInv, NEW w \in Workers,
         RenewToFail(w) \/ Acknowledge(w) \/ Retry(w),
         \A b \in Analyses : Over(b) => Over(b)'
  PROVE  DoneInv'
<1>1. work[w].pc \in {"refused", "acknowledge", "retry"}
  BY DEF RenewToFail, Acknowledge, Retry
<1>2. work[w].pc \in Holding
  BY <1>1 DEF Holding, Loose, Places
<1>3. PICK a \in Analyses : a = work[w].on
  BY <1>2 DEF Holding, Loose, TypeInv, InHand
<1>4. rows[a] \in Row /\ Renewable(rows[a], w) /\ (work[w].pc = "acknowledge" => Over(a))
  BY <1>2, <1>3 DEF DoneInv, HoldInv, TypeInv, TypeOK
<1>5. ~Refused(rows[a], w) /\ rows[a].owner = w /\ Renewable(Renewed(rows[a]), w)
  BY <1>4, RowColumns DEF Renewable
<1>6. CASE RenewToFail(w)
  <2>1. rows' = [rows EXCEPT ![a] = Renewed(@)] /\ Goes(w, "failing")
    BY <1>3, <1>4, <1>6 DEF RenewToFail
  <2>2. rows'[a] = Renewed(rows[a]) /\ \A b \in Analyses \ {a} : rows'[b] = rows[b]
    BY <2>1 DEF TypeInv, TypeOK
  <2>3. /\ work'[w].pc = "failing" /\ work'[w].on = a
        /\ \A u \in Workers \ {w} : work'[u] = work[u]
    BY <1>2, <1>3, <2>1, GoTo DEF Holding, Loose, Places
  <2>4. HoldInv(w)'
    BY <1>5, <2>2, <2>3 DEF HoldInv, Renewable
  <2> QED
    BY <1>5, <2>2, <2>3, <2>4, OwnHold DEF Renewable
<1>7. CASE Acknowledge(w) \/ Retry(w)
  <2>1. Moves(w, Idle) /\ \/ work[w].pc = "acknowledge" /\ rows' = [rows EXCEPT ![a] = Acknowledged(@)]
                          \/ rows' = [rows EXCEPT ![a] = Retried(@)]
    BY <1>3, <1>5, <1>7 DEF Acknowledge, Retry
  <2>2. /\ \A b \in Analyses \ {a} : rows'[b] = rows[b]
        /\ rows'[a].state = "done" => Over(a)
    BY <1>4, <2>1, RowColumns DEF TypeInv, TypeOK
  <2>3. work'[w].pc = "idle" /\ \A u \in Workers \ {w} : work'[u] = work[u]
    BY <2>1, Home
  <2>4. HoldInv(w)'
    BY <2>3 DEF HoldInv, Holding, Loose
  <2> QED
    BY <1>5, <2>2, <2>3, <2>4, OwnHold
<1> QED
  BY <1>6, <1>7

\* A worker that reads a state that is over will find it so when it writes: as
\* long as it holds the row, others write only outcomes.
LEMMA LookHold ==
  ASSUME TypeInv, LifeInv, DoneInv, NEW w \in Workers, Looks(w) \/ ReadFailing(w),
         \A b \in Analyses : Over(b) => Over(b)'
  PROVE  DoneInv'
<1>1. /\ UNCHANGED <<analysis, rows>> /\ work[w].pc \in Holding
      /\ work'[w].on = work[w].on /\ work'[w].pc \notin {"acknowledge", "leave"}
      /\ work'[w].pc \in {"matching", "failed"} => work'[w].seen = analysis[work[w].on]
      /\ \A u \in Workers \ {w} : work'[u] = work[u]
  <2>1. CASE Looks(w)
    BY <2>1, LooksRead DEF Holding, Loose, Places, Leased
  <2>2. CASE ReadFailing(w)
    BY <2>2, DropTypes DEF ReadFailing, Holding, Loose, Places
  <2> QED
    BY <2>1, <2>2
<1>2. PICK a \in Analyses : a = work[w].on
  BY <1>1 DEF Holding, Loose, TypeInv, InHand
<1>3. HoldInv(w)'
  BY <1>1, <1>2 DEF HoldInv, DoneInv, Over
<1> QED
  BY <1>1, <1>2, <1>3, OwnHold

LEMMA MarkHold ==
  ASSUME TypeInv, LifeInv, DoneInv, NEW w \in Workers, Marks(w)
  PROVE  DoneInv'
<1>1. PICK s \in {"extracting", "profiling", "matching", "failed"},
           to \in {"refused", "profile", "save", "leave", "acknowledge"} :
        /\ Wrote(w, s, s, to)
        /\ to \in {"leave", "acknowledge"} => s \in {"matching", "failed"}
        /\ s = "failed" => to = "acknowledge"
  BY MarksWrite
<1>2. /\ rows' = rows /\ work[w].pc = s
      /\ work'[w].pc = to /\ work'[w].on = work[w].on
      /\ \A u \in Workers \ {w} : work'[u] = work[u]
      /\ \A b \in Analyses \ {work[w].on} : analysis'[b] = analysis[b]
      /\ analysis'[work[w].on] = IF Unwritten(work[w].seen, s) THEN analysis[work[w].on] ELSE s
  BY <1>1 DEF Wrote
<1>3. work[w].pc \in Holding /\ to \in Holding
  BY <1>2 DEF Holding, Loose, Places, Leased
<1>4. PICK a \in Analyses : a = work[w].on
  BY <1>3 DEF Holding, Loose, TypeInv, InHand
<1>5. HoldInv(w) /\ Renewable(rows[a], w)
  BY <1>3, <1>4 DEF DoneInv, HoldInv
<1>6. to \in {"leave", "acknowledge"} => Over(a)'
  <2>1. SUFFICES ASSUME s \in {"matching", "failed"} PROVE Over(a)'
    BY <1>1
  <2>2. CASE ~Unwritten(work[w].seen, s)
    BY <1>2, <1>4, <2>1, <2>2 DEF Over, Terminal
  <2>3. CASE Unwritten(work[w].seen, s)
    <3>1. work[w].seen \in States /\ work[w].seen # "none"
      <4>1. work[w].seen \in States
        BY DEF TypeInv, TypeOK
      <4>2. work[w].seen # "none"
        BY <1>2, <2>1 DEF LifeInv, PlaceInv
      <4> QED
        BY <4>1, <4>2
    <3>2. work[w].seen \in Terminal \cup {"matching"}
      BY <2>1, <2>3, <3>1, Ranks DEF Unwritten, States, Terminal
    <3>3. Over(a)
      BY <1>2, <1>4, <1>5, <2>1, <3>2 DEF HoldInv
    <3> QED
      BY <1>2, <1>4, <2>3, <3>3 DEF Over
  <2> QED
    BY <2>2, <2>3
<1>7. HoldInv(w)'
  BY <1>2, <1>4, <1>5, <1>6 DEF HoldInv, Over
<1>8. ASSUME NEW u \in Workers \ {w} PROVE HoldInv(u)'
  <2>1. work'[u] = work[u] /\ HoldInv(u)
    BY <1>2 DEF DoneInv
  <2>2. CASE work[u].pc \in Holding
    <3>1. PICK b \in Analyses : b = work[u].on
      BY <2>2 DEF Holding, Loose, TypeInv, InHand
    <3>2. b # a
      BY <1>5, <2>1, <2>2, <3>1 DEF HoldInv, Renewable
    <3> QED
      BY <1>2, <1>4, <2>1, <3>1, <3>2 DEF HoldInv, Over
  <2>3. CASE work[u].pc \notin Holding
    BY <1>2, <2>1, <2>3 DEF HoldInv, Holding, Loose, Places, Leased
  <2> QED
    BY <2>2, <2>3
<1>9. DoneHasOutcome'
  BY <1>2, <1>4, <1>5 DEF DoneInv, DoneHasOutcome, Renewable
<1> QED
  BY <1>7, <1>8, <1>9 DEF DoneInv

LEMMA ProcessHold ==
  ASSUME TypeInv, LifeInv, DoneInv, NEW w \in Workers,
         Begin(w) \/ SaveProfile(w) \/ Embed(w) \/ Enqueue(w) \/ Stumble(w) \/ Open(w),
         \A b \in Analyses : Over(b) => Over(b)'
  PROVE  DoneInv'
<1>1. work[w].pc \in Holding /\ rows' = rows
  BY DEF Begin, SaveProfile, Embed, Enqueue, Stumble, Open, Holding, Loose, Places, Leased
<1>2. PICK a \in Analyses : a = work[w].on
  BY <1>1 DEF Holding, Loose, TypeInv, InHand
<1>3. analysis[a] # "none"
  BY <1>1, <1>2 DEF LifeInv, PlaceInv, Holding, Loose
<1>4. CASE Begin(w)
  <2>1. work'[w].on = work[w].on /\ work'[w].pc \in {"refused", "embed", "extract"}
    BY <1>4, BeginTypes
  <2>2. \A u \in Workers \ {w} : work'[u] = work[u]
    BY <1>4 DEF Begin, Moves, Goes, TypeInv, TypeOK
  <2> QED
    BY <1>1, <2>1, <2>2, WalkHold
<1>5. CASE SaveProfile(w) \/ Embed(w) \/ Enqueue(w) \/ Stumble(w)
  <2>1. \E place \in {"embed", "refused", "announce", "advance", "retry"} : Goes(w, place)
    BY <1>5 DEF SaveProfile, Embed, Enqueue, Stumble
  <2>2. /\ work'[w].pc \notin {"acknowledge", "leave", "matching", "failed"}
        /\ work'[w].on = work[w].on /\ \A u \in Workers \ {w} : work'[u] = work[u]
    BY <1>1, <2>1, GoTo DEF Holding, Loose, Places, Leased
  <2> QED
    BY <1>1, <2>2, WalkHold
<1>6. CASE Open(w)
  <2>1. PICK place \in {"enter", "acknowledge"} :
          Goes(w, place) /\ (place = "acknowledge" => ~Running(a))
    BY <1>2, <1>6 DEF Open
  <2>2. /\ work'[w].pc = place /\ work'[w].on = work[w].on
        /\ \A u \in Workers \ {w} : work'[u] = work[u]
    BY <1>1, <2>1, GoTo DEF Holding, Loose, Places, Leased
  <2>3. ~Running(a) => Over(a)
    BY <1>3 DEF Running, Over
  <2> QED
    BY <1>1, <1>2, <2>1, <2>2, <2>3, WalkHold
<1> QED
  BY <1>4, <1>5, <1>6

\* Time, which runs out no lease of a live worker here.
LEMMA TickHold ==
  ASSUME TypeInv, LifeInv, DoneInv, Tick, ~Lapsing
  PROVE  DoneInv'
<1>1. UNCHANGED <<analysis, work>>
  BY DEF Tick
<1>2. \A a \in Analyses : rows'[a].state = rows[a].state /\ rows'[a].owner = rows[a].owner
  BY ZenonT(40) DEF Tick, Aged, TypeInv, TypeOK, Row
<1>3. \A a \in Analyses : Held(a) => rows'[a].lease = rows[a].lease
  BY ZenonT(40) DEF Tick, Aged, TypeInv, TypeOK, Row
<1>4. ASSUME NEW w \in Workers PROVE HoldInv(w)'
  <2>1. HoldInv(w) /\ work'[w] = work[w]
    BY <1>1 DEF DoneInv
  <2>2. CASE work[w].pc \in Holding
    <3>1. PICK a \in Analyses : a = work[w].on
      BY <2>2 DEF Holding, Loose, TypeInv, InHand
    <3>2. Renewable(rows[a], w)
      BY <2>1, <2>2, <3>1 DEF HoldInv
    <3>3. Held(a)
      BY <2>2, <3>1, <3>2 DEF Held, Holding, Loose, Renewable
    <3>4. Renewable(rows'[a], w)
      BY <1>2, <1>3, <3>2, <3>3 DEF Renewable
    <3> QED
      BY <1>1, <2>1, <3>1, <3>4 DEF HoldInv, Over, Renewable
  <2>3. CASE work[w].pc \notin Holding
    BY <1>1, <2>1, <2>3 DEF HoldInv, Over, Holding, Loose, Places, Leased
  <2> QED
    BY <2>2, <2>3
<1>5. DoneHasOutcome'
  BY <1>1, <1>2 DEF DoneInv, DoneHasOutcome
<1> QED
  BY <1>4, <1>5 DEF DoneInv

LEMMA AcceptHold ==
  ASSUME TypeInv, LifeInv, DoneInv, NEW a \in Analyses, Accept(a), analysis[a] = "none",
         \A b \in Analyses : Over(b) => Over(b)'
  PROVE  DoneInv'
<1>1. /\ work' = work /\ \A b \in Analyses \ {a} : rows'[b] = rows[b]
      /\ rows'[a] = FreshRow
  BY DEF Accept, TypeInv, TypeOK
<1>2. FreshRow.state = "pending"
  BY DEF FreshRow, NoRow
<1>3. ASSUME NEW w \in Workers PROVE HoldInv(w)'
  <2>1. HoldInv(w) /\ PlaceInv(w) /\ (work[w].pc # "idle" => work[w].on \in Analyses)
    BY DEF DoneInv, LifeInv, TypeInv, InHand
  <2> QED
    BY <1>1, <2>1 DEF HoldInv, PlaceInv, Holding, Loose
<1>4. DoneHasOutcome'
  BY <1>1, <1>2 DEF DoneInv, DoneHasOutcome, Over
<1> QED
  BY <1>3, <1>4 DEF DoneInv

LEMMA StepDone ==
  ASSUME ~Lapsing, TypeInv, LifeInv, FilesInv, DoneInv, [Next]_vars
  PROVE  DoneInv'
<1>a. CASE \E w \in Workers : Marks(w)
  BY <1>a, MarkHold
<1>b. SUFFICES ASSUME ~ \E w \in Workers : Marks(w) PROVE DoneInv'
  BY <1>a
<1>0. \A b \in Analyses : Over(b) => Over(b)'
  BY <1>b, StaysOver
<1>1. ASSUME NEW w \in Workers, Process(w) PROVE DoneInv'
  <2>1. CASE Enter(w) \/ CheckSave(w) \/ CheckAnnounce(w) \/ Leave(w)
    BY <1>0, <2>1, CheckHold DEF Enter, CheckSave, CheckAnnounce, Leave, Holding, Loose, Places, Leased
  <2> QED
    BY <1>b, <1>0, <1>1, <2>1, LookHold, ProcessHold DEF Process, Looks, Marks
<1>2. ASSUME NEW w \in Workers,
             \/ (\E a \in Analyses : Examine(w, a)) \/ Conclude(w) \/ Crash(w)
             \/ ReadDropped(w) \/ ReadClosed(w)
      PROVE  DoneInv'
  <2>1. rows' = rows /\ (\A u \in Workers \ {w} : work'[u] = work[u]) /\ work'[w].pc \in Loose
    <3>1. ASSUME NEW a \in Analyses, Examine(w, a)
          PROVE  rows' = rows /\ (\A u \in Workers \ {w} : work'[u] = work[u]) /\ work'[w].pc \in Loose
      BY <3>1, ExamineTypes DEF Examine, Moves, TypeInv, TypeOK, Loose
    <3>2. CASE Crash(w)
      BY <3>2, Home DEF Crash, Loose
    <3>3. CASE Conclude(w)
      BY <3>3, ConcludeTypes DEF Loose
    <3>4. CASE ReadDropped(w) \/ ReadClosed(w)
      BY <3>4, DropTypes DEF ReadDropped, ReadClosed, Loose
    <3> QED
      BY <1>2, <3>1, <3>2, <3>3, <3>4
  <2> QED
    BY <1>0, <2>1, LetHold
<1>3. ASSUME NEW w \in Workers, Step(w) PROVE DoneInv'
  BY <1>b, <1>0, <1>1, <1>2, <1>3, ClaimHold, ProcessHold, SettleHold, LookHold DEF Step, Marks
<1>4. ASSUME NEW a \in Analyses, Accept(a) PROVE DoneInv'
  <2>1. analysis[a] = "none"
    BY <1>4 DEF Accept, Admissible, FilesInv
  <2> QED
    BY <1>0, <1>4, <2>1, AcceptHold
<1>5. ASSUME UNCHANGED <<analysis, rows, work>> PROVE DoneInv'
  BY <1>5 DEF DoneInv, DoneHasOutcome, HoldInv, Over
<1>6. ASSUME NEW a \in Analyses,
             Store(a) \/ Refuse(a) \/ Compensate(a) \/ CrashUpload(a) \/ Match(a) \/ ParkMatch(a)
      PROVE  DoneInv'
  BY <1>5, <1>6 DEF Store, Refuse, Compensate, CrashUpload, Match, ParkMatch
<1>7. CASE Republish \/ Expire \/ UNCHANGED vars
  BY <1>5, <1>7 DEF Republish, Expire, vars
<1>8. CASE Tick
  BY <1>8, TickHold
<1> QED
  BY <1>2, <1>3, <1>4, <1>6, <1>7, <1>8 DEF Next

\* Where a live worker keeps its lease, a finished row leaves no analysis on
\* which nobody works any more, however many workers there are and whichever die.
THEOREM DoneSound ==
  ASSUME ~Lapsing
  PROVE  Spec => []DoneHasOutcome
<1>1. Init => DoneInv
  <2> SUFFICES ASSUME Init PROVE DoneInv
    OBVIOUS
  <2>1. Idle.pc = "idle" /\ NoRow.state = "absent"
    BY DEF Idle, NoRow
  <2> QED
    BY <2>1 DEF Init, DoneInv, DoneHasOutcome, HoldInv, Holding, Loose
<1>2. TypeInv /\ LifeInv /\ FilesInv /\ DoneInv /\ [Next]_vars => DoneInv'
  BY StepDone
<1>3. DoneInv => DoneHasOutcome
  BY DEF DoneInv
<1> QED
  BY <1>1, <1>2, <1>3, LifeHolds, PTL DEF Spec

-----------------------------------------------------------------------------
(* One worker, as the code is deployed *)

Solo == \A u, w \in Workers : u = w

\* The worker works on what is running, saves a profile that is not there yet,
\* and finds the newest profile ranked before it says so.
SoloPlace(w) ==
  LET place == work[w].pc
      a == work[w].on
  IN
  /\ place \notin {"idle", "open", "acknowledge"} => Running(a)
  /\ place \in {"extract", "extracting", "profile", "profiling", "save", "saving"} => ~Saved(a)
  /\ place \in {"ready", "close"} => analysis[a] = "matching" /\ published > 0 /\ published = Len(profiles)

\* A running analysis that has a profile has the newest one.
NewestInv ==
  \A a \in Analyses :
    /\ Saved(a) => analysis[a] # "none"
    /\ Running(a) /\ Saved(a) => profiles[Len(profiles)] = a

SoloInv == OneRunning /\ NewestInv /\ OneProfileEach /\ \A w \in Workers : SoloPlace(w)

\* A step that changes no analysis and no profile.
LEMMA QuietSolo ==
  ASSUME TypeInv, SoloInv, UNCHANGED <<analysis, profiles>>,
         published' = published \/ published' = Len(profiles),
         \A w \in Workers : work'[w] = work[w] \/ SoloPlace(w)'
  PROVE  SoloInv'
<1>1. \A a \in Analyses : (Saved(a)' <=> Saved(a)) /\ (Running(a)' <=> Running(a))
  BY DEF Saved, Running
<1>2. NewestInv' /\ OneProfileEach' /\ OneRunning'
  BY <1>1 DEF SoloInv, NewestInv, OneProfileEach, OneRunning
<1>3. ASSUME NEW w \in Workers, work'[w] = work[w] PROVE SoloPlace(w)'
  <2>1. SoloPlace(w) /\ (work[w].pc # "idle" => work[w].on \in Analyses)
    BY DEF SoloInv, TypeInv, InHand
  <2> QED
    BY <1>3, <2>1 DEF SoloPlace, Saved, Running
<1> QED
  BY <1>2, <1>3 DEF SoloInv

\* A write by the only worker: what it has read is still so.
LEMMA MarkSolo ==
  ASSUME TypeInv, LifeInv, SoloInv, Solo, NEW w \in Workers, Marks(w) \/ Conclude(w)
  PROVE  /\ SoloInv'
         /\ \A a \in Analyses :
              /\ analysis[a] \in Terminal => analysis'[a] = analysis[a]
              /\ analysis[a] # "ready" /\ analysis'[a] = "ready" =>
                   published > 0 /\ profiles[published] = a
<1>1. PICK s \in {"extracting", "profiling", "matching", "failed", "ready"},
           to \in {"refused", "profile", "save", "leave", "acknowledge", "idle"} :
        /\ UNCHANGED <<profiles, published>>
        /\ work[w].pc \notin {"idle", "open", "acknowledge"}
        /\ work'[w].pc = to /\ (to # "idle" => work'[w].on = work[w].on)
        /\ to \in {"profile", "save"} => work[w].pc \in {"extracting", "profiling"}
        /\ to \notin {"acknowledge", "idle"} => s \in {"extracting", "profiling", "matching"}
        /\ s = "ready" => work[w].pc = "close"
        /\ \A b \in Analyses \ {work[w].on} : analysis'[b] = analysis[b]
        /\ analysis'[work[w].on] \in {analysis[work[w].on], s}
  <2>1. CASE Marks(w)
    <3>1. PICK s \in {"extracting", "profiling", "matching", "failed"},
               to \in {"refused", "profile", "save", "leave", "acknowledge"} :
            /\ Wrote(w, s, s, to)
            /\ to \in {"profile", "save"} => s \in {"extracting", "profiling"}
            /\ to # "acknowledge" => s # "failed"
      BY <2>1, MarksWrite
    <3> QED
      BY <3>1 DEF Wrote, others, matching
  <2>2. CASE Conclude(w)
    BY <2>2, ConcludeTypes DEF others, matching
  <2> QED
    BY <2>1, <2>2
<1>2. PICK a \in Analyses : a = work[w].on
  BY <1>1 DEF TypeInv, InHand
<1>3. Running(a) /\ SoloPlace(w) /\ analysis[a] \in States
  BY <1>1, <1>2 DEF SoloInv, SoloPlace, TypeInv, TypeOK
<1>4. \A u \in Workers : u = w
  BY DEF Solo
<1>5. /\ \A b \in Analyses \ {a} : analysis'[b] = analysis[b]
      /\ analysis'[a] \in {analysis[a], s}
  BY <1>1, <1>2
<1>6. analysis'[a] # "none" /\ (to \notin {"acknowledge", "idle"} => Running(a)')
  BY <1>1, <1>3, <1>5 DEF Running, Terminal
<1>7. \A b \in Analyses : (Saved(b)' <=> Saved(b)) /\ (Running(b)' => Running(b))
  BY <1>1, <1>3, <1>5 DEF Saved, Running
<1>8. NewestInv' /\ OneProfileEach' /\ OneRunning'
  BY <1>1, <1>5, <1>6, <1>7 DEF SoloInv, NewestInv, OneProfileEach, OneRunning
<1>9. SoloPlace(w)'
  <2>1. to \notin {"ready", "close", "extract", "extracting", "profiling", "saving"}
    OBVIOUS
  <2>2. to \in {"profile", "save"} => ~Saved(a)'
    BY <1>1, <1>2, <1>3, <1>7 DEF SoloPlace
  <2> QED
    BY <1>1, <1>2, <1>6, <2>1, <2>2 DEF SoloPlace
<1>10. SoloInv'
  BY <1>4, <1>8, <1>9 DEF SoloInv
<1>11. analysis'[a] = "ready" => published > 0 /\ profiles[published] = a
  <2>1. SUFFICES ASSUME analysis'[a] = "ready" PROVE published > 0 /\ profiles[published] = a
    OBVIOUS
  <2>2. work[w].pc = "close"
    BY <1>1, <1>3, <1>5, <2>1 DEF Running, Terminal
  <2>3. analysis[a] = "matching" /\ published > 0 /\ published = Len(profiles)
    BY <1>2, <1>3, <2>2 DEF SoloPlace
  <2>4. Saved(a)
    BY <2>3 DEF LifeInv, WaitingIsAnnounced, Saved
  <2> QED
    BY <1>3, <2>3, <2>4 DEF SoloInv, NewestInv
<1>12. analysis[a] \notin Terminal
  BY <1>3 DEF Running
<1> QED
  BY <1>5, <1>10, <1>11, <1>12

LEMMA SaveSolo ==
  ASSUME TypeInv, LifeInv, SoloInv, Solo, NEW w \in Workers, SaveProfile(w)
  PROVE  SoloInv'
<1> DEFINE n == Len(profiles)
<1>1. work[w].pc = "saving" /\ UNCHANGED <<analysis, published>>
  BY DEF SaveProfile, others, matching
<1>2. PICK a \in Analyses : a = work[w].on
  BY <1>1 DEF TypeInv, InHand
<1>3. /\ Running(a) /\ ~Saved(a) /\ profiles \in Seq(Analyses) /\ n \in Nat
      /\ \A u \in Workers : u = w
  BY <1>1, <1>2 DEF SoloInv, SoloPlace, Solo, TypeInv, TypeOK
<1>4. \A b \in Analyses \ {a} : ~Running(b)
  BY <1>3 DEF SoloInv, OneRunning
<1>5. PICK place \in {"embed", "refused"} :
        Goes(w, place) /\ (profiles' = profiles \/ profiles' = Append(profiles, a))
  BY <1>2 DEF SaveProfile
<1>6. work'[w].pc = place /\ work'[w].on = a
  BY <1>1, <1>2, <1>5, GoTo DEF Places, Leased
<1>7. \A b \in Analyses : Running(b)' <=> Running(b)
  BY <1>1 DEF Running
<1>8. SoloPlace(w)' /\ OneRunning'
  BY <1>3, <1>6, <1>7 DEF SoloPlace, SoloInv, OneRunning
<1>9. CASE profiles' = profiles
  <2>1. NewestInv' /\ OneProfileEach'
    BY <1>1, <1>7, <1>9 DEF SoloInv, NewestInv, OneProfileEach, Saved
  <2> QED
    BY <1>3, <1>8, <2>1 DEF SoloInv
<1>10. CASE profiles' = Append(profiles, a)
  <2>1. /\ Len(profiles') = n + 1 /\ profiles'[n + 1] = a
        /\ \A m \in 1..n : profiles'[m] = profiles[m]
    BY <1>3, <1>10
  <2>2. \A m \in 1..n : profiles[m] # a
    BY <1>3 DEF Saved
  <2>3. OneProfileEach'
    <3> SUFFICES ASSUME NEW k \in 1..(n + 1), NEW m \in 1..(n + 1), profiles'[k] = profiles'[m]
                 PROVE  k = m
      BY <2>1 DEF OneProfileEach
    <3>1. (k = n + 1 \/ k \in 1..n) /\ (m = n + 1 \/ m \in 1..n)
      BY <1>3
    <3>2. \A i, l \in 1..n : profiles[i] = profiles[l] => i = l
      BY DEF SoloInv, OneProfileEach
    <3> HIDE DEF n
    <3> QED
      BY <2>1, <2>2, <3>1, <3>2
  <2>4. \A b \in Analyses \ {a} : Saved(b)' => Saved(b)
    <3> SUFFICES ASSUME NEW b \in Analyses \ {a}, NEW m \in 1..(n + 1), profiles'[m] = b
                 PROVE  Saved(b)
      BY <2>1 DEF Saved
    <3>1. m = n + 1 \/ m \in 1..n
      BY <1>3
    <3> QED
      BY <2>1, <3>1 DEF Saved
  <2>5. NewestInv'
    <3> SUFFICES ASSUME NEW b \in Analyses, Saved(b)'
                 PROVE  analysis'[b] # "none" /\ (Running(b)' => profiles'[Len(profiles')] = b)
      BY DEF NewestInv
    <3>1. CASE b = a
      BY <1>1, <1>3, <2>1, <3>1 DEF Running
    <3>2. CASE b # a
      <4>1. Saved(b) /\ ~Running(b)
        BY <1>4, <2>4, <3>2
      <4> QED
        BY <1>1, <1>7, <4>1 DEF SoloInv, NewestInv
    <3> QED
      BY <3>1, <3>2
  <2> QED
    BY <1>3, <1>8, <2>3, <2>5 DEF SoloInv
<1> QED
  BY <1>5, <1>9, <1>10

LEMMA AcceptSolo ==
  ASSUME TypeInv, LifeInv, SoloInv, NEW a \in Analyses, analysis[a] = "none", Accept(a)
  PROVE  SoloInv'
<1>1. /\ UNCHANGED <<profiles, published, work>> /\ \A b \in Analyses : ~Running(b)
      /\ analysis'[a] = "queued" /\ \A b \in Analyses \ {a} : analysis'[b] = analysis[b]
  BY DEF Accept, Admissible, matching, TypeInv, TypeOK
<1>2. \A b \in Analyses : (Saved(b)' <=> Saved(b)) /\ (Saved(b) => b # a)
  BY <1>1 DEF SoloInv, NewestInv, Saved
<1>3. \A b \in Analyses \ {a} : Running(b)' <=> Running(b)
  BY <1>1 DEF Running
<1>4. NewestInv' /\ OneProfileEach' /\ OneRunning'
  BY <1>1, <1>2, <1>3 DEF SoloInv, NewestInv, OneProfileEach, OneRunning
<1>5. ASSUME NEW w \in Workers PROVE SoloPlace(w)'
  <2>1. SoloPlace(w) /\ PlaceInv(w) /\ (work[w].pc # "idle" => work[w].on \in Analyses)
    BY DEF SoloInv, LifeInv, TypeInv, InHand
  <2>2. work[w].pc \in {"idle", "open", "acknowledge"}
    BY <1>1, <2>1 DEF SoloPlace
  <2> QED
    BY <1>1, <2>2 DEF SoloPlace
<1> QED
  BY <1>4, <1>5 DEF SoloInv

\* The steps of a worker between the writes.
LEMMA WalkSolo ==
  ASSUME TypeInv, LifeInv, SoloInv, NEW w \in Workers,
         \/ \E a \in Analyses : Claim(w, a) \/ Examine(w, a)
         \/ Open(w) \/ Enter(w) \/ CheckSave(w) \/ CheckAnnounce(w) \/ Leave(w) \/ Begin(w)
         \/ Embed(w) \/ Enqueue(w) \/ Stumble(w) \/ RenewToFail(w) \/ Acknowledge(w)
         \/ Retry(w) \/ Crash(w)
  PROVE  SoloInv' /\ UNCHANGED analysis
<1>1. UNCHANGED <<analysis, profiles, published>>
  BY DEF Claim, Examine, Open, Enter, CheckSave, CheckAnnounce, Leave, Begin, Embed, Enqueue,
     Stumble, RenewToFail, Acknowledge, Retry, Crash, Check, others, matching
<1>2. \A u \in Workers \ {w} : work'[u] = work[u]
  BY DEF Claim, Examine, Open, Enter, CheckSave, CheckAnnounce, Leave, Begin, Embed, Enqueue,
     Stumble, RenewToFail, Acknowledge, Retry, Crash, Check, Moves, Goes, TypeInv, TypeOK
<1>3. SoloPlace(w) /\ PlaceInv(w) /\ (work[w].pc # "idle" => work[w].on \in Analyses)
  BY DEF SoloInv, LifeInv, TypeInv, InHand
<1>4. \A a \in Analyses : (Saved(a)' <=> Saved(a)) /\ (Running(a)' <=> Running(a))
  BY <1>1 DEF Saved, Running
<1>5. SoloPlace(w)'
  <2>1. CASE \E a \in Analyses : Claim(w, a)
    BY <2>1, ClaimTypes DEF SoloPlace
  <2>2. ASSUME NEW a \in Analyses, Examine(w, a) PROVE SoloPlace(w)'
    <3>1. /\ Running(a) /\ work'[w].on = a /\ work'[w].pc \in {"fail", "ready"}
          /\ work'[w].pc = "ready" => Ranked(a)
      <4>1. Running(a) /\ work'[w].on = a /\ work'[w].pc \in {"fail", "ready"}
        BY <2>2, ExamineTypes DEF Examine
      <4>2. Moves(w, [Idle EXCEPT !.pc = "fail", !.on = a]) \/ Ranked(a)
        BY <2>2 DEF Examine
      <4>3. Moves(w, [Idle EXCEPT !.pc = "fail", !.on = a]) => work'[w].pc = "fail"
        BY DEF Moves, Idle, TypeInv, TypeOK
      <4> QED
        BY <4>1, <4>2, <4>3
    <3> QED
      BY <1>1, <1>4, <3>1 DEF SoloPlace, Ranked
  <2>3. CASE Begin(w)
    <3>1. work'[w].on = work[w].on /\ work'[w].pc \in {"refused", "embed", "extract"}
      BY <2>3, BeginTypes
    <3>2. Running(work[w].on)
      BY <1>3, <2>3 DEF SoloPlace, Begin
    <3>3. work'[w].pc = "extract" => ~Saved(work[w].on)
      <4>1. SUFFICES ASSUME Saved(work[w].on), work'[w].pc = "extract" PROVE FALSE
        OBVIOUS
      <4>2. Len(profiles) > 0 /\ profiles[Len(profiles)] = work[w].on
        BY <1>3, <2>3, <3>2, <4>1 DEF SoloInv, NewestInv, Saved, Begin, TypeInv, TypeOK
      <4>3. expired \/ Moves(w, [work[w] EXCEPT !.pc = "embed", !.version = Len(profiles)])
        BY <2>3, <4>2 DEF Begin
      <4>4. work'[w].pc # "extract"
        <5>1. CASE expired
          <6>1. Goes(w, "refused")
            BY <2>3, <5>1 DEF Begin
          <6> QED
            BY <2>3, <6>1, GoTo DEF Begin, Places
        <5>2. CASE Moves(w, [work[w] EXCEPT !.pc = "embed", !.version = Len(profiles)])
          BY <5>2 DEF Moves, TypeInv, TypeOK
        <5> QED
          BY <4>3, <5>1, <5>2
      <4> QED
        BY <4>1, <4>4
    <3>4. PICK a \in Analyses : a = work[w].on
      BY <1>3, <2>3 DEF Begin
    <3> QED
      BY <1>4, <3>1, <3>2, <3>3, <3>4 DEF SoloPlace
  <2>4. CASE \/ Open(w) \/ Enter(w) \/ CheckSave(w) \/ CheckAnnounce(w) \/ Leave(w) \/ Embed(w)
             \/ Enqueue(w) \/ Stumble(w) \/ RenewToFail(w) \/ Acknowledge(w) \/ Retry(w) \/ Crash(w)
    <3>1. work[w].pc # "idle"
      BY <2>4 DEF Open, Enter, CheckSave, CheckAnnounce, Leave, Embed, Enqueue, Stumble,
         RenewToFail, Acknowledge, Retry, Crash, Check, Leased
    <3>2. PICK a \in Analyses : a = work[w].on
      BY <1>3, <3>1
    <3>3. \/ Moves(w, Idle)
          \/ Goes(w, "acknowledge")
          \/ \E place \in {"enter", "begin", "saving", "enqueue", "refused", "announce", "advance",
                           "retry", "failing"} :
               Goes(w, place) /\ (place = "saving" => work[w].pc = "save") /\ Running(a)
      BY <1>3, <2>4, <3>2 DEF SoloPlace, Open, Enter, CheckSave, CheckAnnounce, Leave, Embed,
         Enqueue, Stumble, RenewToFail, Acknowledge, Retry, Crash, Check, Leased
    <3>4. \/ work'[w].pc \in {"idle", "acknowledge"}
          \/ /\ work'[w].pc \in {"enter", "begin", "saving", "enqueue", "refused", "announce",
                                  "advance", "retry", "failing"}
             /\ work'[w].on = a /\ Running(a) /\ (work'[w].pc = "saving" => work[w].pc = "save")
      BY <3>1, <3>2, <3>3, GoTo, Home DEF Places, Leased
    <3> QED
      BY <1>3, <1>4, <3>2, <3>4 DEF SoloPlace
  <2> QED
    BY <2>1, <2>2, <2>3, <2>4
<1> QED
  BY <1>1, <1>2, <1>5, QuietSolo

\* The only worker reads a running analysis, so nothing it reads turns it away.
LEMMA LookSolo ==
  ASSUME TypeInv, LifeInv, SoloInv, NEW w \in Workers,
         Looks(w) \/ ReadFailing(w) \/ ReadDropped(w) \/ ReadClosed(w)
  PROVE  SoloInv' /\ UNCHANGED analysis
<1>1. /\ UNCHANGED <<analysis, profiles, published>> /\ \A u \in Workers \ {w} : work'[u] = work[u]
      /\ work[w].pc \notin {"idle", "open", "acknowledge"}
      /\ work'[w].pc # "idle" => work'[w].on = work[w].on
      /\ \/ work[w].pc = "extract" /\ work'[w].pc = "extracting"
         \/ work[w].pc = "profile" /\ work'[w].pc = "profiling"
         \/ work[w].pc = "ready" /\ work'[w].pc = "close"
         \/ work'[w].pc \in {"matching", "refused", "failed", "drop", "idle"}
  <2>1. CASE Looks(w)
    BY <2>1, LooksRead DEF others, matching
  <2>2. CASE ReadFailing(w) \/ ReadDropped(w) \/ ReadClosed(w)
    BY <2>2, DropTypes DEF others, matching
  <2> QED
    BY <2>1, <2>2
<1>2. PICK a \in Analyses : a = work[w].on
  BY <1>1 DEF TypeInv, InHand
<1>3. SoloPlace(w) /\ Running(a)
  BY <1>1, <1>2 DEF SoloInv, SoloPlace
<1>4. (Saved(a)' <=> Saved(a)) /\ (Running(a)' <=> Running(a))
  BY <1>1 DEF Saved, Running
<1>5. SoloPlace(w)'
  BY <1>1, <1>2, <1>3, <1>4 DEF SoloPlace
<1> QED
  BY <1>1, <1>5, QuietSolo

\* What one worker's system does to an analysis: what is over stays as it is, and
\* what becomes ready is ranked by its own profile.
OutcomeKept ==
  \A a \in Analyses :
    /\ analysis[a] \in Terminal => analysis'[a] = analysis[a]
    /\ analysis[a] # "ready" /\ analysis'[a] = "ready" => published > 0 /\ profiles[published] = a

LEMMA StepSolo ==
  ASSUME Solo, TypeInv, LifeInv, FilesInv, SoloInv, [Next]_vars
  PROVE  SoloInv' /\ OutcomeKept
<1>1. ASSUME NEW w \in Workers, Step(w) \/ Crash(w) PROVE SoloInv' /\ OutcomeKept
  <2>1. CASE Marks(w) \/ Conclude(w)
    BY <2>1, MarkSolo DEF OutcomeKept
  <2>2. CASE Looks(w) \/ ReadFailing(w) \/ ReadDropped(w) \/ ReadClosed(w)
    BY <2>2, LookSolo DEF OutcomeKept
  <2>3. CASE SaveProfile(w)
    BY <2>3, SaveSolo DEF SaveProfile, OutcomeKept
  <2>4. CASE \/ \E a \in Analyses : Claim(w, a) \/ Examine(w, a)
             \/ Open(w) \/ Enter(w) \/ CheckSave(w) \/ CheckAnnounce(w) \/ Leave(w) \/ Begin(w)
             \/ Embed(w) \/ Enqueue(w) \/ Stumble(w) \/ RenewToFail(w) \/ Acknowledge(w)
             \/ Retry(w) \/ Crash(w)
    BY <2>4, WalkSolo DEF OutcomeKept
  <2> QED
    BY <1>1, <2>1, <2>2, <2>3, <2>4 DEF Step, Process, Marks, Looks
<1>2. ASSUME NEW a \in Analyses, Accept(a) PROVE SoloInv' /\ OutcomeKept
  <2>1. analysis[a] = "none"
    BY <1>2 DEF Accept, Admissible, FilesInv
  <2>2. \A b \in Analyses : analysis'[b] = IF b = a THEN "queued" ELSE analysis[b]
    BY <1>2 DEF Accept, TypeInv, TypeOK
  <2>3. OutcomeKept
    BY <2>1, <2>2 DEF OutcomeKept, Terminal
  <2> QED
    BY <1>2, <2>1, <2>3, AcceptSolo
<1>3. ASSUME UNCHANGED <<analysis, profiles, work>>,
             published' = published \/ published' = Len(profiles)
      PROVE  SoloInv' /\ OutcomeKept
  BY <1>3, QuietSolo DEF OutcomeKept
<1>4. ASSUME NEW a \in Analyses, Store(a) \/ Refuse(a) \/ Compensate(a) \/ CrashUpload(a)
      PROVE  SoloInv' /\ OutcomeKept
  BY <1>3, <1>4 DEF Store, Refuse, Compensate, CrashUpload, matching
<1>5. ASSUME NEW a \in Analyses, Match(a) \/ ParkMatch(a) PROVE SoloInv' /\ OutcomeKept
  BY <1>3, <1>5 DEF Match, ParkMatch
<1>6. CASE Republish \/ Expire \/ Tick \/ UNCHANGED vars
  BY <1>3, <1>6 DEF Republish, Expire, Tick, vars, matching
<1> QED
  BY <1>1, <1>2, <1>4, <1>5, <1>6 DEF Next

LEMMA SoloHolds ==
  ASSUME Solo
  PROVE  Spec => [](TypeInv /\ LifeInv /\ FilesInv /\ SoloInv)
<1>1. Init => SoloInv
  <2> SUFFICES ASSUME Init PROVE SoloInv
    OBVIOUS
  <2>1. Idle.pc = "idle"
    BY DEF Idle
  <2>2. profiles = <<>> /\ \A a \in Analyses : ~Saved(a)
    BY DEF Init, Saved
  <2> QED
    BY <2>1, <2>2 DEF Init, SoloInv, NewestInv, OneProfileEach, SoloPlace, OneRunning, Running
<1>2. TypeInv /\ LifeInv /\ FilesInv /\ SoloInv /\ [Next]_vars => SoloInv'
  BY StepSolo
<1> QED
  BY <1>1, <1>2, LifeHolds, PTL DEF Spec

\* With one worker, a candidate never has two analyses that are not over, however
\* uploads overlap and whenever the worker dies or loses its lease: the worker's
\* reads and writes of a state fall on an analysis that stays the only one.
THEOREM OneRunningSound ==
  ASSUME Solo
  PROVE  Spec => []OneRunning
<1>1. SoloInv => OneRunning
  BY DEF SoloInv
<1> QED
  BY <1>1, SoloHolds, PTL

\* With one worker, a resume yields one profile version, however often the worker
\* dies, loses its lease and starts over.
THEOREM OneProfileSound ==
  ASSUME Solo
  PROVE  Spec => []OneProfileEach
<1>1. SoloInv => OneProfileEach
  BY DEF SoloInv
<1> QED
  BY <1>1, SoloHolds, PTL

\* With one worker, an analysis that is over keeps its outcome.
THEOREM OutcomesFinal ==
  ASSUME Solo
  PROVE  Spec => FinishedIsFinal
<1>1. TypeInv /\ LifeInv /\ FilesInv /\ SoloInv /\ [Next]_vars
        => [\A a \in Analyses : analysis[a] \in Terminal => analysis'[a] = analysis[a]]_vars
  BY StepSolo DEF OutcomeKept
<1> QED
  BY <1>1, SoloHolds, PTL DEF Spec, FinishedIsFinal

\* With one worker, an analysis becomes ready over recommendations for its own
\* profile.
THEOREM ReadySound ==
  ASSUME Solo
  PROVE  Spec => ReadyIsOwn
<1>1. TypeInv /\ LifeInv /\ FilesInv /\ SoloInv /\ [Next]_vars
        => [\A a \in Analyses : analysis[a] # "ready" /\ analysis'[a] = "ready" =>
              published > 0 /\ profiles[published] = a]_vars
  BY StepSolo DEF OutcomeKept
<1> QED
  BY <1>1, SoloHolds, PTL DEF Spec, ReadyIsOwn
=============================================================================
