---------------------------- MODULE JobImportProofs ----------------------------
(***************************************************************************)
(* Proofs about JobImport, for any number of jobs, texts and overlapping   *)
(* imports and closings.                                                   *)
(***************************************************************************)
EXTENDS JobImport, TLAPS

-----------------------------------------------------------------------------
(* Types *)

\* What appending a version to a history yields.
LEMMA AppendFacts ==
  ASSUME NEW S, NEW s \in Seq(S), NEW x \in S
  PROVE  /\ Len(s) \in Nat
         /\ Append(s, x) \in Seq(S)
         /\ Len(Append(s, x)) = Len(s) + 1
         /\ Append(s, x)[Len(s) + 1] = x
         /\ \A n \in 1..Len(s) : Append(s, x)[n] = s[n]
  OBVIOUS

\* A request past its first read has a text to store.
HasText ==
  \A r \in Requests : req[r].pc \in {"snapshot", "decide", "same", "look", "commit", "complete"}
                        => req[r].text \in Texts

TypeInv == TypeOK /\ HasText

LEMMA FlushedType ==
  ASSUME NEW now \in JobRow, NEW read \in JobRow, NEW v \in Nat, NEW active \in BOOLEAN
  PROVE  Flushed(now, read, v, active) \in JobRow
  BY DEF Flushed, JobRow

\* Moving a request to another place changes nothing else of it.
LEMMA GoToTypes ==
  ASSUME TypeInv, NEW r \in Requests, NEW place \in Places, GoTo(r, place),
         \/ place \in {"new", "fetch", "over"}
         \/ req[r].text \in Texts
  PROVE  req' \in [Requests -> Request] /\ HasText'
  BY DEF TypeInv, TypeOK, HasText, GoTo, Request

\* A request is replaced by another one that has its text.
LEMMA ReplaceTypes ==
  ASSUME TypeInv, NEW r \in Requests, NEW q \in Request, req' = [req EXCEPT ![r] = q],
         q.text \in Texts
  PROVE  req' \in [Requests -> Request] /\ HasText'
  BY DEF TypeInv, TypeOK, HasText

LEMMA StepTypes == TypeInv /\ [Next]_vars => TypeInv'
<1> SUFFICES ASSUME TypeInv, [Next]_vars PROVE TypeInv'
  OBVIOUS
<1> USE DEF tables, records
<1>0. Imports \subseteq Requests /\ Closings \subseteq Requests
  BY DEF Requests
<1>1. ASSUME NEW i \in Imports, Start(i) PROVE TypeInv'
  <2>1. req' \in [Requests -> Request] /\ HasText'
    BY <1>0, <1>1, GoToTypes DEF Start, Places
  <2> QED
    BY <1>1, <2>1 DEF Start, TypeInv, TypeOK
<1>2. ASSUME NEW i \in Imports, Fetch(i) PROVE TypeInv'
  <2>1. PICK t \in Texts : req' = [req EXCEPT ![i].pc = "snapshot", ![i].text = t]
    BY <1>2 DEF Fetch
  <2> DEFINE q == [req[i] EXCEPT !.pc = "snapshot", !.text = t]
  <2>2. req[i] \in Request
    BY <1>0 DEF TypeInv, TypeOK
  <2>3. q \in Request /\ q.text \in Texts
    BY <2>2 DEF Request, Places
  <2>4. req' = [req EXCEPT ![i] = q]
    BY <2>1
  <2> HIDE DEF q
  <2>5. req' \in [Requests -> Request] /\ HasText'
    BY <1>0, <2>3, <2>4, ReplaceTypes
  <2> QED
    BY <1>2, <2>5 DEF Fetch, TypeInv, TypeOK
<1>3. ASSUME NEW i \in Imports, FailFetch(i) PROVE TypeInv'
  <2>1. req' \in [Requests -> Request] /\ HasText'
    BY <1>0, <1>3, GoToTypes DEF FailFetch, Places
  <2> QED
    BY <1>3, <2>1 DEF FailFetch, TypeInv, TypeOK
<1>4. ASSUME NEW i \in Imports, Snapshot(i) PROVE TypeInv'
  <2>1. req[i].text \in Texts
    BY <1>0, <1>4 DEF Snapshot, TypeInv, HasText
  <2>2. req' \in [Requests -> Request] /\ HasText'
    BY <1>0, <1>4, <2>1, GoToTypes DEF Snapshot, Places
  <2> QED
    BY <1>4, <2>1, <2>2 DEF Snapshot, TypeInv, TypeOK
<1>5. ASSUME NEW i \in Imports, Decide(i) PROVE TypeInv'
  <2>1. req[i].text \in Texts
    BY <1>0, <1>5 DEF Decide, TypeInv, HasText
  <2>2. CASE GoTo(i, "same")
    <3>1. req' \in [Requests -> Request] /\ HasText'
      BY <1>0, <2>1, <2>2, GoToTypes DEF Places
    <3> QED
      BY <1>5, <3>1 DEF Decide, TypeInv, TypeOK
  <2>3. CASE req' = [req EXCEPT ![i].pc = "look", ![i].base = Len(versions[req[i].job])]
    <3> DEFINE n == Len(versions[req[i].job])
               q == [req[i] EXCEPT !.pc = "look", !.base = n]
    <3>1. n \in Nat /\ req[i] \in Request
      BY <1>0 DEF TypeInv, TypeOK, Request
    <3>3. req' = [req EXCEPT ![i] = q]
      BY <2>3
    <3> HIDE DEF n
    <3>4. q \in Request /\ q.text \in Texts
      BY <2>1, <3>1 DEF Request, Places
    <3> HIDE DEF q
    <3>2. req' \in [Requests -> Request] /\ HasText'
      BY <1>0, <3>3, <3>4, ReplaceTypes
    <3> QED
      BY <1>5, <3>2 DEF Decide, TypeInv, TypeOK
  <2> QED
    BY <1>5, <2>2, <2>3 DEF Decide
<1>6. ASSUME NEW i \in Imports, Complete(i) PROVE TypeInv'
  <2>1. req' \in [Requests -> Request] /\ HasText'
    BY <1>0, <1>6, GoToTypes DEF Complete, Places
  <2> QED
    BY <1>6, <2>1 DEF Complete, TypeInv, TypeOK
<1>7. ASSUME NEW k \in Closings, Close(k) PROVE TypeInv'
  <2> DEFINE j == req[k].job
  <2>1. CASE GoTo(k, "over")
    <3>1. req' \in [Requests -> Request] /\ HasText'
      BY <1>0, <2>1, GoToTypes DEF Places
    <3> QED
      BY <1>7, <3>1 DEF Close, TypeInv, TypeOK
  <2>2. CASE versions[j] # <<>> /\ req' = [req EXCEPT ![k].pc = "look", ![k].base = Len(versions[j]),
                                                     ![k].text = Latest(j).text]
    <3>1. j \in Jobs /\ versions[j] \in Seq(Version)
      BY <1>0 DEF TypeInv, TypeOK, Request
    <3>2. Len(versions[j]) \in Nat /\ Latest(j) \in Version
      BY <2>2, <3>1 DEF Latest
    <3>3. Latest(j).text \in Texts
      BY <3>2 DEF Version
    <3> DEFINE n == Len(versions[j])
               t == Latest(j).text
               q == [req[k] EXCEPT !.pc = "look", !.base = n, !.text = t]
    <3>5. req' = [req EXCEPT ![k] = q] /\ req[k] \in Request
      BY <1>0, <2>2 DEF TypeInv, TypeOK
    <3>6. n \in Nat /\ t \in Texts
      BY <3>2, <3>3
    <3> HIDE DEF n, t, j
    <3>7. q \in Request /\ q.text \in Texts
      BY <3>5, <3>6 DEF Request, Places
    <3> HIDE DEF q
    <3>4. req' \in [Requests -> Request] /\ HasText'
      BY <1>0, <3>5, <3>7, ReplaceTypes
    <3> QED
      BY <1>7, <3>4 DEF Close, TypeInv, TypeOK
  <2> QED
    BY <1>7, <2>1, <2>2 DEF Close
<1>8. ASSUME NEW r \in Requests, Look(r) PROVE TypeInv'
  <2> DEFINE found == req[r].base + 1 <= Len(versions[req[r].job])
  <2>1. req[r].text \in Texts
    BY <1>8 DEF Look, TypeInv, HasText
  <2>2. CASE GoTo(r, "over")
    <3>1. req' \in [Requests -> Request] /\ HasText'
      BY <2>2, GoToTypes DEF Places
    <3> QED
      BY <1>8, <3>1 DEF Look, TypeInv, TypeOK
  <2>3. CASE req' = [req EXCEPT ![r].pc = "commit", ![r].read = row[req[r].job], ![r].found = found]
    <3>1. found \in BOOLEAN /\ row[req[r].job] \in JobRow
      BY DEF TypeInv, TypeOK, Request
    <3> DEFINE read == row[req[r].job]
               q == [req[r] EXCEPT !.pc = "commit", !.read = read, !.found = found]
    <3>3. req' = [req EXCEPT ![r] = q] /\ req[r] \in Request
      BY <2>3 DEF TypeInv, TypeOK
    <3> HIDE DEF found, read
    <3>4. q \in Request /\ q.text \in Texts
      BY <2>1, <3>1, <3>3 DEF Request, Places, read
    <3> HIDE DEF q
    <3>2. req' \in [Requests -> Request] /\ HasText'
      BY <3>3, <3>4, ReplaceTypes
    <3> QED
      BY <1>8, <3>2 DEF Look, TypeInv, TypeOK
  <2> QED
    BY <1>8, <2>2, <2>3 DEF Look
<1>9. ASSUME NEW r \in Requests, Commit(r) PROVE TypeInv'
  <2> DEFINE j == req[r].job
             v == req[r].base + 1
             new == [text |-> req[r].text, active |-> Opens(r)]
  <2>1. req[r].text \in Texts /\ j \in Jobs /\ v \in Nat \ {0} /\ Opens(r) \in BOOLEAN
    BY <1>9 DEF Commit, TypeInv, TypeOK, HasText, Request, Opens
  <2>2. versions' \in [Jobs -> Seq(Version)]
    <3>1. new \in Version /\ versions[j] \in Seq(Version)
      BY <2>1 DEF Version, TypeInv, TypeOK
    <3>2. Append(versions[j], new) \in Seq(Version)
      BY <3>1, AppendFacts
    <3>3. versions' = versions \/ versions' = [versions EXCEPT ![j] = Append(versions[j], new)]
      BY <1>9 DEF Commit
    <3> HIDE DEF new
    <3> QED
      BY <3>2, <3>3 DEF TypeInv, TypeOK
  <2>3. row' \in [Jobs -> JobRow]
    <3>1. Flushed(row[j], req[r].read, v, Opens(r)) \in JobRow
      BY <2>1, FlushedType DEF TypeInv, TypeOK, Request
    <3> QED
      BY <1>9, <3>1 DEF Commit, TypeInv, TypeOK
  <2>4. outbox' \subseteq Event
    <3>1. EventOf(r) \in Event
      BY <2>1 DEF EventOf, TypeOf, Event, EventTypes
    <3> QED
      BY <1>9, <3>1 DEF Commit, TypeInv, TypeOK
  <2>5. req' \in [Requests -> Request] /\ HasText'
    BY <1>9, <2>1, GoToTypes DEF Commit, Places
  <2> QED
    BY <1>9, <2>2, <2>3, <2>4, <2>5 DEF Commit, TypeInv, TypeOK
<1>10. ASSUME NEW r \in Requests, RollBack(r) PROVE TypeInv'
  <2>1. req' \in [Requests -> Request] /\ HasText'
    BY <1>10, GoToTypes DEF RollBack, Places
  <2> QED
    BY <1>10, <2>1 DEF RollBack, TypeInv, TypeOK
<1>11. ASSUME NEW r \in Requests, Break(r) PROVE TypeInv'
  <2>1. req' \in [Requests -> Request] /\ HasText'
    BY <1>11, GoToTypes DEF Break, Places
  <2> QED
    BY <1>11, <2>1 DEF Break, TypeInv, TypeOK
<1>12. CASE UNCHANGED vars
  BY <1>12 DEF vars, TypeInv, TypeOK, HasText
<1> QED
  BY <1>1, <1>2, <1>3, <1>4, <1>5, <1>6, <1>7, <1>8, <1>9, <1>10, <1>11, <1>12 DEF Next

LEMMA InitTypes == Init => TypeInv
<1> SUFFICES ASSUME Init PROVE TypeInv
  OBVIOUS
<1>1. NoRow \in JobRow
  BY DEF NoRow, JobRow
<1>2. req \in [Requests -> Request] /\ \A r \in Requests : req[r].pc = "new"
  <2>1. PICK target \in [Requests -> Jobs] :
          req = [r \in Requests |-> [pc |-> "new", job |-> target[r], text |-> NoText,
                                    base |-> 0, found |-> FALSE, read |-> NoRow]]
    BY DEF Init
  <2> QED
    BY <1>1, <2>1 DEF Request, Places
<1> QED
  BY <1>1, <1>2 DEF Init, TypeInv, TypeOK, HasText

\* The tables and the requests always have the shape TypeOK gives them.
THEOREM TypeCorrect == Spec => []TypeOK
<1>1. Init => TypeInv
  BY InitTypes
<1>2. TypeInv /\ [Next]_vars => TypeInv'
  BY StepTypes
<1>3. TypeInv => TypeOK
  BY DEF TypeInv
<1> QED
  BY <1>1, <1>2, <1>3, PTL DEF Spec

-----------------------------------------------------------------------------
(* The history of a job *)

\* What a request that is saving knows of the version it read, which is still
\* there whatever others did since, and of the job row it read.
SavingInv(r) ==
  LET q == req[r]
      history == versions[q.job]
  IN
  /\ q.base <= Len(history)
  /\ q.pc \in {"look", "commit"} =>
       IF Opens(r)
       THEN q.base > 0 => history[q.base].text # q.text
       ELSE q.base > 0 /\ history[q.base].active /\ history[q.base].text = q.text
  /\ q.pc = "commit" =>
       /\ q.base <= q.read.current /\ q.read.current <= Len(history)
       /\ q.found => q.base < q.read.current /\ history[q.base + 1].text = q.text

HistoryInv ==
  /\ \A r \in Requests : SavingInv(r)
  /\ EventsDescribeVersions
  /\ VersionsAnnounced
  /\ EachVersionIsAChange
  /\ CurrentIsNewest

\* Histories only grow.
Grows ==
  \A j \in Jobs :
    /\ Len(versions[j]) <= Len(versions'[j])
    /\ \A n \in 1..Len(versions[j]) : versions'[j][n] = versions[j][n]

\* What a request knows stays true while it waits, and when it moves to a place
\* where it is not saving.
LEMMA SavingKept ==
  ASSUME TypeInv, TypeInv', NEW r \in Requests, SavingInv(r), Grows,
         req'[r].job = req[r].job, req'[r].base = req[r].base,
         req'[r] = req[r] \/ req'[r].pc \notin {"look", "commit"}
  PROVE  SavingInv(r)'
<1> DEFINE j == req[r].job
           b == req[r].base
<1>1. j \in Jobs /\ b \in Nat /\ Len(versions[j]) \in Nat /\ Len(versions'[j]) \in Nat
  BY DEF TypeInv, TypeOK, Request
<1>2. b <= Len(versions'[j])
  BY <1>1 DEF SavingInv, Grows
<1>3. CASE req'[r].pc \notin {"look", "commit"}
  BY <1>2, <1>3 DEF SavingInv
<1>4. CASE req'[r] = req[r] /\ req[r].pc \in {"look", "commit"}
  <2>1. b > 0 => versions'[j][b] = versions[j][b]
    BY <1>1 DEF SavingInv, Grows
  <2>2. req[r].read.current \in Nat
    BY DEF TypeInv, TypeOK, Request, JobRow
  <2>3. req[r].pc = "commit" /\ req[r].found =>
          b + 1 <= Len(versions[j]) /\ versions'[j][b + 1] = versions[j][b + 1]
    BY SMTT(40), <1>1, <2>2 DEF SavingInv, Grows
  <2>4. Len(versions[j]) <= Len(versions'[j])
    BY <1>1 DEF Grows
  <2>5. IF Opens(r)
        THEN b > 0 => versions'[j][b].text # req[r].text
        ELSE b > 0 /\ versions'[j][b].active /\ versions'[j][b].text = req[r].text
    BY <1>4, <2>1 DEF SavingInv
  <2>6. req[r].pc = "commit" =>
          /\ b <= req[r].read.current /\ req[r].read.current <= Len(versions'[j])
          /\ req[r].found => b < req[r].read.current /\ versions'[j][b + 1].text = req[r].text
    <3> SUFFICES ASSUME req[r].pc = "commit"
                 PROVE  /\ b <= req[r].read.current /\ req[r].read.current <= Len(versions'[j])
                        /\ req[r].found => b < req[r].read.current /\ versions'[j][b + 1].text = req[r].text
      OBVIOUS
    <3>1. /\ b <= req[r].read.current /\ req[r].read.current <= Len(versions[j])
          /\ req[r].found => b < req[r].read.current /\ versions[j][b + 1].text = req[r].text
      BY DEF SavingInv
    <3> HIDE DEF j, b
    <3>2. req[r].read.current <= Len(versions'[j])
      BY <1>1, <2>2, <2>4, <3>1
    <3> QED
      BY <2>3, <3>1, <3>2
  <2>7. req'[r].job = j /\ req'[r].base = b /\ req'[r].pc = req[r].pc /\ req'[r].text = req[r].text
        /\ req'[r].read = req[r].read /\ req'[r].found = req[r].found
    BY <1>4
  <2> HIDE DEF j, b
  <2> QED
    BY <1>2, <2>5, <2>6, <2>7 DEF SavingInv, Opens
<1> QED
  BY <1>3, <1>4

\* A step that leaves the tables alone needs only its own request examined.
LEMMA QuietStep ==
  ASSUME TypeInv, TypeInv', HistoryInv, UNCHANGED tables, NEW r \in Requests, NEW q,
         req' = [req EXCEPT ![r] = q], SavingInv(r)'
  PROVE  HistoryInv'
<1>1. Grows
  BY DEF Grows, tables, TypeInv, TypeOK
<1>2. ASSUME NEW s \in Requests PROVE SavingInv(s)'
  <2>1. CASE s = r
    BY <2>1
  <2>2. CASE s # r
    <3>1. req'[s] = req[s]
      BY <2>2 DEF TypeInv, TypeOK
    <3> QED
      BY <1>1, <3>1, SavingKept DEF HistoryInv
  <2> QED
    BY <2>1, <2>2
<1> QED
  BY <1>2 DEF HistoryInv, tables, EventsDescribeVersions, VersionsAnnounced,
              EachVersionIsAChange, CurrentIsNewest

\* The same for a step that only moves the request to a place where it is not saving.
LEMMA QuietMove ==
  ASSUME TypeInv, TypeInv', HistoryInv, UNCHANGED tables, NEW r \in Requests, NEW place,
         place \notin {"look", "commit"}, GoTo(r, place)
  PROVE  HistoryInv'
<1> DEFINE q == [req[r] EXCEPT !.pc = place]
<1>1. req' = [req EXCEPT ![r] = q] /\ req'[r] = q
  BY DEF GoTo, TypeInv, TypeOK
<1>2. q.job = req[r].job /\ q.base = req[r].base /\ q.pc = place
  BY DEF TypeInv, TypeOK, Request
<1>3. Grows
  BY DEF Grows, tables, TypeInv, TypeOK
<1>4. SavingInv(r)'
  BY <1>1, <1>2, <1>3, SavingKept DEF HistoryInv
<1> HIDE DEF q
<1> QED
  BY <1>1, <1>4, QuietStep

\* What save_with_event does to the job's history.
LEMMA CommitEffect ==
  ASSUME TypeInv, HistoryInv, NEW r \in Requests, Commit(r)
  PROVE  LET j == req[r].job
             n == Len(versions[j])
             b == req[r].base
         IN /\ j \in Jobs /\ n \in Nat /\ b \in Nat
            /\ \/ /\ req[r].found /\ b < n
                  /\ versions' = versions
               \/ /\ ~req[r].found /\ b = n
                  /\ versions'[j] \in Seq(Version)
                  /\ Len(versions'[j]) = n + 1
                  /\ versions'[j][n + 1] = [text |-> req[r].text, active |-> Opens(r)]
                  /\ \A m \in 1..n : versions'[j][m] = versions[j][m]
                  /\ \A i \in Jobs \ {j} : versions'[i] = versions[i]
<1> DEFINE j == req[r].job
           n == Len(versions[j])
           b == req[r].base
           new == [text |-> req[r].text, active |-> Opens(r)]
<1>1. j \in Jobs /\ n \in Nat /\ b \in Nat /\ versions[j] \in Seq(Version)
  BY DEF TypeInv, TypeOK, Request
<1>2. b <= n /\ (req[r].found => b < n)
  <2>1. req[r].read.current \in Nat /\ req[r].pc = "commit" /\ SavingInv(r)
    BY DEF Commit, HistoryInv, TypeInv, TypeOK, Request, JobRow
  <2> QED
    BY <1>1, <2>1 DEF SavingInv
<1>3. CASE req[r].found
  BY <1>1, <1>2, <1>3 DEF Commit
<1>4. CASE ~req[r].found
  <2>1. b = n
    BY <1>1, <1>2, <1>4 DEF Commit
  <2>2. versions' = [versions EXCEPT ![j] = Append(versions[j], new)]
    BY <1>4 DEF Commit
  <2>3. new \in Version
    BY DEF Version, TypeInv, HasText, Commit, Opens
  <2> HIDE DEF new
  <2>4. versions'[j] = Append(versions[j], new) /\ \A i \in Jobs \ {j} : versions'[i] = versions[i]
    BY <1>1, <2>2 DEF TypeInv, TypeOK
  <2>5. /\ versions'[j] \in Seq(Version) /\ Len(versions'[j]) = n + 1
        /\ versions'[j][n + 1] = new
        /\ \A m \in 1..n : versions'[j][m] = versions[j][m]
    BY <1>1, <2>3, <2>4, AppendFacts
  <2> QED
    BY <1>1, <1>4, <2>1, <2>4, <2>5 DEF new
<1> QED
  BY <1>3, <1>4

LEMMA DecideHistory ==
  ASSUME TypeInv, TypeInv', HistoryInv, NEW i \in Imports, Decide(i)
  PROVE  HistoryInv'
<1> DEFINE j == req[i].job
           n == Len(versions[j])
<1>0. i \in Requests /\ UNCHANGED tables /\ UNCHANGED versions /\ Opens(i)
  BY DEF Requests, Decide, tables, Opens
<1>1. req \in [Requests -> Request] /\ versions[j] \in Seq(Version) /\ n \in Nat
  BY <1>0 DEF TypeInv, TypeOK, Request
<1>2. CASE GoTo(i, "same")
  BY <1>0, <1>2, QuietMove
<1>3. CASE /\ ~(versions[j] # <<>> /\ Latest(j).text = req[i].text)
           /\ req' = [req EXCEPT ![i].pc = "look", ![i].base = n]
  <2> DEFINE q == [req[i] EXCEPT !.pc = "look", !.base = n]
  <2>1. req' = [req EXCEPT ![i] = q] /\ req'[i] = q
    BY <1>0, <1>1, <1>3
  <2>2. q.job = j /\ q.base = n /\ q.pc = "look" /\ q.text = req[i].text
    BY <1>0, <1>1 DEF Request
  <2>3. n > 0 => versions[j][n].text # req[i].text
    BY <1>1, <1>3 DEF Latest
  <2> HIDE DEF q, j
  <2>4. SavingInv(i)'
    BY <1>0, <1>1, <2>1, <2>2, <2>3 DEF SavingInv, Opens
  <2> QED
    BY <1>0, <2>1, <2>4, QuietStep
<1> QED
  BY <1>2, <1>3 DEF Decide

LEMMA CloseHistory ==
  ASSUME TypeInv, TypeInv', HistoryInv, NEW k \in Closings, Close(k)
  PROVE  HistoryInv'
<1> DEFINE j == req[k].job
           n == Len(versions[j])
           t == Latest(j).text
<1>0. k \in Requests /\ UNCHANGED tables /\ UNCHANGED versions /\ ~Opens(k)
  BY RequestsAssumption DEF Requests, Close, tables, Opens
<1>1. req \in [Requests -> Request] /\ versions[j] \in Seq(Version) /\ n \in Nat
  BY <1>0 DEF TypeInv, TypeOK, Request
<1>2. CASE GoTo(k, "over")
  BY <1>0, <1>2, QuietMove
<1>3. CASE /\ versions[j] # <<>> /\ Latest(j).active
           /\ req' = [req EXCEPT ![k].pc = "look", ![k].base = n, ![k].text = t]
  <2> DEFINE q == [req[k] EXCEPT !.pc = "look", !.base = n, !.text = t]
  <2>1. req' = [req EXCEPT ![k] = q] /\ req'[k] = q
    BY <1>0, <1>1, <1>3
  <2>2. q.job = j /\ q.base = n /\ q.pc = "look" /\ q.text = t
    BY <1>0, <1>1 DEF Request
  <2>3. n > 0 /\ versions[j][n].active /\ versions[j][n].text = t
    BY <1>1, <1>3 DEF Latest
  <2> HIDE DEF q, j, t
  <2>4. SavingInv(k)'
    BY <1>0, <1>1, <2>1, <2>2, <2>3 DEF SavingInv, Opens
  <2> QED
    BY <1>0, <2>1, <2>4, QuietStep
<1> QED
  BY <1>2, <1>3 DEF Close

LEMMA LookHistory ==
  ASSUME TypeInv, TypeInv', HistoryInv, NEW r \in Requests, Look(r)
  PROVE  HistoryInv'
<1> DEFINE j == req[r].job
           b == req[r].base
           n == Len(versions[j])
           taken == b + 1 <= n
           read == row[j]
<1>0. UNCHANGED tables /\ UNCHANGED versions
  BY DEF Look, tables
<1>1. req \in [Requests -> Request] /\ j \in Jobs /\ n \in Nat /\ b \in Nat
  BY DEF TypeInv, TypeOK, Request
<1>2. CASE GoTo(r, "over")
  BY <1>0, <1>2, QuietMove
<1>3. CASE /\ ~(taken /\ versions[j][b + 1].text # req[r].text)
           /\ req' = [req EXCEPT ![r].pc = "commit", ![r].read = read, ![r].found = taken]
  <2> DEFINE q == [req[r] EXCEPT !.pc = "commit", !.read = read, !.found = taken]
  <2>1. req' = [req EXCEPT ![r] = q] /\ req'[r] = q
    BY <1>1, <1>3
  <2>2. /\ q.job = j /\ q.base = b /\ q.pc = "commit" /\ q.text = req[r].text
        /\ q.read = read /\ q.found = taken
    BY <1>1 DEF Request
  <2>3. /\ b <= n
        /\ IF Opens(r)
           THEN b > 0 => versions[j][b].text # req[r].text
           ELSE b > 0 /\ versions[j][b].active /\ versions[j][b].text = req[r].text
    BY DEF HistoryInv, SavingInv, Look
  <2>4. read.current = n
    BY <1>1 DEF HistoryInv, CurrentIsNewest
  <2> HIDE DEF q, j, b, read
  <2>5. b <= read.current /\ read.current <= n
        /\ (taken => b < read.current /\ versions[j][b + 1].text = req[r].text)
    BY <1>1, <1>3, <2>3, <2>4
  <2> HIDE DEF taken
  <2>6. SavingInv(r)'
    BY <1>0, <2>1, <2>2, <2>3, <2>5 DEF SavingInv, Opens
  <2> QED
    BY <1>0, <2>1, <2>6, QuietStep
<1> QED
  BY <1>2, <1>3 DEF Look

\* The event of a commit tells the truth about the version the commit stores or finds.
LEMMA NewEventTrue ==
  ASSUME TypeInv, HistoryInv, NEW r \in Requests, Commit(r)
  PROVE  LET e == EventOf(r) IN
         /\ e.version <= Len(versions'[e.job])
         /\ versions'[e.job][e.version].active <=> e.type # "job.expired"
         /\ e.version = 1 <=> e.type = "job.created"
<1> DEFINE j == req[r].job
           n == Len(versions[j])
           b == req[r].base
           text == req[r].text
<1>1. /\ j \in Jobs /\ n \in Nat /\ b \in Nat
      /\ \/ req[r].found /\ b < n /\ versions' = versions
         \/ /\ ~req[r].found /\ b = n
            /\ Len(versions'[j]) = n + 1
            /\ versions'[j][n + 1] = [text |-> text, active |-> Opens(r)]
  BY CommitEffect
<1>2. /\ IF Opens(r)
         THEN b > 0 => versions[j][b].text # text
         ELSE b > 0 /\ versions[j][b].active /\ versions[j][b].text = text
      /\ req[r].found => versions[j][b + 1].text = text
  BY DEF HistoryInv, SavingInv, Commit
<1>3. b + 1 <= Len(versions'[j]) /\ (versions'[j][b + 1].active <=> Opens(r))
  <2>1. CASE req[r].found
    <3>0. b < n /\ versions' = versions
      BY <1>1, <2>1
    <3>1. versions[j][b + 1] \in Version
      BY <1>1, <3>0 DEF TypeInv, TypeOK
    <3>2. CASE b = 0
      <4>1. versions[j] # <<>>
        BY <1>1, <3>0, <3>2
      <4>2. versions[j][1].active /\ Opens(r)
        BY <1>1, <1>2, <3>2, <4>1 DEF HistoryInv, EachVersionIsAChange
      <4> QED
        BY <1>1, <3>0, <3>2, <4>2
    <3>3. CASE b > 0
      <4>1. b + 1 \in 2..n /\ (b + 1) - 1 = b
        BY <1>1, <3>0, <3>3
      <4>2. LET new == versions[j][b + 1]
                old == versions[j][b]
            IN IF new.active THEN new.text # old.text ELSE old.active /\ new.text = old.text
        BY SMTT(40), <1>1, <4>1 DEF HistoryInv, EachVersionIsAChange
      <4> QED
        BY <1>1, <1>2, <2>1, <3>0, <3>1, <3>3, <4>2 DEF Version
    <3> QED
      BY <1>1, <3>2, <3>3
  <2>2. CASE ~req[r].found
    BY <1>1, <2>2
  <2> QED
    BY <2>1, <2>2
<1>4. b = 0 => Opens(r)
  BY <1>2
<1> HIDE DEF j, b
<1>5. EventOf(r) = [id |-> r, type |-> TypeOf(r), job |-> j, version |-> b + 1]
  BY DEF EventOf, j, b
<1>6. /\ TypeOf(r) # "job.expired" <=> Opens(r)
      /\ TypeOf(r) = "job.created" <=> b = 0
  BY <1>4 DEF TypeOf, b
<1> QED
  BY <1>1, <1>3, <1>5, <1>6

LEMMA CommitHistory ==
  ASSUME TypeInv, TypeInv', HistoryInv, NEW r \in Requests, Commit(r)
  PROVE  HistoryInv'
<1> DEFINE j == req[r].job
           n == Len(versions[j])
           b == req[r].base
           text == req[r].text
           read == req[r].read
           Appended ==
             /\ ~req[r].found /\ b = n
             /\ versions'[j] \in Seq(Version) /\ Len(versions'[j]) = n + 1
             /\ versions'[j][n + 1] = [text |-> text, active |-> Opens(r)]
             /\ \A m \in 1..n : versions'[j][m] = versions[j][m]
             /\ \A i \in Jobs \ {j} : versions'[i] = versions[i]
<1>1. /\ j \in Jobs /\ n \in Nat /\ b \in Nat
      /\ \/ req[r].found /\ b < n /\ versions' = versions
         \/ Appended
  BY CommitEffect
<1>2. /\ IF Opens(r)
         THEN b > 0 => versions[j][b].text # text
         ELSE b > 0 /\ versions[j][b].active /\ versions[j][b].text = text
      /\ b <= read.current /\ read.current <= n
      /\ req[r].found => b < read.current
  BY DEF HistoryInv, SavingInv, Commit
<1>3. /\ outbox' = outbox \cup {EventOf(r)}
      /\ EventOf(r).job = j /\ EventOf(r).version = b + 1
  BY DEF Commit, EventOf
<1>4. \A i \in Jobs : Len(versions[i]) \in Nat
  BY DEF TypeInv, TypeOK
<1>5. Grows
  <2>1. CASE versions' = versions
    BY <1>4, <2>1 DEF Grows
  <2>2. CASE Appended
    BY SMTT(40), <1>1, <1>4, <2>2 DEF Grows
  <2> QED
    BY <1>1, <2>1, <2>2
<1>6. ASSUME NEW s \in Requests PROVE SavingInv(s)'
  <2>1. req \in [Requests -> Request]
    BY DEF TypeInv, TypeOK
  <2>2. CASE s = r
    <3> DEFINE place == IF Opens(r) THEN "complete" ELSE "over"
    <3>1. req'[r] = [req[r] EXCEPT !.pc = place] /\ place \notin {"look", "commit"}
      BY <2>1 DEF Commit, GoTo
    <3>2. req'[r].job = req[r].job /\ req'[r].base = req[r].base /\ req'[r].pc = place
      BY <2>1, <3>1 DEF Request
    <3> QED
      BY <1>5, <2>2, <3>1, <3>2, SavingKept DEF HistoryInv
  <2>3. CASE s # r
    <3>1. req'[s] = req[s]
      BY <2>1, <2>3 DEF Commit, GoTo
    <3> QED
      BY <1>5, <3>1, SavingKept DEF HistoryInv
  <2> QED
    BY <2>2, <2>3
<1>7. EventsDescribeVersions'
  <2> SUFFICES ASSUME NEW e \in outbox'
               PROVE  /\ e.version <= Len(versions'[e.job])
                      /\ versions'[e.job][e.version].active <=> e.type # "job.expired"
                      /\ e.version = 1 <=> e.type = "job.created"
    BY DEF EventsDescribeVersions
  <2>1. CASE e \in outbox
    <3>1. /\ e.version <= Len(versions[e.job])
          /\ versions[e.job][e.version].active <=> e.type # "job.expired"
          /\ e.version = 1 <=> e.type = "job.created"
      BY <2>1 DEF HistoryInv, EventsDescribeVersions
    <3>2. e.job \in Jobs /\ e.version \in Nat \ {0}
      BY <2>1 DEF TypeInv, TypeOK, Event
    <3>3. /\ Len(versions[e.job]) <= Len(versions'[e.job])
          /\ versions'[e.job][e.version] = versions[e.job][e.version]
      BY <1>4, <1>5, <3>1, <3>2 DEF Grows
    <3>4. Len(versions'[e.job]) \in Nat
      BY <3>2 DEF TypeInv, TypeOK
    <3> QED
      BY <1>4, <3>1, <3>2, <3>3, <3>4
  <2>2. CASE e = EventOf(r)
    BY <2>2, NewEventTrue
  <2> QED
    BY <1>3, <2>1, <2>2
<1>8. VersionsAnnounced'
  <2> SUFFICES ASSUME NEW i \in Jobs, NEW v \in 1..Len(versions'[i])
               PROVE  \E e \in outbox' : e.job = i /\ e.version = v
    BY DEF VersionsAnnounced
  <2>1. CASE v \in 1..Len(versions[i])
    BY <1>3, <2>1 DEF HistoryInv, VersionsAnnounced
  <2>2. CASE v \notin 1..Len(versions[i])
    <3>1. i = j /\ v = b + 1
      BY <1>1, <1>4, <2>2
    <3> QED
      BY <1>3, <3>1
  <2> QED
    BY <2>1, <2>2
<1>9. EachVersionIsAChange'
  <2>1. CASE versions' = versions
    BY <2>1 DEF HistoryInv, EachVersionIsAChange
  <2>2. CASE Appended
    <3> SUFFICES ASSUME NEW i \in Jobs
                 PROVE  /\ versions'[i] # <<>> => versions'[i][1].active
                        /\ \A v \in 2..Len(versions'[i]) :
                             LET new == versions'[i][v]
                                 old == versions'[i][v - 1]
                             IN IF new.active THEN new.text # old.text
                                ELSE old.active /\ new.text = old.text
      BY DEF EachVersionIsAChange
    <3>1. CASE i # j
      BY <2>2, <3>1 DEF HistoryInv, EachVersionIsAChange
    <3>2. CASE i = j
      <4>1. versions'[j][1].active
        <5>1. CASE n = 0
          BY <1>1, <1>2, <2>2, <5>1
        <5>2. CASE n > 0
          <6>1. versions[j] # <<>>
            BY <5>2
          <6>2. versions[j][1].active
            BY <1>1, <6>1 DEF HistoryInv, EachVersionIsAChange
          <6> QED
            BY <1>1, <2>2, <5>2, <6>2
        <5> QED
          BY <1>1, <5>1, <5>2
      <4>2. ASSUME NEW v \in 2..(n + 1)
            PROVE  LET new == versions'[j][v]
                       old == versions'[j][v - 1]
                   IN IF new.active THEN new.text # old.text
                      ELSE old.active /\ new.text = old.text
        <5>1. CASE v \in 2..n
          <6>1. versions'[j][v] = versions[j][v] /\ versions'[j][v - 1] = versions[j][v - 1]
            BY SMTT(40), <1>1, <2>2, <5>1
          <6> QED
            BY <1>1, <5>1, <6>1 DEF HistoryInv, EachVersionIsAChange
        <5>2. CASE v = n + 1
          <6>1. b = n /\ b > 0 /\ v - 1 = b
            BY <1>1, <2>2, <5>2
          <6>2. /\ versions'[j][v] = [text |-> text, active |-> Opens(r)]
                /\ versions'[j][v - 1] = versions[j][b]
            BY SMTT(40), <1>1, <2>2, <5>2, <6>1
          <6> QED
            BY <1>2, <6>1, <6>2
        <5> QED
          BY <1>1, <5>1, <5>2
      <4> QED
        BY <2>2, <3>2, <4>1, <4>2
    <3> QED
      BY <3>1, <3>2
  <2> QED
    BY <1>1, <2>1, <2>2
<1>10. CurrentIsNewest'
  <2> DEFINE v == b + 1
             flushed == Flushed(row[j], read, v, Opens(r))
  <2>1. row \in [Jobs -> JobRow] /\ read.current \in Nat /\ row[j].current = n
    BY <1>1 DEF TypeInv, TypeOK, Request, JobRow, HistoryInv, CurrentIsNewest
  <2>2. row' = [row EXCEPT ![j] = flushed]
    BY DEF Commit
  <2>3. read = NoRow => read.current = 0
    BY DEF NoRow
  <2>4. flushed.current = IF read = NoRow \/ v > read.current THEN v ELSE n
    BY <2>1 DEF Flushed
  <2> HIDE DEF flushed
  <2>5. flushed.current = Len(versions'[j])
    <3>1. CASE req[r].found /\ b < n /\ versions' = versions
      BY <1>1, <1>2, <2>1, <2>3, <2>4, <3>1
    <3>2. CASE Appended
      BY <1>1, <1>2, <2>1, <2>3, <2>4, <3>2
    <3> QED
      BY <1>1, <3>1, <3>2
  <2>6. \A i \in Jobs \ {j} : row'[i] = row[i] /\ versions'[i] = versions[i]
    BY <1>1, <2>1, <2>2
  <2>7. row'[j] = flushed
    BY <1>1, <2>1, <2>2
  <2> QED
    BY <2>5, <2>6, <2>7 DEF HistoryInv, CurrentIsNewest
<1> QED
  BY <1>6, <1>7, <1>8, <1>9, <1>10 DEF HistoryInv

LEMMA StepHistory == TypeInv /\ TypeInv' /\ HistoryInv /\ [Next]_vars => HistoryInv'
<1> SUFFICES ASSUME TypeInv, TypeInv', HistoryInv, [Next]_vars PROVE HistoryInv'
  OBVIOUS
<1>0. Imports \subseteq Requests
  BY DEF Requests
<1>1. ASSUME NEW i \in Imports, Start(i) PROVE HistoryInv'
  BY <1>0, <1>1, QuietMove DEF Start, tables
<1>2. ASSUME NEW i \in Imports, Fetch(i) PROVE HistoryInv'
  <2>1. PICK t \in Texts : req' = [req EXCEPT ![i].pc = "snapshot", ![i].text = t]
    BY <1>2 DEF Fetch
  <2> DEFINE q == [req[i] EXCEPT !.pc = "snapshot", !.text = t]
  <2>2. req' = [req EXCEPT ![i] = q] /\ req'[i] = q /\ UNCHANGED tables
    BY <1>0, <1>2, <2>1 DEF Fetch, TypeInv, TypeOK
  <2>3. q.job = req[i].job /\ q.base = req[i].base /\ q.pc = "snapshot"
    BY <1>0 DEF TypeInv, TypeOK, Request
  <2>4. Grows
    BY <2>2 DEF Grows, tables, TypeInv, TypeOK
  <2> HIDE DEF q
  <2>5. SavingInv(i)'
    BY <1>0, <2>2, <2>3, <2>4, SavingKept DEF HistoryInv
  <2> QED
    BY <1>0, <2>2, <2>5, QuietStep
<1>3. ASSUME NEW i \in Imports, FailFetch(i) PROVE HistoryInv'
  BY <1>0, <1>3, QuietMove DEF FailFetch, tables
<1>4. ASSUME NEW i \in Imports, Snapshot(i) PROVE HistoryInv'
  BY <1>0, <1>4, QuietMove DEF Snapshot, tables
<1>5. ASSUME NEW i \in Imports, Decide(i) PROVE HistoryInv'
  BY <1>5, DecideHistory
<1>6. ASSUME NEW i \in Imports, Complete(i) PROVE HistoryInv'
  BY <1>0, <1>6, QuietMove DEF Complete, tables
<1>7. ASSUME NEW k \in Closings, Close(k) PROVE HistoryInv'
  BY <1>7, CloseHistory
<1>8. ASSUME NEW r \in Requests, Look(r) PROVE HistoryInv'
  BY <1>8, LookHistory
<1>9. ASSUME NEW r \in Requests, Commit(r) PROVE HistoryInv'
  BY <1>9, CommitHistory
<1>10. ASSUME NEW r \in Requests, RollBack(r) PROVE HistoryInv'
  BY <1>10, QuietMove DEF RollBack, tables
<1>11. ASSUME NEW r \in Requests, Break(r) PROVE HistoryInv'
  BY <1>11, QuietMove DEF Break, tables
<1>12. CASE UNCHANGED vars
  BY <1>12 DEF vars, HistoryInv, SavingInv, EventsDescribeVersions, VersionsAnnounced,
               EachVersionIsAChange, CurrentIsNewest
<1> QED
  BY <1>1, <1>2, <1>3, <1>4, <1>5, <1>6, <1>7, <1>8, <1>9, <1>10, <1>11, <1>12 DEF Next

LEMMA InitHistory == Init => HistoryInv
<1> SUFFICES ASSUME Init PROVE HistoryInv
  OBVIOUS
<1>1. PICK target \in [Requests -> Jobs] :
        req = [r \in Requests |-> [pc |-> "new", job |-> target[r], text |-> NoText,
                                  base |-> 0, found |-> FALSE, read |-> NoRow]]
  BY DEF Init
<1>2. \A j \in Jobs : versions[j] = <<>> /\ row[j].current = 0
  BY DEF Init, NoRow
<1>3. \A r \in Requests : SavingInv(r)
  BY <1>1, <1>2 DEF SavingInv
<1>4. EventsDescribeVersions
  BY DEF Init, EventsDescribeVersions
<1>5. VersionsAnnounced /\ EachVersionIsAChange /\ CurrentIsNewest
  BY <1>2 DEF VersionsAnnounced, EachVersionIsAChange, CurrentIsNewest
<1> QED
  BY <1>3, <1>4, <1>5 DEF HistoryInv

\* However imports and closings of a job overlap and break off: every event is
\* true of the version it names, every version is announced and is a change, and
\* the job row points at the newest.
THEOREM HistorySound == Spec => []HistoryIsTrue
<1>1. Init => TypeInv /\ HistoryInv
  BY InitTypes, InitHistory
<1>2. (TypeInv /\ HistoryInv) /\ [Next]_vars => (TypeInv /\ HistoryInv)'
  BY StepTypes, StepHistory
<1>3. TypeInv /\ HistoryInv => HistoryIsTrue
  BY DEF HistoryInv, HistoryIsTrue
<1> QED
  BY <1>1, <1>2, <1>3, PTL DEF Spec

-----------------------------------------------------------------------------
(* What the runs report *)

EventsOf(i) == {e \in outbox : e.id = i}

\* The request's text is stored open, under an event of its own.
StoredOpen(i) ==
  \E e \in EventsOf(i) : versions[req[i].job][e.version] = [text |-> snapshots[i], active |-> TRUE]

\* Some version of the job has the request's text.
KnownText(i) ==
  \E v \in 1..Len(versions[req[i].job]) : versions[req[i].job][v].text = snapshots[i]

\* Where a request stands says what it has left behind.
ProgressInv(i) ==
  LET place == req[i].pc IN
  /\ \A e \in EventsOf(i) : e.job = req[i].job
  /\ place \notin {"complete", "over"} => EventsOf(i) = {}
  /\ place # "over" => runs[i] = IF place = "new" THEN "none" ELSE "queued"
  /\ place \in {"new", "fetch", "snapshot"} => snapshots[i] = NoText
  /\ place \in {"decide", "same", "look", "commit", "complete"} => snapshots[i] = req[i].text
  /\ place = "same" => KnownText(i)
  /\ place = "complete" => StoredOpen(i)

\* RunsTellTheTruth of one import.
ReportInv(i) ==
  /\ runs[i] = "success" => StoredOpen(i)
  /\ runs[i] = "unchanged" => EventsOf(i) = {} /\ KnownText(i)
  /\ runs[i] = "failed" => EventsOf(i) = {} /\ snapshots[i] = NoText

TruthInv == \A i \in Imports : ProgressInv(i) /\ ReportInv(i)

\* What was said of the histories stays true while they grow.
LEMMA SaidStays ==
  ASSUME TypeInv, TypeInv', HistoryInv, Grows, NEW i \in Imports, ProgressInv(i),
         EventsOf(i)' = EventsOf(i), snapshots'[i] = snapshots[i], req'[i].job = req[i].job
  PROVE  /\ StoredOpen(i) => StoredOpen(i)'
         /\ KnownText(i) => KnownText(i)'
<1> DEFINE j == req[i].job
<1>0. i \in Requests
  BY DEF Requests
<1>1. j \in Jobs /\ Len(versions[j]) \in Nat /\ Len(versions'[j]) \in Nat
  BY <1>0 DEF TypeInv, TypeOK, Request
<1>2. \A n \in 1..Len(versions[j]) : n \in 1..Len(versions'[j]) /\ versions'[j][n] = versions[j][n]
  BY <1>1 DEF Grows
<1>3. KnownText(i) => KnownText(i)'
  BY <1>2 DEF KnownText
<1>4. \A e \in EventsOf(i) : e.version \in 1..Len(versions[j])
  <2> SUFFICES ASSUME NEW e \in EventsOf(i) PROVE e.version \in 1..Len(versions[j])
    OBVIOUS
  <2>1. e \in outbox /\ e.job = j /\ e.version \in Nat \ {0}
    BY DEF EventsOf, ProgressInv, TypeInv, TypeOK, Event
  <2> QED
    BY <1>1, <2>1 DEF HistoryInv, EventsDescribeVersions
<1>5. StoredOpen(i) => StoredOpen(i)'
  BY <1>2, <1>4 DEF StoredOpen
<1> QED
  BY <1>3, <1>5

\* A request that is not moved keeps what is known of it.
LEMMA TruthKept ==
  ASSUME TypeInv, TypeInv', HistoryInv, Grows, NEW i \in Imports, ProgressInv(i), ReportInv(i),
         req'[i] = req[i], runs'[i] = runs[i], snapshots'[i] = snapshots[i],
         EventsOf(i)' = EventsOf(i)
  PROVE  ProgressInv(i)' /\ ReportInv(i)'
<1>1. /\ StoredOpen(i) => StoredOpen(i)'
      /\ KnownText(i) => KnownText(i)'
  BY SaidStays
<1>2. ProgressInv(i)'
  BY <1>1 DEF ProgressInv
<1>3. ReportInv(i)'
  BY <1>1 DEF ReportInv
<1> QED
  BY <1>2, <1>3

\* A step that leaves the tables alone needs only its own import examined.
LEMMA QuietTruth ==
  ASSUME TypeInv, TypeInv', HistoryInv, TruthInv, UNCHANGED tables, NEW r \in Requests,
         \A i \in Imports \ {r} : req'[i] = req[i] /\ runs'[i] = runs[i] /\ snapshots'[i] = snapshots[i],
         r \in Imports => ProgressInv(r)' /\ ReportInv(r)'
  PROVE  TruthInv'
<1>1. Grows /\ outbox' = outbox
  BY DEF Grows, tables, TypeInv, TypeOK
<1>2. ASSUME NEW i \in Imports \ {r} PROVE ProgressInv(i)' /\ ReportInv(i)'
  <2>1. EventsOf(i)' = EventsOf(i)
    BY <1>1 DEF EventsOf
  <2> QED
    BY <1>1, <2>1, TruthKept DEF TruthInv
<1> QED
  BY <1>2 DEF TruthInv

\* An import that breaks off reports what it did.
LEMMA OverTruth ==
  ASSUME TypeInv, TypeInv', HistoryInv, TruthInv, UNCHANGED <<tables, records>>,
         NEW r \in Requests, GoTo(r, "over")
  PROVE  TruthInv'
<1>1. req' = [req EXCEPT ![r].pc = "over"] /\ UNCHANGED <<versions, outbox, runs, snapshots>>
  BY DEF GoTo, tables, records
<1>2. ASSUME r \in Imports PROVE ProgressInv(r)' /\ ReportInv(r)'
  <2>1. req'[r].pc = "over" /\ req'[r].job = req[r].job
    BY <1>1 DEF TypeInv, TypeOK, Request
  <2>2. ProgressInv(r)'
    BY <1>1, <1>2, <2>1 DEF TruthInv, ProgressInv, EventsOf
  <2>3. ReportInv(r)'
    BY <1>1, <1>2, <2>1 DEF TruthInv, ReportInv, StoredOpen, KnownText, EventsOf
  <2> QED
    BY <2>2, <2>3
<1>3. \A i \in Imports \ {r} : req'[i] = req[i]
  BY <1>1 DEF TypeInv, TypeOK, Requests
<1> QED
  BY <1>1, <1>2, <1>3, QuietTruth

\* What a move to another place leaves as it was.
LEMMA Moves ==
  ASSUME TypeInv, NEW r \in Requests, NEW place, GoTo(r, place)
  PROVE  /\ req'[r].pc = place /\ req'[r].job = req[r].job /\ req'[r].text = req[r].text
         /\ \A k \in Requests \ {r} : req'[k] = req[k]
  BY DEF GoTo, TypeInv, TypeOK, Request

\* An import whose tables stand still may judge its truth by its own fields.
LEMMA OwnTruth ==
  ASSUME UNCHANGED tables, NEW i \in Imports, req'[i].job = req[i].job
  PROVE  /\ EventsOf(i)' = EventsOf(i)
         /\ snapshots'[i] = snapshots[i] =>
              (StoredOpen(i)' <=> StoredOpen(i)) /\ (KnownText(i)' <=> KnownText(i))
  BY DEF tables, EventsOf, StoredOpen, KnownText

LEMMA ImportMoves ==
  ASSUME TypeInv, NEW i \in Imports,
         Start(i) \/ Fetch(i) \/ FailFetch(i) \/ Snapshot(i) \/ Decide(i) \/ Complete(i)
  PROVE  /\ i \in Requests /\ UNCHANGED tables /\ req'[i].job = req[i].job
         /\ \A k \in Imports \ {i} : req'[k] = req[k] /\ runs'[k] = runs[k] /\ snapshots'[k] = snapshots[k]
<1>1. i \in Requests
  BY DEF Requests
<1>2. Imports \subseteq Requests
  BY DEF Requests
<1>3. CASE Start(i)
  <2>1. GoTo(i, "fetch") /\ UNCHANGED tables /\ snapshots' = snapshots
        /\ runs' = [runs EXCEPT ![i] = "queued"]
    BY <1>3 DEF Start
  <2> QED
    BY <1>1, <1>2, <2>1, Moves DEF TypeInv, TypeOK
<1>4. CASE Fetch(i)
  <2>1. UNCHANGED <<tables, runs, snapshots>>
    BY <1>4 DEF Fetch, records
  <2>2. req'[i].job = req[i].job /\ \A k \in Requests \ {i} : req'[k] = req[k]
    BY ZenonT(40), <1>1, <1>4 DEF Fetch, TypeInv, TypeOK, Request
  <2> QED
    BY <1>1, <1>2, <2>1, <2>2
<1>5. CASE FailFetch(i)
  <2>1. GoTo(i, "over") /\ UNCHANGED tables /\ snapshots' = snapshots
        /\ runs' = [runs EXCEPT ![i] = "failed"]
    BY <1>5 DEF FailFetch
  <2> QED
    BY <1>1, <1>2, <2>1, Moves DEF TypeInv, TypeOK
<1>6. CASE Snapshot(i)
  <2>1. GoTo(i, "decide") /\ UNCHANGED tables /\ runs' = runs
        /\ snapshots' = [snapshots EXCEPT ![i] = req[i].text]
    BY <1>6 DEF Snapshot
  <2> QED
    BY <1>1, <1>2, <2>1, Moves DEF TypeInv, TypeOK
<1>7. CASE Decide(i)
  <2>1. UNCHANGED <<tables, runs, snapshots>>
    BY <1>7 DEF Decide, records
  <2>2. CASE GoTo(i, "same")
    BY <1>1, <1>2, <2>1, <2>2, Moves
  <2>3. CASE ~GoTo(i, "same")
    <3>1. req'[i].job = req[i].job /\ \A k \in Requests \ {i} : req'[k] = req[k]
      BY <1>1, <1>7, <2>3 DEF Decide, TypeInv, TypeOK, Request
    <3> QED
      BY <1>1, <1>2, <2>1, <3>1
  <2> QED
    BY <2>2, <2>3
<1>8. CASE Complete(i)
  <2>1. GoTo(i, "over") /\ UNCHANGED tables /\ snapshots' = snapshots
        /\ \E status : runs' = [runs EXCEPT ![i] = status]
    BY <1>8 DEF Complete
  <2> QED
    BY <1>1, <1>2, <2>1, Moves DEF TypeInv, TypeOK
<1> QED
  BY <1>3, <1>4, <1>5, <1>6, <1>7, <1>8

LEMMA DecideTruth ==
  ASSUME TypeInv, NEW i \in Imports, Decide(i), ProgressInv(i), ReportInv(i)
  PROVE  ProgressInv(i)' /\ ReportInv(i)'
<1> DEFINE j == req[i].job
<1>1. /\ i \in Requests /\ UNCHANGED tables /\ req'[i].job = j /\ EventsOf(i)' = EventsOf(i)
      /\ snapshots'[i] = snapshots[i] =>
           (StoredOpen(i)' <=> StoredOpen(i)) /\ (KnownText(i)' <=> KnownText(i))
  BY ImportMoves, OwnTruth
<1>2. req[i].pc = "decide" /\ UNCHANGED <<runs, snapshots>>
  BY DEF Decide, records
<1>3. snapshots[i] = req[i].text /\ EventsOf(i) = {} /\ runs[i] = "queued"
  BY <1>2 DEF ProgressInv
<1>4. j \in Jobs /\ versions[j] \in Seq(Version)
  BY <1>1 DEF TypeInv, TypeOK, Request
<1>5. CASE versions[j] # <<>> /\ Latest(j).text = req[i].text
  <2>1. GoTo(i, "same")
    BY <1>5 DEF Decide
  <2>2. req'[i].pc = "same" /\ req'[i].text = req[i].text
    BY <1>1, <2>1, Moves
  <2>3. Len(versions[j]) \in 1..Len(versions[j])
    BY <1>4, <1>5
  <2>4. KnownText(i)
    BY <1>3, <1>5, <2>3 DEF KnownText, Latest
  <2> QED
    BY <1>1, <1>2, <1>3, <2>2, <2>4 DEF ProgressInv, ReportInv
<1>6. CASE ~(versions[j] # <<>> /\ Latest(j).text = req[i].text)
  <2>1. req' = [req EXCEPT ![i].pc = "look", ![i].base = Len(versions[j])]
    BY <1>6 DEF Decide
  <2>2. req'[i].pc = "look" /\ req'[i].text = req[i].text
    BY <1>1, <2>1 DEF TypeInv, TypeOK, Request
  <2> QED
    BY <1>1, <1>2, <1>3, <2>2 DEF ProgressInv, ReportInv
<1> QED
  BY <1>5, <1>6

LEMMA OwnStep ==
  ASSUME TypeInv, NEW i \in Imports, ProgressInv(i), ReportInv(i),
         Start(i) \/ Fetch(i) \/ FailFetch(i) \/ Snapshot(i) \/ Decide(i) \/ Complete(i)
  PROVE  ProgressInv(i)' /\ ReportInv(i)'
<1>1. /\ i \in Requests /\ UNCHANGED tables /\ req'[i].job = req[i].job
      /\ \A k \in Imports \ {i} : req'[k] = req[k] /\ runs'[k] = runs[k] /\ snapshots'[k] = snapshots[k]
  BY ImportMoves
<1>3. /\ EventsOf(i)' = EventsOf(i)
      /\ snapshots'[i] = snapshots[i] =>
           (StoredOpen(i)' <=> StoredOpen(i)) /\ (KnownText(i)' <=> KnownText(i))
  BY <1>1, OwnTruth
<1>a. i \in DOMAIN runs /\ i \in DOMAIN snapshots
  BY DEF TypeInv, TypeOK
<1>4. CASE Start(i)
  <2>1. req[i].pc = "new" /\ GoTo(i, "fetch") /\ runs'[i] = "queued" /\ snapshots' = snapshots
    BY <1>4, <1>a DEF Start
  <2>2. req'[i].pc = "fetch"
    BY <1>1, <2>1, Moves
  <2> QED
    BY <1>3, <2>1, <2>2 DEF ProgressInv, ReportInv
<1>5. CASE Fetch(i)
  <2>1. req[i].pc = "fetch" /\ UNCHANGED <<runs, snapshots>>
    BY <1>5 DEF Fetch, records
  <2>2. req'[i].pc = "snapshot"
    <3>1. \E t \in Texts : req' = [req EXCEPT ![i].pc = "snapshot", ![i].text = t]
      BY <1>5 DEF Fetch
    <3> QED
      BY <1>1, <3>1 DEF TypeInv, TypeOK, Request
  <2> QED
    BY <1>3, <2>1, <2>2 DEF ProgressInv, ReportInv
<1>6. CASE FailFetch(i)
  <2>1. req[i].pc = "fetch" /\ GoTo(i, "over") /\ runs'[i] = "failed" /\ snapshots' = snapshots
    BY <1>6, <1>a DEF FailFetch
  <2>2. req'[i].pc = "over"
    BY <1>1, <2>1, Moves
  <2> QED
    BY <1>3, <2>1, <2>2 DEF ProgressInv, ReportInv
<1>7. CASE Snapshot(i)
  <2>1. req[i].pc = "snapshot" /\ GoTo(i, "decide") /\ runs' = runs /\ snapshots'[i] = req[i].text
    BY <1>7, <1>a DEF Snapshot
  <2>2. req'[i].pc = "decide" /\ req'[i].text = req[i].text
    BY <1>1, <2>1, Moves
  <2> QED
    BY <1>3, <2>1, <2>2 DEF ProgressInv, ReportInv
<1>8. CASE Decide(i)
  BY <1>8, DecideTruth
<1>9. CASE Complete(i)
  <2>1. /\ req[i].pc \in {"complete", "same"} /\ GoTo(i, "over") /\ snapshots' = snapshots
        /\ runs'[i] = IF req[i].pc = "same" THEN "unchanged" ELSE "success"
    BY <1>9, <1>a DEF Complete
  <2>2. req'[i].pc = "over"
    BY <1>1, <2>1, Moves
  <2>3. CASE req[i].pc = "same"
    <3>1. EventsOf(i) = {} /\ KnownText(i) /\ runs'[i] = "unchanged"
      BY <2>1, <2>3 DEF ProgressInv
    <3> QED
      BY <1>3, <2>1, <2>2, <3>1 DEF ProgressInv, ReportInv
  <2>4. CASE req[i].pc = "complete"
    <3>1. StoredOpen(i) /\ runs'[i] = "success"
      BY <2>1, <2>4 DEF ProgressInv
    <3> QED
      BY <1>1, <1>3, <2>1, <2>2, <3>1 DEF ProgressInv, ReportInv
  <2> QED
    BY <2>1, <2>3, <2>4
<1> QED
  BY <1>4, <1>5, <1>6, <1>7, <1>8, <1>9

LEMMA ImportTruth ==
  ASSUME TypeInv, TypeInv', HistoryInv, TruthInv, NEW i \in Imports,
         Start(i) \/ Fetch(i) \/ FailFetch(i) \/ Snapshot(i) \/ Decide(i) \/ Complete(i)
  PROVE  TruthInv'
<1>1. /\ i \in Requests /\ UNCHANGED tables
      /\ \A k \in Imports \ {i} : req'[k] = req[k] /\ runs'[k] = runs[k] /\ snapshots'[k] = snapshots[k]
  BY ImportMoves
<1>2. ProgressInv(i)' /\ ReportInv(i)'
  BY OwnStep DEF TruthInv
<1> QED
  BY <1>1, <1>2, QuietTruth

LEMMA CommitTruth ==
  ASSUME TypeInv, TypeInv', HistoryInv, HistoryInv', TruthInv, NEW r \in Requests, Commit(r)
  PROVE  TruthInv'
<1> DEFINE j == req[r].job
           b == req[r].base
<1>1. /\ j \in Jobs /\ b \in Nat
      /\ \/ req[r].found /\ versions' = versions
         \/ /\ b = Len(versions[j]) /\ versions'[j][b + 1].text = req[r].text
            /\ Len(versions'[j]) = Len(versions[j]) + 1
            /\ \A m \in 1..Len(versions[j]) : versions'[j][m] = versions[j][m]
            /\ \A i \in Jobs \ {j} : versions'[i] = versions[i]
  <2>1. /\ j \in Jobs /\ b \in Nat
        /\ \/ req[r].found /\ versions' = versions
           \/ /\ b = Len(versions[j])
              /\ versions'[j][b + 1] = [text |-> req[r].text, active |-> Opens(r)]
              /\ Len(versions'[j]) = Len(versions[j]) + 1
              /\ \A m \in 1..Len(versions[j]) : versions'[j][m] = versions[j][m]
              /\ \A i \in Jobs \ {j} : versions'[i] = versions[i]
    <3> HIDE DEF j, b
    <3> QED
      BY CommitEffect DEF j, b
  <2> HIDE DEF j, b
  <2> QED
    BY <2>1
<1>2. Grows
  <2> SUFFICES ASSUME NEW k \in Jobs
               PROVE  /\ Len(versions[k]) <= Len(versions'[k])
                      /\ \A n \in 1..Len(versions[k]) : versions'[k][n] = versions[k][n]
    BY DEF Grows
  <2>1. Len(versions[k]) \in Nat
    BY DEF TypeInv, TypeOK
  <2> HIDE DEF j, b
  <2> QED
    BY <1>1, <2>1
<1>3. req[r].pc = "commit" /\ UNCHANGED <<runs, snapshots>> /\ outbox' = outbox \cup {EventOf(r)}
  BY DEF Commit, records
<1>4. EventOf(r).id = r /\ EventOf(r).job = j /\ EventOf(r).version = b + 1
  BY DEF EventOf
<1>5. ASSUME NEW i \in Imports \ {r} PROVE ProgressInv(i)' /\ ReportInv(i)'
  <2>1. EventsOf(i)' = EventsOf(i)
    BY <1>3, <1>4 DEF EventsOf
  <2>2. req'[i] = req[i]
    BY <1>5 DEF Commit, GoTo, TypeInv, TypeOK, Requests
  <2> QED
    BY <1>2, <1>3, <2>1, <2>2, TruthKept DEF TruthInv
<1>6. ASSUME r \in Imports PROVE ProgressInv(r)' /\ ReportInv(r)'
  <2>1. ProgressInv(r) /\ EventsOf(r) = {} /\ snapshots[r] = req[r].text /\ runs[r] = "queued"
    BY <1>3, <1>6 DEF TruthInv, ProgressInv
  <2>2. req'[r].pc = "complete" /\ req'[r].job = j /\ req'[r].text = req[r].text
    BY <1>6 DEF Commit, GoTo, Opens, TypeInv, TypeOK, Request
  <2>3. EventsOf(r)' = {EventOf(r)}
    BY <1>3, <1>4, <2>1 DEF EventsOf
  <2>4. versions'[j][b + 1].text = req[r].text
    BY <1>1, <1>3 DEF HistoryInv, SavingInv
  <2>5. EventOf(r).type # "job.expired"
    BY <1>6 DEF EventOf, TypeOf, Opens
  <2>6. b + 1 <= Len(versions'[j]) /\ versions'[j][b + 1].active = TRUE
    BY <1>3, <1>4, <2>5 DEF HistoryInv, EventsDescribeVersions
  <2>7. versions'[j][b + 1] \in Version
    <3>1. versions'[j] \in Seq(Version) /\ b + 1 \in 1..Len(versions'[j])
      BY <1>1, <2>6 DEF TypeInv, TypeOK
    <3> HIDE DEF j, b
    <3> QED
      BY <3>1
  <2> HIDE DEF j, b
  <2>8. versions'[j][b + 1] = [text |-> snapshots[r], active |-> TRUE]
    BY <2>1, <2>4, <2>6, <2>7 DEF Version
  <2>9. StoredOpen(r)'
    BY <1>3, <1>4, <2>2, <2>3, <2>8 DEF StoredOpen
  <2> QED
    BY <1>3, <1>4, <2>1, <2>2, <2>3, <2>9 DEF ProgressInv, ReportInv
<1> QED
  BY <1>5, <1>6 DEF TruthInv

LEMMA StepTruth ==
  (TypeInv /\ TypeInv' /\ HistoryInv /\ HistoryInv' /\ TruthInv) /\ [Next]_vars => TruthInv'
<1> SUFFICES ASSUME TypeInv, TypeInv', HistoryInv, HistoryInv', TruthInv, [Next]_vars PROVE TruthInv'
  OBVIOUS
<1>1. ASSUME NEW i \in Imports,
             Start(i) \/ Fetch(i) \/ FailFetch(i) \/ Snapshot(i) \/ Decide(i) \/ Complete(i)
      PROVE  TruthInv'
  BY <1>1, ImportTruth
<1>2. ASSUME NEW r \in Requests, RollBack(r) \/ Break(r) PROVE TruthInv'
  BY <1>2, OverTruth DEF RollBack, Break
<1>3. ASSUME NEW k \in Closings, Close(k) PROVE TruthInv'
  <2>1. k \in Requests /\ k \notin Imports
    BY RequestsAssumption DEF Requests
  <2>2. UNCHANGED <<tables, records>> /\ \A i \in Imports : req'[i] = req[i]
    BY <1>3, <2>1 DEF Close, GoTo, TypeInv, TypeOK, Requests
  <2> QED
    BY <2>1, <2>2, QuietTruth DEF records
<1>4. ASSUME NEW r \in Requests, Look(r) PROVE TruthInv'
  <2>1. CASE GoTo(r, "over")
    BY <1>4, <2>1, OverTruth DEF Look
  <2>2. CASE ~GoTo(r, "over")
    <3>1. /\ UNCHANGED tables /\ UNCHANGED <<outbox, versions, runs, snapshots>>
          /\ req[r].pc = "look"
          /\ \A i \in Imports \ {r} : req'[i] = req[i]
      BY <1>4, <2>2 DEF Look, tables, records, TypeInv, TypeOK, Requests
    <3>2. req'[r].pc = "commit" /\ req'[r].job = req[r].job /\ req'[r].text = req[r].text
      BY <1>4, <2>2 DEF Look, TypeInv, TypeOK, Request
    <3>3. ASSUME r \in Imports PROVE ProgressInv(r)' /\ ReportInv(r)'
      BY <3>1, <3>2, <3>3 DEF TruthInv, ProgressInv, ReportInv, EventsOf, StoredOpen, KnownText
    <3> QED
      BY <3>1, <3>3, QuietTruth
  <2> QED
    BY <2>1, <2>2
<1>5. ASSUME NEW r \in Requests, Commit(r) PROVE TruthInv'
  BY <1>5, CommitTruth
<1>6. CASE UNCHANGED vars
  BY <1>6 DEF vars, TruthInv, ProgressInv, ReportInv, EventsOf, StoredOpen, KnownText
<1> QED
  BY <1>1, <1>2, <1>3, <1>4, <1>5, <1>6 DEF Next

\* However imports overlap with each other and with closings, and wherever one
\* breaks off: a run that reports success stored its text open under its own
\* event, one that reports no change left nothing and its text is known, and one
\* that failed left nothing behind.
THEOREM ReportsSound == Spec => []RunsTellTheTruth
<1>1. Init => TypeInv /\ HistoryInv /\ TruthInv
  <2>1. Init => TruthInv
    <3> SUFFICES ASSUME Init PROVE TruthInv
      OBVIOUS
    <3>1. \A r \in Requests : req[r].pc = "new"
      BY DEF Init
    <3>2. outbox = {} /\ \A i \in Imports : i \in Requests /\ runs[i] = "none" /\ snapshots[i] = NoText
      BY DEF Init, Requests
    <3> QED
      BY <3>1, <3>2 DEF TruthInv, ProgressInv, ReportInv, EventsOf
  <2> QED
    BY <2>1, InitTypes, InitHistory
<1>2. (TypeInv /\ HistoryInv /\ TruthInv) /\ [Next]_vars => (TypeInv /\ HistoryInv /\ TruthInv)'
  BY StepTypes, StepHistory, StepTruth
<1>3. TruthInv => RunsTellTheTruth
  BY DEF TruthInv, ReportInv, RunsTellTheTruth, StoredOpen, KnownText, EventsOf
<1> QED
  BY <1>1, <1>2, <1>3, PTL DEF Spec
=============================================================================
