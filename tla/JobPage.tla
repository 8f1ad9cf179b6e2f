------------------------------ MODULE JobPage ------------------------------
(***************************************************************************)
(* A browser tab on one job of a candidate's list (apps/web: JobDetail,    *)
(* ExplanationPanel, usePolling, client) together with the service it      *)
(* talks to and the candidate's data.  The ranking on the page is always   *)
(* the newest one, by polling; the explanation is asked for the revision   *)
(* in the link, or without one for the revision on the page.  Another tab  *)
(* may ask for explanations too.  The job is in every revision.            *)
(***************************************************************************)
EXTENDS Explanations

CONSTANT Reader    \* the candidate whose list is read

ASSUME ReaderAssumption == Reader \in Candidates

VARIABLE page

vars == <<dataVars, request, page>>

NoProse == [revision |-> 0, state |-> "none"]
Closed == [open |-> FALSE, link |-> 0, data |-> 0, polling |-> FALSE, gets |-> {},
           prose |-> NoProse, error |-> FALSE, overtaken |-> FALSE]

SiteInit ==
  /\ Init
  /\ request = [q \in Requests |-> NoRequest]
  /\ page = Closed

\* revision ?? entry.revision
Target == IF page.link # 0 THEN page.link ELSE page.data
Mounted == page.data # 0
\* Requests of the mounted panel that it has no answer to.
InFlight == {q \in Requests : request[q].shown /\ request[q].at \in {"sent", "generating", "answered"}}

\* The page of a job: from the list, with the revision it showed, or by a bare URL.
Open ==
  /\ ~page.open /\ Resolves(Reader)
  /\ \E n \in Revisions(Reader) \union {0} :
       page' = [Closed EXCEPT !.open = TRUE, !.polling = TRUE, !.link = n]
  /\ UNCHANGED dataAndRequests

\* Answers that arrive after the page is gone change nothing.
Close ==
  /\ page.open
  /\ page' = Closed
  /\ request' = [q \in Requests |-> IF request[q].at = "answered" THEN Over
                                    ELSE [request[q] EXCEPT !.shown = FALSE]]
  /\ UNCHANGED dataVars

\* latest: what was newest at some moment since the last answer; what the link
\* names was published before the page was opened.
Newest == {n \in Revisions(Reader) : n >= page.data /\ n >= page.link}
\* RecommendationReader: nothing published yet is NotFound.
Unread == ~Resolves(Reader) \/ Revisions(Reader) = {}

\* The panel's effect runs when it is mounted or its target changes.
Poll ==
  /\ page.open /\ page.polling /\ Resolves(Reader)
  /\ \E n \in Newest :
       LET target == IF page.link # 0 THEN page.link ELSE n IN
       page' = [page EXCEPT !.data = n,
                  !.gets = IF Mounted /\ target = Target THEN @ ELSE @ \union {target}]
  /\ UNCHANGED dataAndRequests

\* A permanent error (403, 404) ends the polling; a retryable one changes
\* nothing on the page, and neither does any error once there are data.
PollStops ==
  /\ page.open /\ page.polling /\ Unread
  /\ page' = [page EXCEPT !.polling = FALSE]
  /\ UNCHANGED dataAndRequests

\* refresh: the retry button, when there is nothing to show.
Refresh ==
  /\ page.open /\ ~page.polling /\ ~Mounted
  /\ page' = [page EXCEPT !.polling = TRUE]
  /\ UNCHANGED dataAndRequests

\* explanation_status
Status(c, n) ==
  IF ~Resolves(c) THEN "error"
  ELSE IF Cached(c, n) # {} THEN StateOf(c, n)
  ELSE IF Entry(c, n) # {} THEN "pending" ELSE "error"

\* A mutant of GetDropped: the cleaned-up effect shows its answer all the same.
GetDroppedNot ==
  /\ \E n \in page.gets \ {Target} :
       page' = [page EXCEPT !.gets = @ \ {n}, !.prose = [revision |-> n, state |-> "ready"]]
  /\ UNCHANGED dataAndRequests

\* An answer for an earlier target is dropped: its effect was cleaned up.
GetDropped ==
  /\ \E n \in page.gets \ {Target} : page' = [page EXCEPT !.gets = @ \ {n}]
  /\ UNCHANGED dataAndRequests

GetAnswered ==
  LET n == Target
      status == Status(Reader, n)
      shown == [page EXCEPT !.gets = @ \ {n}, !.prose = [revision |-> n, state |-> status],
                            !.overtaken = FALSE]
  IN /\ n \in page.gets
     /\ \/ /\ status \in {"ready", "unavailable"}
           /\ page' = shown
           /\ UNCHANGED request
        \/ /\ status = "pending"
           /\ page' = [shown EXCEPT !.error = FALSE]
           /\ \E q \in Requests : Send(q, Reader, n, TRUE)
        \/ /\ page' = [page EXCEPT !.gets = @ \ {n}, !.error = TRUE]
           /\ UNCHANGED request
     /\ UNCHANGED dataVars

WithProse(q) ==
  [page EXCEPT !.prose = [revision |-> request[q].revision, state |-> request[q].answer],
               !.overtaken = request[q].revision # Target]

\* A mutant of AfterPost: any answer is taken for an explanation.
AfterPostUnchecked(q) == WithProse(q)

\* A mutant of AfterPost: an error leaves the page as it is.
AfterPostSilent(q) == IF request[q].answer = "error" THEN page ELSE WithProse(q)

\* generate's answer is shown whatever the target is by then.
AfterPost(q) == IF request[q].answer = "error" THEN [page EXCEPT !.error = TRUE] ELSE WithProse(q)

PostAnswered(q) ==
  /\ request[q].at = "answered"
  /\ request' = [request EXCEPT ![q] = Over]
  /\ page' = AfterPost(q)
  /\ UNCHANGED dataVars

\* The retry button, offered when nothing could be shown.
Retry ==
  /\ Mounted /\ page.error /\ page.prose = NoProse
  /\ \E q \in Requests : Send(q, Reader, Target, TRUE)
  /\ page' = [page EXCEPT !.error = FALSE]
  /\ UNCHANGED dataVars

OtherTab ==
  /\ Resolves(Reader)
  /\ \E q \in Requests, n \in Revisions(Reader) : Send(q, Reader, n, FALSE)
  /\ UNCHANGED <<dataVars, page>>

Next ==
  \/ DataNext /\ UNCHANGED <<request, page>>
  \/ \E q \in Requests : (Ask(q) \/ Save(q) \/ SaveFails(q)) /\ UNCHANGED page
  \/ \E q \in Requests : PostAnswered(q)
  \/ Open \/ Close \/ Poll \/ PollStops \/ Refresh \/ GetDropped \/ GetAnswered \/ Retry \/ OtherTab

Spec == SiteInit /\ [][Next]_vars
-----------------------------------------------------------------------------
RequestState ==
  [at : {"idle", "sent", "generating", "answered", "closed"}, of : Candidates \union {"nobody"},
   revision : 0 .. MaxRevision, version : 0 .. MaxProfile, seen : {"none", "ready", "unavailable"},
   answer : {"none", "ready", "unavailable", "error"}, shown : BOOLEAN]
Prose == [revision : 0 .. MaxRevision, state : {"none", "pending", "ready", "unavailable"}]
PageState ==
  [open : BOOLEAN, link : 0 .. MaxRevision, data : 0 .. MaxRevision, polling : BOOLEAN,
   gets : SUBSET (1 .. MaxRevision), error : BOOLEAN, overtaken : BOOLEAN, prose : Prose]

\* The type invariant.
TypeOK == DataTypeOK /\ request \in [Requests -> RequestState] /\ page \in PageState

\* Expiry stops new work on a candidate (sessions.py:9-11): after it, only
\* uploads and explanations that were let in before, resumes accepted before,
\* and a match run that read the clock before still touch its data.
NothingStartsAfterExpiry ==
  [][\A c \in expired : Busy(c)' \subseteq Busy(c)]_vars

\* A cached explanation belongs to the ranking it stands beside
\* (db/app/explanations.py:3-6): it was written from the profile version its
\* revision ranks, however profiles and revisions moved on while the model wrote.
CachedBesideItsRanking ==
  \A c \in Candidates : Here(c) =>
    \A k \in Keys("explanations", c) : \A e \in Entry(c, k[1]) : k[2] = e[2]

\* A ready explanation gives way to "unavailable" only when two requests
\* overlap: the one that failed had looked before the other one was saved
\* (explanations/service.py:67-82).
ReadyLostOnlyToOverlap ==
  [][\A c \in Candidates : Here(c) /\ candidate'[c] = "here" =>
       \A k \in Keys("explanations", c) :
         k[3] = "ready" /\ k \notin Keys("explanations", c)' =>
           \E q \in Requests : /\ request[q].of = c /\ request[q].revision = k[1]
                               /\ request[q].at = "generating" /\ request[q].seen # "ready"]_vars

\* "still being generated" (ExplanationPanel.tsx:85-88) is true: a request of
\* this panel for that revision is unanswered, or the panel knows of an error.
PendingIsBeingWritten ==
  page.prose.state = "pending" =>
    page.error \/ \E q \in InFlight : request[q].revision = page.prose.revision

\* The text is of the ranking it stands beside, with the score and the skills
\* (explanations/router.py:5-6), with two exceptions.  A page opened by a link
\* keeps the text of the link's ranking while it shows the newest one, whatever
\* JobDetail.tsx:14-16 says (JobDetail.tsx:27,84).  On a page without one, the answer for the newer ranking
\* is still to come or failed, or an earlier request's late answer overtook it,
\* which `generate` does not guard against (ExplanationPanel.tsx:29-42).
ProseBesideItsRanking ==
  page.prose # NoProse /\ page.prose.revision # page.data =>
    \/ page.prose.revision = page.link /\ page.link < page.data
    \/ page.link = 0 /\ (page.data \in page.gets \/ page.error \/ page.overtaken)
=============================================================================
