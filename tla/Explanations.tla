---------------------------- MODULE Explanations ----------------------------
(***************************************************************************)
(* Explanations of one ranked job: the POST route, ExplanationService and  *)
(* its cache (modules/explanations, db/app/explanations.py), over the      *)
(* candidate's data.  A request reads everything it needs, waits for the   *)
(* language model, and saves; in between rankings are published, profiles  *)
(* change, the candidate may be purged and other requests for the same     *)
(* explanation run.  The reply of the model is valid or not.               *)
(***************************************************************************)
EXTENDS CandidateData

CONSTANT Requests    \* POST requests

VARIABLE request

dataAndRequests == <<dataVars, request>>

Asked(place, c, n, a, fromPage) ==
  [at |-> place, of |-> c, revision |-> n, version |-> 0, seen |-> "none", answer |-> a, shown |-> fromPage]
NoRequest == Asked("idle", "nobody", 0, "none", FALSE)
Over == Asked("closed", "nobody", 0, "none", FALSE)

\* get: the cached state of one explanation.
Cached(c, n) == {k \in Keys("explanations", c) : k[1] = n}
StateOf(c, n) == IF Cached(c, n) = {} THEN "none" ELSE (CHOOSE k \in Cached(c, n) : TRUE)[3]

\* _entry: the published revision, with the profile version it ranks.
Entry(c, n) == {k \in Keys("recommendation_revisions", c) : k[1] = n}

\* A browser asks; `fromPage` says whether the page that asked shows the answer.
Send(q, c, n, fromPage) ==
  /\ request[q].at = "idle"
  /\ request' = [request EXCEPT ![q] = Asked("sent", c, n, "none", fromPage)]

\* The answer goes to the page that asked, if it is still there.
Answered(q, a) ==
  IF request[q].shown THEN Asked("answered", request[q].of, request[q].revision, a, TRUE) ELSE Over

\* A mutant of RankedWith: the profile that is current by now.
RankedWithCurrent(c, e) == current[c]

\* The profile version a published entry was ranked with.
RankedWith(c, e) == e[2]

\* A mutant of Finished: the model is asked again.
FinishedNever(c, n) == FALSE

\* Only a ready explanation is served from the cache.
Finished(c, n) == StateOf(c, n) = "ready"

\* The prompt is on its way, with what was read for it.
Generating(r, version, seen) == [r EXCEPT !.at = "generating", !.version = version, !.seen = seen]

\* request_explanation up to the call of the model: the session, the entry,
\* the profile it was ranked with, and the cache.
Ask(q) ==
  LET c == request[q].of
      n == request[q].revision
  IN /\ request[q].at = "sent"
     /\ \/ \E e \in Entry(c, n) :
             /\ Resolves(c) /\ Here(c) /\ HasProfile(c, RankedWith(c, e))
             /\ request' = [request EXCEPT
                  ![q] = IF Finished(c, n) THEN Answered(q, "ready")
                         ELSE Generating(@, RankedWith(c, e), StateOf(c, n))]
        \/ request' = [request EXCEPT ![q] = Answered(q, "error")]
     /\ UNCHANGED dataVars

\* What the model may answer: nothing at all, a reply that is not the agreed
\* JSON, one that lists a skill or states a percentage the application did not
\* compute, prose that claims something else, or what it was told.
Replies == {"outage", "malformed", "wrong_list", "wrong_percentage", "wrong_prose", "sound"}

\* _validate: the lists and the percentages are compared; no other prose is.
Survives(reply) == reply \notin {"malformed", "wrong_list", "wrong_percentage"}

\* explain after the model answered; put saves either outcome.
Save(q) ==
  LET c == request[q].of
      n == request[q].revision
  IN /\ request[q].at = "generating"
     /\ \E reply \in Replies :
          LET s == IF reply # "outage" /\ Survives(reply) THEN "ready" ELSE "unavailable" IN
          /\ rows' = {r \in rows : ~(r.table = "explanations" /\ r.of = c /\ r.key[1] = n)}
                     \union {Row("explanations", c, <<n, request[q].version, s>>)}
          /\ request' = [request EXCEPT ![q] = Answered(q, s)]
     /\ UNCHANGED <<candidate, current, enabled, expired, sessions, files, upload, analysis, run, sweep>>

\* Two overlapping inserts of one key, or a database failure: an error.
SaveFails(q) ==
  /\ request[q].at = "generating"
  /\ request' = [request EXCEPT ![q] = Answered(q, "error")]
  /\ UNCHANGED dataVars

\* Who works with a candidate's data between a check and its last write.
Busy(c) ==
  {u \in Uploads : Owner[u] = c /\ (upload[u].at \in {"resolved", "stored"}
                                    \/ analysis[u] \in {"queued", "read", "saved"})}
  \union {q \in Requests : request[q].of = c /\ request[q].at = "generating"}
  \union (IF c \in run.fresh THEN {"run"} ELSE {})
=============================================================================
