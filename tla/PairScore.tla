------------------------------ MODULE PairScore ------------------------------
(***************************************************************************)
(* A profile against a posting: skill by skill, the score, and the orders  *)
(* in which scored jobs are shown (modules/matching, search/retrieval.py). *)
(*                                                                         *)
(* A similarity is an integer in thousandths.  A displayed score counts    *)
(* tenths of a percent, so that rounding to one decimal gives an integer.  *)
(***************************************************************************)
EXTENDS ResumeProfile

CONSTANT Inside   \* pairs <<a, b>>: the word a is a part of the word b

\* A canonical name stands for itself, as its aliases do for it.
CanonicalKey(name) ==
  LET known == {a \in Aliases : name \in {a.words, a.name}}
  IN IF known = {} THEN name ELSE (CHOOSE a \in known : TRUE).name

\* _distinct_requirements: the first row of a skill, required if any row is.
DistinctRequirements(reqs) ==
  LET key(i) == CanonicalKey(reqs[i].skill)
      first  == {i \in DOMAIN reqs : \A k \in 1..(i - 1) : key(k) # key(i)}
  IN Picked([i \in DOMAIN reqs |->
               [reqs[i] EXCEPT !.required =
                  \E k \in DOMAIN reqs : key(k) = key(i) /\ reqs[k].required]],
            first)

\* `needle in haystack`: of a single word, inside another one too.
Mentions(haystack, needle) ==
  \E i \in 0..(Len(haystack) - Len(needle)) :
    \/ Slice(haystack, i, i + Len(needle)) = needle
    \/ Len(needle) = 1 /\ <<needle[1], haystack[i + 1]>> \in Inside

\* _partial_evidence: experience, then projects, then the summary.
PartialEvidence(profile, summary, name) ==
  LET spoken(seq, Words(_)) ==
        {i \in DOMAIN seq : Mentions(Words(seq[i]), name) /\ seq[i].evidence # <<>>}
      jobs     == spoken(profile.experience, LAMBDA e : e.title \o e.org)
      projects == spoken(profile.projects, LAMBDA p : p.name \o p.text)
  IN CASE jobs # {} -> profile.experience[Min(jobs)].evidence
       [] jobs = {} /\ projects # {} -> profile.projects[Min(projects)].evidence
       [] OTHER -> IF Mentions(summary, name) THEN profile.evidence ELSE <<>>

\* A mutant of Owned: the names are compared as the texts are.
OwnedBySubstring(profile, name) ==
  {i \in DOMAIN profile.skills : Mentions(profile.skills[i].name, name)}

\* The skills of the profile under the canonical key of a name.
Owned(profile, name) ==
  {i \in DOMAIN profile.skills : CanonicalKey(profile.skills[i].name) = CanonicalKey(name)}

\* compare_skills: one verdict per distinct skill of the posting.
Compared(profile, summary, reqs) ==
  LET distinct == DistinctRequirements(reqs)
      owned(r)   == Owned(profile, r.skill)
      partial(r) == PartialEvidence(profile, summary, r.skill)
      resume(r)  == IF owned(r) # {} THEN profile.skills[Min(owned(r))].evidence ELSE partial(r)
      state(r)   == IF owned(r) # {} THEN "present"
                    ELSE IF partial(r) # <<>> THEN "partial" ELSE "missing"
  IN [i \in DOMAIN distinct |->
       [skill |-> distinct[i].skill, required |-> distinct[i].required,
        state |-> state(distinct[i]), job |-> distinct[i].evidence,
        resume |-> resume(distinct[i])]]

\* evidence_matches_state, and job_evidence's minimum length.
ValidComparison(c) == c.job # <<>> /\ (c.state = "missing" <=> c.resume = <<>>)

Strengths(compared) == Filtered(compared, LAMBDA c : c.state = "present")
GapsOf(compared)     == Filtered(compared, LAMBDA c : c.state = "missing" /\ c.required)

\* _collect_evidence: every reference once.
Collected(compared) ==
  LET all == FlattenSeq([i \in DOMAIN compared |-> compared[i].job \o compared[i].resume])
      key(i) == <<all[i].document, all[i].chunk, all[i].start, all[i].end>>
  IN Picked(all, {i \in DOMAIN all : \A k \in 1..(i - 1) : key(k) # key(i)})

------------------------------------------------------------------------------
(* The formula semantic-skills-v1 *)

Clamp(s) == Max({0, Min({1000, s})})

\* The sum of the credits, in halves.
Credits(states) ==
  2 * Cardinality({i \in DOMAIN states : states[i] = "present"})
  + Cardinality({i \in DOMAIN states : states[i] = "partial"})

\* The nearest integer to num / den, the even one of two that are as near.
Rounded(num, den) ==
  LET q == num \div den
      r == 2 * (num % den)
  IN IF r < den \/ (r = den /\ q % 2 = 0) THEN q ELSE q + 1

\* 100 * (0.70 S + 0.30 K) in tenths, as a fraction num / den.
Raw(semantic, states) ==
  IF states = <<>> THEN [num |-> Clamp(semantic), den |-> 1]
  ELSE [num |-> 7 * Clamp(semantic) * Len(states) + 1500 * Credits(states),
        den |-> 10 * Len(states)]

ComputeScore(semantic, states) ==
  LET raw == Raw(semantic, states)
  IN [semantic |-> Clamp(semantic), raw |-> raw,
      basis |-> IF states = <<>> THEN "semantic_only" ELSE "semantic_skills",
      display |-> Rounded(raw.num, raw.den)]

\* score_pair: the stored score is the displayed one.
PairResult(profile, summary, job, reqs, semantic) ==
  LET compared == Compared(profile, summary, reqs)
      required == Filtered(compared, LAMBDA c : c.required)
      calc     == ComputeScore(semantic, [i \in DOMAIN required |-> required[i].state])
  IN [job |-> job, score |-> calc.display, semantic |-> calc.semantic,
      raw |-> calc.raw, basis |-> calc.basis, compared |-> compared,
      strengths |-> Strengths(compared), gaps |-> GapsOf(compared),
      evidence |-> Collected(compared)]

------------------------------------------------------------------------------
(* Orders *)

\* The highest score first, equal scores by job id.
Above(a, b) == a.score > b.score \/ (a.score = b.score /\ a.job < b.job)
Ranked(results) == InOrder(results, Above)

ProfileText(profile, summary) ==
  summary \o FlattenSeq([i \in DOMAIN profile.skills |-> profile.skills[i].name])
  \o FlattenSeq(profile.titles) \o FlattenSeq(profile.orgs)
  \o FlattenSeq([i \in DOMAIN profile.experience |->
                   profile.experience[i].title \o profile.experience[i].org])
  \o FlattenSeq([i \in DOMAIN profile.projects |->
                   profile.projects[i].name \o profile.projects[i].text])

JobText(posting) ==
  posting.title \o posting.company \o posting.description
  \o FlattenSeq([i \in DOMAIN posting.reqs |-> posting.reqs[i].skill])

Tokens(text) == {text[i] : i \in DOMAIN text} \ (Blank \cup Stops \cup {":", ",", "|", "-", "*"})

\* keyword.score: the share of the posting's words that the resume has.
Keyword(profile, summary, posting) ==
  LET wanted == Tokens(JobText(posting))
  IN IF wanted = {} THEN 0
     ELSE (1000 * Cardinality(wanted \cap Tokens(ProfileText(profile, summary))))
            \div Cardinality(wanted)

\* rerank: the best `pool` jobs by the cheap score, then by the weighted sum
\* (2 : 3 : 5) of all three.  coarse and tfidf are functions of the job.
Reranked(jobs, coarse, tfidf, keyword, pool) ==
  LET byCoarse == Ranked({[job |-> j, score |-> coarse[j]] : j \in jobs})
      bounded  == SubSeq(byCoarse, 1, Min({pool, Len(byCoarse)}))
      sum(j)   == 2 * keyword[j] + 3 * tfidf[j] + 5 * coarse[j]
  IN Ranked({[job |-> bounded[i].job, score |-> sum(bounded[i].job)] : i \in DOMAIN bounded})

\* A mutant of Found: the scan stops at the limit.
FoundFirst(jobs, comparable, similarity, limit) ==
  LET scanned == {j \in jobs \cap comparable :
                    Cardinality({k \in jobs \cap comparable : k < j}) < limit}
  IN Ranked({[job |-> j, score |-> similarity[j]] : j \in scanned})

\* JobVectorSearch.search: only vectors of the query's version and dimensions.
Found(jobs, comparable, similarity, limit) ==
  LET hits == Ranked({[job |-> j, score |-> similarity[j]] : j \in jobs \cap comparable})
  IN SubSeq(hits, 1, Min({limit, Len(hits)}))
==============================================================================
