---------------------------- MODULE MatchPipeline ----------------------------
(***************************************************************************)
(* A resume from its bytes to a ranking: extraction, analysis and profile  *)
(* as the resume worker calls them, postings as the importer reads them,   *)
(* vectors as pairs are scored, and the orders shown.  Each action is one  *)
(* call; what may go wrong in it is an outcome of the action.  A behaviour *)
(* ends with the first list that is shown.                                 *)
(***************************************************************************)
EXTENDS PairScore

CONSTANTS Paragraphs, MaxParagraphs,  \* what a resume is written from
          Uploads,                    \* [bytes, suffix, declared]
          PagesOf,                    \* the pages a job's URL may show
          Languages,
          Similarities,               \* the cosines an encoder may give
          Backends,                   \* [client, whole, model]
          Now,                        \* the month of the upload
          None

ASSUME InputsAssumption ==
  /\ MaxParagraphs \in Nat /\ Paragraphs \subseteq Nodes
  /\ PagesOf \in Seq(SUBSET Pages)
ASSUME NumbersAssumption == Similarities \subseteq Int /\ Now \in Nat

Jobs == DOMAIN PagesOf
Candidate == 0
Resume == 100   \* its document id; a job's evidence has the job's id

Pinned == [model |-> "minilm", preprocessing |-> "shared-text-v1"]

VARIABLES stage,     \* draft, text, analysed, built, stored, then listed or failed
          draft,     \* the paragraphs of the resume
          source, analysis, made,
          postings,  \* per job: the normalised posting, or None
          vectors,   \* per candidate and job: what the stored vector is made with
          endpoint,  \* the backend that embeds now
          results,   \* per job: the stored result, or None
          listed,    \* the last list that was shown, and what decided who is in it
          error

resumeVars == <<draft, source, analysis, made>>
matchVars  == <<postings, vectors, endpoint, results, listed>>
vars == <<stage, resumeVars, matchVars, error>>

Init ==
  /\ stage = "draft" /\ draft = <<>>
  /\ source = None /\ analysis = None /\ made = None
  /\ postings = [j \in Jobs |-> None]
  /\ vectors = [k \in Jobs \cup {Candidate} |-> None]
  /\ endpoint = CHOOSE b \in Backends : b.client = "remote" /\ b.whole /\ b.model = Pinned.model
  /\ results = [j \in Jobs |-> None]
  /\ listed = None /\ error = ""

Fail(code) == stage' = "failed" /\ error' = code

------------------------------------------------------------------------------
(* The resume *)

Write(p) ==
  /\ stage = "draft" /\ Len(draft) < MaxParagraphs
  /\ draft' = Append(draft, p)
  /\ UNCHANGED <<stage, source, analysis, made, matchVars, error>>

\* The same paragraphs as a DOCX, the first ones in the header, or as a PDF of
\* one page or of a page each.
Document(cut, faults) ==
  LET head == SubSeq(draft, 1, cut)
      rest == SubSeq(draft, cut + 1, Len(draft))
  IN [headers |-> head, body |-> rest, footers |-> <<>>,
      pages |-> IF cut = 0 THEN <<draft>> ELSE [i \in DOMAIN draft |-> <<draft[i]>>],
      faults |-> faults]

\* extract_resume
Extract(u, cut, faults) ==
  LET parsed == Parsed(u.suffix, Document(cut, faults))
      text   == Assembled(parsed.blocks, Resume, 1)
      code   == FirstFault(<<<<UploadError(u) # "", UploadError(u)>>,
                             <<parsed.error # "", parsed.error>>,
                             <<text.error # "", text.error>>>>)
  IN /\ stage = "draft" /\ cut <= Len(draft)
     /\ IF code # "" THEN Fail(code) /\ UNCHANGED source
        ELSE stage' = "text" /\ source' = text.source /\ UNCHANGED error
     /\ draft' = <<>>
     /\ UNCHANGED <<analysis, made, matchVars>>

Analyse(language) ==
  LET a == Analysed(source, language, Resume, 1)
  IN /\ stage = "text"
     /\ IF a.error # "" THEN Fail(a.error) /\ UNCHANGED analysis
        ELSE stage' = "analysed" /\ analysis' = a /\ UNCHANGED error
     /\ UNCHANGED <<draft, source, made, matchVars>>

\* build_candidate_profile; a record its contract refuses is not made.
Build(orgLines) ==
  /\ stage = "analysed"
  /\ \E rows \in {Rows(source)} :
     \E work \in {Experiences(source, rows, orgLines)}, projects \in {Projects(source, rows)} :
     \E profile \in {ProfileOf(source, work.jobs, Schools(source, rows, orgLines),
                              projects.projects, Skills(analysis, rows), Now)} :
       /\ made' = [profile |-> profile, summary |-> Summary(profile),
                   warnings |-> Warnings(profile, work.undated, projects.bare)]
       /\ IF ValidProfile(profile) THEN stage' = "built" /\ UNCHANGED error
          ELSE Fail("PROCESSING_FAILED")
  /\ UNCHANGED <<draft, source, analysis, matchVars>>

\* The model whose vectors a backend returns; an incomplete answer of the remote
\* one counts as an outage (_parse).
Answered(b) == IF b.client = "remote" /\ ~b.whole THEN {} ELSE {b.model}

\* BaselineEmbeddingClient: the gate before a remote backend; the local one
\* hashes behind no gate.
Embedded(b) == {m \in Answered(b) : b.client = "local" \/ m = Pinned.model}

\* VersionedEmbedder: a candidate's vector is of the pinned model or is none.
Encodes(b) == Pinned.model \in Embedded(b)

\* The profile is saved; then its text is embedded, or refused for good, or the
\* row is tried again later.
Keep ==
  LET blank == ProfileText(made.profile, made.summary) = <<>>
  IN /\ stage = "built"
     /\ blank \/ Encodes(endpoint)
     /\ IF blank THEN Fail("NO_SUPPORTED_PROFILE_FACTS") ELSE stage' = "stored" /\ UNCHANGED error
     /\ vectors' = IF blank THEN vectors ELSE [vectors EXCEPT ![Candidate] = Pinned]
     /\ source' = None /\ analysis' = None
     /\ UNCHANGED <<draft, made, postings, endpoint, results, listed>>

------------------------------------------------------------------------------
(* Postings, vectors and scores *)

\* A posting with an empty company is not one (contracts/models.py): the import fails.
Import(j, page) ==
  LET n == Normalised(page)
  IN /\ stage = "stored" /\ postings[j] = None /\ n.company # <<>>
     /\ \A k \in Jobs : k < j => postings[k] # None
     /\ postings' = [postings EXCEPT ![j] =
          [title |-> n.title, company |-> n.company, description |-> n.description,
           reqs |-> Requirements(n.description, j)]]
     /\ UNCHANGED <<stage, resumeVars, vectors, endpoint, results, listed, error>>

\* Another backend is configured or deployed, or the first one again.
Deploy(b) ==
  /\ stage \in {"built", "stored"}
  /\ stage = "stored" => \A j \in Jobs : postings[j] # None /\ results[j] = None
  /\ endpoint' = b
  /\ UNCHANGED <<stage, resumeVars, postings, vectors, results, listed, error>>

\* rebuild_job_embeddings under the version that scoring reads; the preprocessing
\* it stores is its own.
Rebuild ==
  /\ stage = "stored" /\ \A j \in Jobs : postings[j] # None /\ results[j] = None
  /\ \E m \in Embedded(endpoint) :
       vectors' = [k \in DOMAIN vectors |->
         IF k \in Jobs THEN [model |-> m, preprocessing |-> "matching-text-v1"] ELSE vectors[k]]
  /\ UNCHANGED <<stage, resumeVars, postings, endpoint, results, listed, error>>

\* The stored vector, or a new one if the backend gives any.
Vector(k) ==
  IF vectors[k] # None THEN {vectors[k]}
  ELSE {[model |-> m, preprocessing |-> "shared-text-v1"] : m \in Embedded(endpoint)}

\* PersistedPairEmbeddings._validate
Selected(vector) == vector = Pinned

\* score_pair.  A vector that is not the selected one stops the pair, and a new
\* one is not saved then (the candidate's is there since Keep).
Score(j, similarity) ==
  /\ stage = "stored" /\ postings[j] # None /\ results[j] = None
  /\ \A k \in Jobs : postings[k] # None /\ (k < j => results[k] # None)
  /\ \E c \in Vector(Candidate), p \in Vector(j) :
       /\ Selected(c) /\ Selected(p)
       /\ vectors' = [vectors EXCEPT ![Candidate] = c, ![j] = p]
       /\ results' = [results EXCEPT ![j] =
            PairResult(made.profile, made.summary, j, postings[j].reqs, similarity)]
  /\ UNCHANGED <<stage, resumeVars, postings, endpoint, listed, error>>

\* The published ranking (refresh.py).
Publish ==
  /\ stage = "stored" /\ \A j \in Jobs : results[j] # None
  /\ listed' = [rows |-> Ranked({[job |-> j, score |-> results[j].score] : j \in Jobs}),
                 key |-> [j \in Jobs |-> results[j].score]]
  /\ stage' = "listed"
  /\ UNCHANGED <<resumeVars, postings, vectors, endpoint, results, error>>

\* rerank over the imported postings.
Rerank(coarse, tfidf, pool) ==
  /\ stage = "stored" /\ \A j \in Jobs : postings[j] # None /\ results[j] = None
  /\ listed' = [rows |-> Reranked(Jobs, coarse, tfidf, [j \in Jobs |->
                           Keyword(made.profile, made.summary, postings[j])], pool),
                 key |-> coarse]
  /\ stage' = "listed"
  /\ UNCHANGED <<resumeVars, postings, vectors, endpoint, results, error>>

\* JobVectorSearch.search: a vector of the other backend has other dimensions.
Search(similarity, limit) ==
  /\ stage = "stored" /\ \A j \in Jobs : postings[j] # None /\ results[j] = None
  /\ LET comparable == {j \in Jobs : vectors[j] # None /\ vectors[j].model = Pinned.model}
     IN listed' = [rows |-> Found(Jobs, comparable, similarity, limit),
                   key |-> [j \in comparable |-> similarity[j]]]
  /\ stage' = "listed"
  /\ UNCHANGED <<resumeVars, postings, vectors, endpoint, results, error>>

FaultSets(u) == {{}} \cup {{f} : f \in Faults(u.suffix)}
OrgLines == {{}} \cup {{RowSpan(Rows(source)[i])} : i \in DOMAIN Rows(source)}

Next ==
  \/ \E p \in Paragraphs : Write(p)
  \/ \E u \in Uploads, cut \in 0..1 : \E faults \in FaultSets(u) : Extract(u, cut, faults)
  \/ \E language \in Languages : Analyse(language)
  \/ stage = "analysed" /\ \E orgLines \in OrgLines : Build(orgLines)
  \/ Keep
  \/ \E j \in Jobs : \E page \in PagesOf[j] : Import(j, page)
  \/ \E b \in Backends : Deploy(b)
  \/ Rebuild
  \/ \E j \in Jobs, s \in Similarities : Score(j, s)
  \/ Publish
  \/ \E coarse, tfidf \in [Jobs -> {0, 500}], pool \in Jobs : Rerank(coarse, tfidf, pool)
  \/ \E similarity \in [Jobs -> Similarities], limit \in Jobs : Search(similarity, limit)

Spec == Init /\ [][Next]_vars

------------------------------------------------------------------------------
(* Properties *)

\* The stages and what each of them has.
TypeOK ==
  /\ stage \in {"draft", "text", "analysed", "built", "stored", "listed", "failed"}
  /\ stage = "failed" <=> error # ""
  /\ source # None => Len(source.text) \in 1..MaxTextChars
  /\ made # None => made.profile.months \in {Unknown} \cup Nat
  /\ \A j \in Jobs : results[j] # None => results[j].score \in 0..1000

\* The words of a list of references, in order.
Quoted(evidence) ==
  Normalized(FlattenSeq([i \in DOMAIN evidence |-> evidence[i].excerpt])).text

\* Whatever extraction assembles, analysis accepts; and the evidence of a skill
\* quotes exactly the words of its mention, across pages and paragraphs too
\* (assemble_text, validate_source and evidence_for agree on every offset).
EvidenceQuotesMention ==
  /\ error # "INVALID_EVIDENCE"
  /\ stage = "analysed" => \A i \in DOMAIN analysis.skills :
       LET m == analysis.skills[i]
       IN /\ Quoted(m.evidence) = Slice(analysis.normalized.text, m.start, m.end)
          /\ \A k \in DOMAIN m.evidence :
               m.evidence[k].excerpt = Slice(source.text, m.evidence[k].start, m.evidence[k].end)

\* The evidence of a confirmed skill touches rows of the resume, all of them in
\* supported sections (a piece of it may stand on a line that is no row), and no
\* confirmed mention denies the skill ("Conflicting positive/negative mentions of a
\* canonical skill exclude that skill entirely", A03_PROFILE.md).
SkillsAreClaimed ==
  stage = "built" =>
    LET rows == Rows(source)
        Touches(row, ref) == row.start < ref.end /\ row.end > ref.start
        Touched(s) == {n \in DOMAIN rows : \E k \in DOMAIN s.evidence : Touches(rows[n], s.evidence[k])}
    IN \A i \in DOMAIN made.profile.skills :
         LET s == made.profile.skills[i]
         IN /\ Touched(s) # {} /\ \A n \in Touched(s) : rows[n].section \in Supported
            /\ \A k \in DOMAIN analysis.skills :
                 LET m == analysis.skills[k]
                 IN m.name = s.name /\ m.assertion = "negated" =>
                      ~Confirmed(analysis.normalized, rows, m)

\* The months of experience are those some period covers, counted once, and
\* known exactly when every period is.
MonthsAreCounted ==
  stage = "built" =>
    LET jobs == made.profile.experience
        last(e) == IF e.end.unit = "present" THEN Now - 1 ELSE e.end.at
        known(e) == /\ e.start.unit = "month" /\ e.end.unit \in {"month", "present"}
                    /\ last(e) < Now /\ e.start.at <= last(e) + (IF e.end.unit = "present" THEN 1 ELSE 0)
    IN made.profile.months =
         IF jobs # <<>> /\ \A i \in DOMAIN jobs : known(jobs[i])
         THEN Cardinality(UNION {jobs[i].start.at..last(jobs[i]) : i \in DOMAIN jobs})
         ELSE Unknown

\* Each skill of a posting gets one verdict that its contract accepts, and
\* "present" is proved on both sides by words that mean that skill.
VerdictsAreProven ==
  \A j \in Jobs : results[j] # None =>
    LET cs == results[j].compared
        Means(evidence, name) ==
          \E n \in 1..Len(evidence) : \E a \in Aliases : a.name = name /\ Quoted(SubSeq(evidence, 1, n)) = a.words
    IN /\ {cs[i].skill : i \in DOMAIN cs} = {postings[j].reqs[i].skill : i \in DOMAIN postings[j].reqs}
       /\ \A i, k \in DOMAIN cs : i # k => cs[i].skill # cs[k].skill
       /\ \A i \in DOMAIN cs :
            /\ ValidComparison(cs[i])
            /\ Means(cs[i].job, cs[i].skill)
            /\ cs[i].state = "present" => Means(cs[i].resume, cs[i].skill)

\* The unrounded score of a result is lower than another's.
Lower(r, s) == r # None /\ s # None /\ r.raw.num * s.raw.den < s.raw.num * r.raw.den

\* A list shows nobody before one with a larger score, and cuts off nobody whose
\* score is larger than that of one it shows; and a ranking by the scores as they
\* were stored puts a lower unrounded score first only where both show the same
\* percentage (scoring.py:77, refresh.py:104).
RankingIsFair ==
  listed # None =>
    LET rows == listed.rows
        in   == {rows[i].job : i \in DOMAIN rows}
    IN /\ \A i, k \in DOMAIN rows : i < k =>
            /\ rows[i].score >= rows[k].score
            /\ Lower(results[rows[i].job], results[rows[k].job]) => rows[i].score = rows[k].score
       /\ \A a \in in, b \in DOMAIN listed.key \ in : listed.key[a] >= listed.key[b]

\* "Sorting for a ranked list uses the unrounded score" (scoring.md:118).
SortedUnrounded ==
  listed # None =>
    \A i, k \in DOMAIN listed.rows : i < k =>
      ~Lower(results[listed.rows[i].job], results[listed.rows[k].job])
==============================================================================
