---------------------------- MODULE ResumeProfile ----------------------------
(***************************************************************************)
(* The profile of a resume: jobs, education, projects, confirmed skills,   *)
(* months of experience and the summary (modules/resume/profile.py,        *)
(* summary.py).  A pass over the rows is a fold that carries what the loop *)
(* carries; orgLines are the rows whose span the entity model calls an     *)
(* organisation.                                                           *)
(***************************************************************************)
EXTENDS ResumeLines

RowSpan(row) == [start |-> row.start, end |-> row.end]

\* finish() of _experiences: the rows gathered so far become a job.
FinishJob(source, acc) ==
  IF acc.rows = <<>> THEN acc
  ELSE LET dates == ExtractDates(FlattenSeq([i \in DOMAIN acc.rows |-> acc.rows[i].words]))
       IN [acc EXCEPT !.jobs = Append(@, [title |-> acc.title, org |-> acc.org,
                                          start |-> dates.start, end |-> dates.end,
                                          evidence |-> RefsOf(source, acc.rows)]),
                      !.undated = @ \/ ~dates.valid]

Gather(acc, row) == [acc EXCEPT !.rows = Append(@, row)]
Afresh(acc) == [jobs |-> acc.jobs, rows |-> <<>>, title |-> <<>>, org |-> <<>>, undated |-> acc.undated]

\* _experiences: one row of the resume.
JobRow(source, orgLines, acc, row) ==
  LET words  == row.words
      header == RoleHeader(WithoutRanges(words))
      closed == IF acc.org # <<>> THEN Afresh(FinishJob(source, acc)) ELSE acc
  IN CASE row.section # "experience" -> Afresh(FinishJob(source, acc))
       [] row.section = "experience" /\ header # {} ->
            LET h == CHOOSE h \in header : TRUE
            IN [FinishJob(source, acc) EXCEPT !.rows = <<row>>, !.title = h.title, !.org = h.org]
       [] row.section = "experience" /\ header = {} /\ Labelled(words, "company") ->
            Gather([closed EXCEPT !.org = Value(words)], row)
       [] OTHER ->
            IF acc.rows # <<>>
            THEN Gather([acc EXCEPT !.org = IF @ = <<>> /\ RowSpan(row) \in orgLines
                                            THEN words ELSE @], row)
            ELSE IF RangesIn(words) # {} THEN Gather(acc, row) ELSE acc

\* Jobs in order, and whether one of them has no usable dates.
Experiences(source, rows, orgLines) ==
  FinishJob(source,
    FoldLeft(LAMBDA acc, row : JobRow(source, orgLines, acc, row),
             [jobs |-> <<>>, rows |-> <<>>, title |-> <<>>, org |-> <<>>, undated |-> FALSE],
             rows))

------------------------------------------------------------------------------

FirstPiece(pieces, hits) == IF hits = {} THEN <<>> ELSE pieces[Min(hits)]

\* The qualification and the institution a row of the education section names.
Schooling(row, orgLines) ==
  LET pieces == Split(row.words, Separators)
      degrees == {k \in DOMAIN pieces : Has(pieces[k], DegreeWords)}
      q == FirstPiece(pieces, degrees)
      i == FirstPiece(pieces, {k \in DOMAIN pieces : Has(pieces[k], InstitutionWords)} \ degrees)
  IN [q |-> IF Labelled(row.words, "qualification") THEN Value(row.words) ELSE q,
      i |-> IF Labelled(row.words, "institution") THEN Value(row.words)
            ELSE IF q = <<>> /\ i = <<>> /\ RowSpan(row) \in orgLines THEN row.words ELSE i]

FinishSchool(acc) ==
  IF acc.q = <<>> /\ acc.i = <<>> THEN acc
  ELSE [schools |-> Append(acc.schools, [qualification |-> acc.q, institution |-> acc.i,
                                         evidence |-> acc.evidence]),
        q |-> <<>>, i |-> <<>>, evidence |-> <<>>]

SchoolRow(source, orgLines, acc, row) ==
  LET new  == Schooling(row, orgLines)
      base == IF (new.q # <<>> /\ acc.q # <<>>) \/ (new.i # <<>> /\ acc.i # <<>>)
              THEN FinishSchool(acc) ELSE acc
  IN CASE row.section # "education" -> FinishSchool(acc)
       [] row.section = "education" /\ new.q = <<>> /\ new.i = <<>> -> acc
       [] OTHER -> [base EXCEPT !.q = OrElse(new.q, @), !.i = OrElse(new.i, @),
                                !.evidence = @ \o RefsOf(source, <<row>>)]

Schools(source, rows, orgLines) ==
  FinishSchool(FoldLeft(LAMBDA acc, row : SchoolRow(source, orgLines, acc, row),
                        [schools |-> <<>>, q |-> <<>>, i |-> <<>>, evidence |-> <<>>],
                        rows)).schools

------------------------------------------------------------------------------

FinishProject(acc) ==
  LET done == acc.name # <<>> /\ acc.body # <<>>
  IN [acc EXCEPT !.projects = IF done THEN Append(@, [name |-> acc.name, text |-> FlattenSeq(acc.body),
                                                      evidence |-> acc.evidence]) ELSE @,
                 !.bare = @ \/ (acc.name # <<>> /\ acc.body = <<>>)]

Titled(acc, name, body, evidence) ==
  [acc EXCEPT !.named = TRUE, !.name = name, !.body = body, !.evidence = evidence]

Untitled(acc) == [acc EXCEPT !.named = FALSE, !.name = <<>>, !.body = <<>>, !.evidence = <<>>]

\* "name: text" or "name | text", not behind a bullet.
InlineProject(words) ==
  LET cuts == {i \in DOMAIN words : words[i] \in {":", "|"}}
  IN {k \in 2..(Len(words) - 1) : cuts # {} /\ k = Min(cuts) /\ words[1] \notin Bullets}

\* A name may be empty ("project: | text"); what follows it is then dropped.
ProjectRow(source, acc, row) ==
  LET words  == row.words
      refs   == RefsOf(source, <<row>>)
      inline == InlineProject(words)
      bars   == {i \in 3..Len(words) : words[i] = "|"}
      upTo   == IF bars = {} THEN Len(words) ELSE Min(bars) - 1
      explicit == Labelled(words, "project") /\ Value(words) # <<>>
  IN CASE row.section # "projects" -> Untitled(FinishProject(acc))
       [] row.section = "projects" /\ explicit ->
            Titled(FinishProject(acc), SubSeq(words, 3, upTo),
                   IF bars = {} THEN <<>> ELSE <<SubSeq(words, upTo + 2, Len(words))>>, refs)
       [] row.section = "projects" /\ ~explicit /\ inline # {} ->
            LET k == Min(inline)
            IN Titled(FinishProject(acc), SubSeq(words, 1, k - 1),
                      <<SubSeq(words, k + 1, Len(words))>>, refs)
       [] OTHER ->
            IF ~acc.named /\ Len(words) <= 8 /\ Last(words) # "." THEN Titled(acc, words, <<>>, refs)
            ELSE IF acc.name = <<>> THEN acc
            ELSE [acc EXCEPT !.body = Append(@, words), !.evidence = @ \o refs]

\* A body is the lines behind a name; one empty line makes an empty description.
\* Projects, and whether a name stood without a description.
Projects(source, rows) ==
  FinishProject(FoldLeft(LAMBDA acc, row : ProjectRow(source, acc, row),
                         [projects |-> <<>>, named |-> FALSE, name |-> <<>>, body |-> <<>>,
                          evidence |-> <<>>, bare |-> FALSE], rows))

------------------------------------------------------------------------------

\* A mention counts when every row it touches is in a supported section.
Confirmed(normalized, rows, m) ==
  LET span == SourceSpan(normalized, m.start, m.end)
      at   == {i \in DOMAIN rows : rows[i].start < span.end /\ rows[i].end > span.start}
  IN at # {} /\ \A i \in at : rows[i].section \in Supported

\* A mutant of Skills: a plain mention outweighs a denial elsewhere.
SkillsHopeful(analysis, rows) ==
  LET plain == Filtered(analysis.skills, LAMBDA m :
                 m.assertion = "mentioned" /\ Confirmed(analysis.normalized, rows, m))
  IN [i \in DOMAIN plain |-> [name |-> plain[i].name, evidence |-> plain[i].evidence]]

\* _skills: the names mentioned and never denied, each with the evidence of
\* its plain mentions, in the order of their first one.
Skills(analysis, rows) ==
  LET confirmed == Filtered(analysis.skills, LAMBDA m : Confirmed(analysis.normalized, rows, m))
      plain     == Filtered(confirmed, LAMBDA m : m.assertion = "mentioned")
      denied    == {confirmed[i].name :
                      i \in {k \in DOMAIN confirmed : confirmed[k].assertion = "negated"}}
      first     == {i \in DOMAIN plain : /\ plain[i].name \notin denied
                                         /\ \A k \in 1..(i - 1) : plain[k].name # plain[i].name}
      all(n)    == Filtered(plain, LAMBDA m : m.name = n)
      proof(n)  == FlattenSeq([k \in DOMAIN all(n) |-> all(n)[k].evidence])
  IN Picked([i \in DOMAIN plain |-> [name |-> plain[i].name, evidence |-> proof(plain[i].name)]],
            first)

\* summarize_profile: what a profile says of itself, in words.
Summary(p) ==
  LET Named(seq, F(_)) == FlattenSeq([i \in DOMAIN seq |-> F(seq[i])])
      first(seq, n) == SubSeq(seq, 1, Min({n, Len(seq)}))
      known(seq)    == Filtered(seq, LAMBDA t : t # <<>>)
  IN Named(first(p.titles, 3), LAMBDA t : t)
     \o Named(first(p.skills, 8), LAMBDA s : s.name)
     \o Named(first(known([i \in DOMAIN p.education |-> p.education[i].qualification]), 2), LAMBDA t : t)
     \o Named(first(known([i \in DOMAIN p.education |-> p.education[i].institution]), 2), LAMBDA t : t)
     \o Named(first(p.projects, 3), LAMBDA t : t.name)
     \o (IF p.months = Unknown THEN <<>> ELSE <<"dated">>)   \* "Dated employment spans ..."

Distinct(seq) ==
  Picked(seq, {i \in DOMAIN seq : seq[i] # <<>> /\ \A k \in 1..(i - 1) : seq[k] # seq[i]})

\* What the contracts of a profile demand; a record that fails is not built.
ValidProfile(p) ==
  /\ \A i \in DOMAIN p.skills : p.skills[i].evidence # <<>>
  /\ \A i \in DOMAIN p.experience : p.experience[i].evidence # <<>>
  /\ \A i \in DOMAIN p.education : p.education[i].evidence # <<>>
  /\ \A i \in DOMAIN p.projects : p.projects[i].evidence # <<>> /\ p.projects[i].text # <<>>

\* The record that build_candidate_profile makes of its parts; `now` is the month
\* of as_of.
ProfileOf(source, jobs, schools, projects, skills, now) ==
  [skills |-> skills,
   experience |-> jobs,
   months |-> UnionMonths([i \in DOMAIN jobs |-> [start |-> jobs[i].start, end |-> jobs[i].end]], now),
   education |-> schools,
   projects |-> projects,
   titles |-> Distinct([i \in DOMAIN jobs |-> jobs[i].title]),
   orgs |-> Distinct([i \in DOMAIN jobs |-> jobs[i].org]),
   evidence |-> source.evidence]

\* The warnings that say what is not known.
Warnings(profile, undated, bare) ==
  {w \in {"EXPERIENCE_DATES_UNKNOWN", "EXPERIENCE_TOTAL_UNKNOWN",
          "PROJECT_DESCRIPTION_UNKNOWN", "NO_SUPPORTED_PROFILE_FIELDS"} :
     CASE w = "EXPERIENCE_DATES_UNKNOWN"    -> undated
       [] w = "EXPERIENCE_TOTAL_UNKNOWN"    -> profile.experience # <<>> /\ profile.months = Unknown
       [] w = "PROJECT_DESCRIPTION_UNKNOWN" -> bare
       [] w = "NO_SUPPORTED_PROFILE_FIELDS" ->
            profile.skills \o profile.experience \o profile.education \o profile.projects = <<>>}
==============================================================================
