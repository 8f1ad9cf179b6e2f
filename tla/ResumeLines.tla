----------------------------- MODULE ResumeLines -----------------------------
(***************************************************************************)
(* What the builder of a profile reads off the text of a resume: lines and *)
(* sections, the header of a job, dates, and the months that a list of     *)
(* periods covers (modules/resume/profile_sections.py, profile_dates.py).  *)
(*                                                                         *)
(* The regular expressions are sets of words; <<>> is None for a name.     *)
(***************************************************************************)
EXTENDS SkillText

CONSTANTS Headings,   \* from the words of a heading to its section
          Calendar,   \* from a date's word to [unit, year, month]
          RoleWords, DegreeWords, InstitutionWords, TaskVerbs,
          Capitals    \* the words in upper case

ASSUME CalendarAssumption ==
  \A w \in DOMAIN Calendar : Calendar[w] \in [unit : STRING, year : Nat, month : Nat]

Bullets    == {"*"}
Separators == {"at", "|", "-"}
Supported  == {"skills", "experience", "projects", "summary"}
Has(words, set) == \E i \in DOMAIN words : words[i] \in set

\* The line is "label: value"; the value.
Labelled(words, label) == Len(words) >= 2 /\ words[1] = label /\ words[2] = ":"
Value(words) == SubSeq(words, 3, Len(words))

Split(words, at) ==
  FoldLeft(LAMBDA parts, w :
             IF w \in at THEN Append(parts, <<>>)
             ELSE [parts EXCEPT ![Len(parts)] = Append(@, w)],
           << <<>> >>, words)

------------------------------------------------------------------------------
(* Lines and sections *)

\* Every line of the source that has text, with its span.
LineSpans(text) ==
  LET starts  == {i \in DOMAIN text : text[i] # "nl" /\ (i = 1 \/ text[i - 1] = "nl")}
      stop(s) == Max({i \in s..Len(text) : \A k \in s..i : text[k] # "nl"})
      ink(s)  == {i \in s..stop(s) : text[i] \notin Gaps}
      inked   == Picked([i \in DOMAIN text |-> i], {s \in starts : ink(s) # {}})
  IN [n \in DOMAIN inked |-> [start |-> Min(ink(inked[n])) - 1, end |-> Max(ink(inked[n]))]]

Bare(words) == IF words # <<>> /\ Last(words) = ":" THEN Front(words) ELSE words

\* The colon of "Skills: Java, SQL".
InlineAt(words) ==
  {k \in DOMAIN words : words[k] = ":" /\ SubSeq(words, 1, k - 1) \in DOMAIN Headings
                        /\ \A i \in 1..(k - 1) : words[i] # ":"}

\* An unrecognised heading in upper case ends the section.
Boundary(words) ==
  /\ Len(words) > 1
  /\ \A i \in DOMAIN words : words[i] \in Capitals
  /\ ~Has(words, RoleWords \cup DegreeWords)
  /\ \A i \in DOMAIN words : \A a \in Aliases : a.words # <<words[i]>>

\* lines: headings set the section of the rows that follow and are no rows.
Rows(source) ==
  LET step(acc, span) ==
        LET words  == Slice(source.text, span.start, span.end)
            inline == InlineAt(words)
            row(section, from) ==
              [words |-> SubSeq(words, from + 1, Len(words)), start |-> span.start + from,
               end |-> span.end, section |-> section]
        IN CASE Bare(words) \in DOMAIN Headings ->
                  [acc EXCEPT !.section = Headings[Bare(words)]]
             [] Bare(words) \notin DOMAIN Headings /\ inline # {} ->
                  LET k == Min(inline)
                      section == Headings[SubSeq(words, 1, k - 1)]
                  IN [section |-> section, rows |-> Append(acc.rows, row(section, k))]
             [] Bare(words) \notin DOMAIN Headings /\ inline = {} /\ Boundary(words) ->
                  [acc EXCEPT !.section = "unknown"]
             [] OTHER -> [acc EXCEPT !.rows = Append(@, row(acc.section, 0))]
  IN FoldLeft(step, [section |-> "unknown", rows |-> <<>>], LineSpans(source.text)).rows

\* refs of a run of rows.
RefsOf(source, rows) ==
  FlattenSeq([i \in DOMAIN rows |-> Clipped(source, rows[i].start, rows[i].end)])

\* A title and perhaps an organisation: none or one pair.
RoleHeader(words) ==
  LET cuts  == {i \in DOMAIN words : words[i] \in Separators}
      title == IF cuts = {} THEN words ELSE SubSeq(words, 1, Min(cuts) - 1)
      org   == IF cuts = {} THEN <<>> ELSE SubSeq(words, Min(cuts) + 1, Len(words))
  IN CASE words = <<>> \/ words[1] \in Bullets -> {}
       [] words # <<>> /\ Labelled(words, "title") /\ Value(words) # <<>> ->
            {[title |-> Value(words), org |-> <<>>]}
       [] OTHER -> IF title # <<>> /\ Len(title) <= 9 /\ Has(title, RoleWords)
                      /\ title[1] \notin TaskVerbs
                   THEN {[title |-> title, org |-> org]} ELSE {}

------------------------------------------------------------------------------
(* Dates *)

NoDate == [unit |-> "none", at |-> 0]

\* A month counts from year 0; a bare year has no month.
ParseDate(word) ==
  LET d == Calendar[word]
  IN CASE d.unit = "present" -> [unit |-> "present", at |-> 0]
       [] d.unit = "month" /\ d.year \in 1900..2200 /\ d.month \in 1..12 ->
            [unit |-> "month", at |-> d.year * 12 + d.month - 1]
       [] d.unit = "year" /\ d.year \in 1900..2200 -> [unit |-> "year", at |-> d.year * 12]
       [] OTHER -> NoDate

RangesIn(words) ==
  {i \in 1..(Len(words) - 2) :
     words[i] \in DOMAIN Calendar /\ words[i + 1] = "to" /\ words[i + 2] \in DOMAIN Calendar}

WithoutRanges(words) ==
  LET inRange == UNION {i..(i + 2) : i \in RangesIn(words)}
      kept    == Picked(words, DOMAIN words \ inRange)
      ink     == {i \in DOMAIN kept : kept[i] \notin {"|", ",", ";", "-"}}
  IN IF ink = {} THEN <<>> ELSE SubSeq(kept, Min(ink), Max(ink))

\* extract_dates: exactly one range, or nothing is known.
ExtractDates(words) ==
  IF Cardinality(RangesIn(words)) # 1 THEN [start |-> NoDate, end |-> NoDate, valid |-> FALSE]
  ELSE LET at    == CHOOSE i \in RangesIn(words) : TRUE
           start == ParseDate(words[at])
           end   == ParseDate(words[at + 2])
       IN [start |-> start, end |-> end,
           valid |-> start.unit \notin {"none", "present"} /\ end.unit # "none"]

Unknown == -1

\* The months [lo, hi) of a period: the month of `now` is not over yet.
Interval(p, now) ==
  LET hi == CASE p.end.unit = "present" -> now
              [] p.end.unit = "month" /\ p.end.at < now /\ p.end.at >= p.start.at -> p.end.at + 1
              [] OTHER -> Unknown
  IN IF p.start.unit = "month" /\ hi # Unknown /\ p.start.at <= now /\ hi >= p.start.at
     THEN {[lo |-> p.start.at, hi |-> hi]} ELSE {}

\* Of two equal intervals the one that is listed first comes first.
Earlier(spans, a, b) ==
  \/ spans[a].lo < spans[b].lo
  \/ spans[a].lo = spans[b].lo /\ spans[a].hi < spans[b].hi
  \/ spans[a] = spans[b] /\ a < b

\* A mutant of Extend: a period inside the run ends it early.
ExtendBackwards(acc, i) ==
  IF i.lo <= acc.right THEN [acc EXCEPT !.right = i.hi]
  ELSE [total |-> acc.total + acc.right - acc.left, left |-> i.lo, right |-> i.hi]

\* One interval more in the run that is being measured.
Extend(acc, i) ==
  IF i.lo <= acc.right THEN [acc EXCEPT !.right = Max({@, i.hi})]
  ELSE [total |-> acc.total + acc.right - acc.left, left |-> i.lo, right |-> i.hi]

\* union_years, in months: unknown as soon as one period is.
UnionMonths(periods, now) ==
  IF periods = <<>> \/ \E i \in DOMAIN periods : Interval(periods[i], now) = {} THEN Unknown
  ELSE LET spans == [i \in DOMAIN periods |-> CHOOSE v \in Interval(periods[i], now) : TRUE]
           order == InOrder(DOMAIN spans, LAMBDA a, b : Earlier(spans, a, b))
           acc   == FoldLeft(LAMBDA run, i : Extend(run, spans[i]),
                             [total |-> 0, left |-> spans[order[1]].lo, right |-> spans[order[1]].hi],
                             Tail(order))
       IN acc.total + acc.right - acc.left
==============================================================================
