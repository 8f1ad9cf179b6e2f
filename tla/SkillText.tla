------------------------------ MODULE SkillText ------------------------------
(***************************************************************************)
(* Skills in a text: the alias registry, the assertion of a mention, and   *)
(* the requirements of a posting (nlp/skills.py, nlp/processor.py,         *)
(* modules/jobs/normalize.py, modules/jobs/html_text.py).  Both sides of a *)
(* match go through FindSkills.                                            *)
(***************************************************************************)
EXTENDS DocumentText

CONSTANTS Aliases,    \* records [words, name]: the registry, one per variant; a
                      \* name is a sequence of words too
          SkillNames  \* the canonical names, in alphabetical order

\* No alias is empty or of two skills or the name of another skill, and every
\* skill has a place.
ASSUME AliasesAssumption ==
  /\ IsFiniteSet(Aliases) /\ Aliases \subseteq [words : Texts \ {<<>>}, name : Texts]
  /\ SkillNames \in Seq(Texts)
  /\ \A a \in Aliases : \E i \in DOMAIN SkillNames : SkillNames[i] = a.name
  /\ \A a, b \in Aliases : a.words = b.words => a = b
  /\ \A a, b \in Aliases : a.words = b.name => a.name = b.name

Stops     == {".", "!", "?", ";", "nl"}
Turns     == {"but", "however", "yet"}
Negations == {"no", "not", "never", "without", "lack", "lacks", "lacking", "don't"}
Hedges    == {"learning", "beginner", "basic", "basics", "introductory", "aspiring", "exposure"}

\* \s+ between two words matches a tab too.
Untabbed(text) == Filtered(text, LAMBDA t : t # "tab")

\* The words of the clause that end at a position, without "not only/just".
ClauseBefore(text, at) ==
  LET head   == SubSeq(text, 1, at)
      cuts   == {i \in 1..at : head[i] \in Stops \cup Turns}
      clause == Untabbed(SubSeq(head, IF cuts = {} THEN 1 ELSE Max(cuts) + 1, at))
      praise == {i \in 1..(Len(clause) - 1) :
                   clause[i] = "not" /\ clause[i + 1] \in {"only", "just"}}
  IN {clause[i] : i \in {k \in DOMAIN clause : k \notin praise /\ k - 1 \notin praise}}

\* "is/are not required|needed|known" or "unnecessary" right behind a span.
DeniedAfter(text, at) ==
  LET rest == Untabbed(SubSeq(text, at + 1, Len(text)))
      skip == IF rest # <<>> /\ rest[1] \in {"is", "are"} THEN Tail(rest) ELSE rest
  IN \/ Len(skip) >= 2 /\ skip[1] = "not" /\ skip[2] \in {"required", "needed", "known"}
     \/ skip # <<>> /\ skip[1] = "unnecessary"

\* _assertion: read off the source, whose line breaks end a clause.
Assertion(text, start, end) ==
  LET before == ClauseBefore(text, start)
  IN CASE before \cap Negations # {} \/ DeniedAfter(text, end) -> "negated"
       [] OTHER -> IF before \cap Hedges # {} THEN "uncertain" ELSE "mentioned"

\* Every place where the words of an alias stand.
Candidates(words) ==
  {[start |-> p[1], end |-> p[1] + Len(p[2].words), name |-> p[2].name] :
     p \in {q \in (0..Len(words)) \X Aliases :
              /\ q[1] + Len(q[2].words) <= Len(words)
              /\ Slice(words, q[1], q[1] + Len(q[2].words)) = q[2].words}}

\* The candidates in order, the longest first at one start.
Sooner(a, b) == a.start < b.start \/ (a.start = b.start /\ a.end > b.end)

Chosen(words) ==
  FoldLeft(LAMBDA taken, c :
             IF taken # <<>> /\ c.start < Last(taken).end THEN taken ELSE Append(taken, c),
           <<>>, InOrder(Candidates(words), Sooner))

FindSkills(source, normalized) ==
  LET found == Chosen(normalized.text)
      span(c) == SourceSpan(normalized, c.start, c.end)
  IN [i \in DOMAIN found |->
       [name |-> found[i].name, start |-> found[i].start, end |-> found[i].end,
        assertion |-> Assertion(source.text, span(found[i]).start, span(found[i]).end),
        evidence |-> EvidenceFor(source, normalized, found[i].start, found[i].end)]]

\* SharedTextProcessor.analyze; language is what the caller declares.
Analysed(source, language, document, version) ==
  LET normalized == Normalized(source.text)
      error == FirstFault(<<
        <<language = "none", "NLP_LANGUAGE_REQUIRED">>,
        <<language # "en", "NLP_UNSUPPORTED_LANGUAGE">>,
        <<SourceError(source, document, version) # "", SourceError(source, document, version)>>,
        <<normalized.text = <<>>, "NLP_EMPTY_TEXT">> >>)
  IN [error |-> error,
      normalized |-> normalized,
      skills |-> IF error = "" THEN FindSkills(source, normalized) ELSE <<>>]

------------------------------------------------------------------------------
(* A posting: a page of nodes and of structured-data blocks *)

\* The organisation is a name, or a record that has one (nested).
Items == [type : STRING, title : Texts, org : Texts, nested : BOOLEAN, description : Texts]
Pages == [nodes : Seq([tag : STRING, text : Texts]),
          blocks : Seq([broken : BOOLEAN, items : Seq(Items)])]

SkipTags == {"script", "style", "noscript", "template"}

\* The text of the nodes in the title, or of those outside it.  A skipped tag
\* hides its text in both, and a paragraph begins a line.
TextOf(nodes, inTitle) ==
  LET shown == Filtered(nodes, LAMBDA n : n.tag \notin SkipTags /\ (n.tag = "title") = inTitle)
  IN Strip(FlattenSeq([i \in DOMAIN shown |->
       IF shown[i].tag = "p" THEN <<"nl">> \o shown[i].text ELSE shown[i].text]))

VisibleText(page) == TextOf(page.nodes, FALSE)
TitleTag(page)    == TextOf(page.nodes, TRUE)

\* The nodes of a block of structured data: itself and its graph, if it parses.
Flattened(block) == IF block.broken THEN <<>> ELSE block.items

Posted(page) ==
  Filtered(FlattenSeq([b \in DOMAIN page.blocks |-> Flattened(page.blocks[b])]),
            LAMBDA item : item.type = "JobPosting")

NoText == <<"(no description)">>

\* The title tag is split at its first separator.
Guessed(title) ==
  LET cuts == {i \in 2..(Len(title) - 1) : title[i] \in {"at", "|"}}
  IN CASE title = <<>> -> [title |-> <<"untitled">>, company |-> <<"unknown">>]
       [] cuts # {}    -> [title |-> SubSeq(title, 1, Min(cuts) - 1),
                           company |-> SubSeq(title, Min(cuts) + 1, Len(title))]
       [] OTHER        -> [title |-> title, company |-> <<"unknown">>]

OrElse(text, other) == IF text = <<>> THEN other ELSE text

\* The name in a record is looked at before it is stripped, so it may come out empty.
Company(item) ==
  IF item.nested /\ item.org # <<>> THEN Strip(item.org)
  ELSE OrElse(Strip(item.org), <<"unknown">>)

\* normalize_posting up to the requirements.
Normalised(page) ==
  LET ld    == Posted(page)
      head  == IF ld = <<>> THEN Guessed(TitleTag(page))
               ELSE [title |-> OrElse(Strip(ld[1].title), <<"untitled">>),
                     company |-> Company(ld[1])]
      own   == IF ld = <<>> THEN <<>> ELSE Strip(ld[1].description)
  IN [title |-> head.title, company |-> head.company,
      description |-> OrElse(OrElse(own, VisibleText(page)), NoText)]

Rank(assertion) == IF assertion = "mentioned" THEN 2 ELSE 1

\* _extract_requirements: the best assertion of a skill decides, with the
\* evidence of every mention that is as good; negated mentions do not count.
Requirements(description, job) ==
  LET source   == [text |-> description,
                   evidence |-> <<[document |-> job, version |-> 1, chunk |-> 1, start |-> 0,
                                   end |-> Len(description), excerpt |-> description]>>]
      mentions == Filtered(FindSkills(source, Normalized(description)),
                            LAMBDA m : m.assertion # "negated")
      named    == {mentions[i].name : i \in DOMAIN mentions}
      best(n)  == Max({Rank(mentions[i].assertion) :
                         i \in {k \in DOMAIN mentions : mentions[k].name = n}})
      proof(n) == Filtered(mentions, LAMBDA m : m.name = n /\ Rank(m.assertion) = best(n))
      order    == Filtered(SkillNames, LAMBDA n : n \in named)
  IN [i \in DOMAIN order |->
       [skill |-> order[i], required |-> best(order[i]) = 2,
        evidence |-> FlattenSeq([k \in DOMAIN proof(order[i]) |-> proof(order[i])[k].evidence])]]
==============================================================================
