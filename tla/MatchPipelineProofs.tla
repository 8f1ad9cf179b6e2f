------------------------- MODULE MatchPipelineProofs -------------------------
(***************************************************************************)
(* Proofs about MatchPipeline, and with it about SkillText, ResumeLines,   *)
(* ResumeProfile and PairScore, for all documents, postings, registries,   *)
(* calendars, backends and limits that the assumptions admit.              *)
(***************************************************************************)
EXTENDS MatchPipeline, DocumentTextProofs

-----------------------------------------------------------------------------
(* Texts of postings *)

\* The text of a page, in the title or outside it.
LEMMA TextOfType ==
  ASSUME NEW nodes \in Seq([tag : STRING, text : Texts]), NEW inTitle \in BOOLEAN
  PROVE  TextOf(nodes, inTitle) \in Texts
<1> DEFINE places == {i \in DOMAIN nodes : nodes[i].tag \notin SkipTags /\ (nodes[i].tag = "title") = inTitle}
           shown == Picked(nodes, places)
           parts == [i \in DOMAIN shown |->
                       IF shown[i].tag = "p" THEN <<"nl">> \o shown[i].text ELSE shown[i].text]
<1>1. shown \in Seq([tag : STRING, text : Texts])
  <2> HIDE DEF places
  <2> QED
    BY PickedMembers
<1>2. parts \in Seq(Texts)
  <2> HIDE DEF shown
  <2>1. Len(shown) \in Nat /\ DOMAIN shown = 1..Len(shown)
    BY <1>1
  <2>2. \A i \in 1..Len(shown) : shown[i] \in [tag : STRING, text : Texts]
    BY <1>1, ElementOfSeq
  <2>3. \A i \in 1..Len(shown) : shown[i].text \in Texts
    BY <2>2
  <2>4. \A i \in 1..Len(shown) : <<"nl">> \o shown[i].text \in Texts
    BY <2>3, WrittenTexts, ConcatProperties DEF Texts
  <2> QED
    BY <2>1, <2>3, <2>4
<1>3. FlattenSeq(parts) \in Texts
  <2> HIDE DEF parts
  <2> QED
    BY <1>2, FlattenType DEF Texts
<1>4. TextOf(nodes, inTitle) = Strip(FlattenSeq(parts))
  BY DEF TextOf, Filtered
<1> QED
  BY <1>3, <1>4, StripType

\* The JobPosting items of a page are items (html_text.py).
LEMMA PostedType ==
  ASSUME NEW page \in Pages
  PROVE  Posted(page) \in Seq(Items)
<1> DEFINE all == [b \in DOMAIN page.blocks |-> Flattened(page.blocks[b])]
<1>1. all \in Seq(Seq(Items))
  <2>1. page.blocks \in Seq([broken : BOOLEAN, items : Seq(Items)])
    BY DEF Pages
  <2>2. \A b \in 1..Len(page.blocks) : page.blocks[b] \in [broken : BOOLEAN, items : Seq(Items)]
    BY <2>1, ElementOfSeq
  <2>3. \A b \in 1..Len(page.blocks) : page.blocks[b].items \in Seq(Items)
    BY <2>2
  <2>4. \A b \in 1..Len(page.blocks) : Flattened(page.blocks[b]) \in Seq(Items)
    BY <2>3 DEF Flattened
  <2>5. Len(page.blocks) \in Nat /\ DOMAIN page.blocks = 1..Len(page.blocks)
    BY <2>1
  <2> QED
    BY <2>4, <2>5
<1>2. FlattenSeq(all) \in Seq(Items)
  BY <1>1, FlattenType
<1> DEFINE flat == FlattenSeq(all)
<1>3. Posted(page) = Picked(flat, {i \in DOMAIN flat : flat[i].type = "JobPosting"})
  BY DEF Posted, Filtered
<1> HIDE DEF flat
<1> QED
  BY <1>2, <1>3, PickedMembers DEF flat

\* The title and the company read off a title tag are texts.
LEMMA GuessedType ==
  ASSUME NEW title \in Texts
  PROVE  Guessed(title).title \in Texts /\ Guessed(title).company \in Texts
<1> DEFINE cuts == {i \in 2..(Len(title) - 1) : title[i] \in {"at", "|"}}
<1>1. <<"untitled">> \in Texts /\ <<"unknown">> \in Texts
  BY WrittenTexts
<1>2. Len(title) \in Nat
  BY DEF Texts
<1>3. CASE cuts # {}
  <2>1. cuts \in SUBSET (1..Len(title))
    BY <1>2
  <2>2. Min(cuts) \in cuts
    <3> HIDE DEF cuts
    <3> QED
      BY <1>2, <1>3, <2>1, IntervalMinMax
  <2>3. Min(cuts) \in 2..(Len(title) - 1)
    BY <2>2
  <2>4. 1 \in Nat \ {0} /\ Min(cuts) - 1 \in 0..Len(title) /\ Min(cuts) + 1 \in Nat \ {0} /\ Len(title) \in 0..Len(title)
    <3> HIDE DEF cuts
    <3> QED
      BY <1>2, <2>3
  <2>5. SubSeq(title, 1, Min(cuts) - 1) \in Texts /\ SubSeq(title, Min(cuts) + 1, Len(title)) \in Texts
    <3> HIDE DEF cuts
    <3> QED
      BY <2>4, SubSeqType DEF Texts
  <2> QED
    BY <1>1, <1>3, <2>5 DEF Guessed
<1>4. CASE cuts = {}
  BY <1>1, <1>4 DEF Guessed
<1> QED
  BY <1>3, <1>4

\* Title, company and description of a normalised posting are texts (normalize.py).
LEMMA NormalisedType ==
  ASSUME NEW page \in Pages
  PROVE  /\ Normalised(page).title \in Texts /\ Normalised(page).company \in Texts
         /\ Normalised(page).description \in Texts
<1>1. Posted(page) \in Seq(Items)
  BY PostedType
<1>2. TitleTag(page) \in Texts /\ VisibleText(page) \in Texts
  BY TextOfType DEF TitleTag, VisibleText, Pages
<1>3. <<"untitled">> \in Texts /\ <<"unknown">> \in Texts /\ NoText \in Texts /\ <<>> \in Texts
  BY WrittenTexts DEF NoText
<1>4. \A s, t \in Texts : OrElse(s, t) \in Texts
  BY DEF OrElse
<1>5. CASE Posted(page) = <<>>
  <2>1. /\ Normalised(page).title = Guessed(TitleTag(page)).title
        /\ Normalised(page).company = Guessed(TitleTag(page)).company
        /\ Normalised(page).description = OrElse(OrElse(<<>>, VisibleText(page)), NoText)
    BY <1>5 DEF Normalised
  <2> QED
    BY <1>2, <1>3, <1>4, <2>1, GuessedType
<1>6. CASE Posted(page) # <<>>
  <2>1. Posted(page)[1] \in Items
    BY <1>1, <1>6
  <2>2. /\ Normalised(page).title = OrElse(Strip(Posted(page)[1].title), <<"untitled">>)
        /\ Normalised(page).company = Company(Posted(page)[1])
        /\ Normalised(page).description =
             OrElse(OrElse(Strip(Posted(page)[1].description), VisibleText(page)), NoText)
    BY <1>6 DEF Normalised
  <2>3. /\ Strip(Posted(page)[1].title) \in Texts /\ Strip(Posted(page)[1].org) \in Texts
        /\ Strip(Posted(page)[1].description) \in Texts
    BY <2>1, StripType DEF Items
  <2>4. Company(Posted(page)[1]) \in Texts
    BY <1>3, <1>4, <2>3 DEF Company
  <2> QED
    BY <1>2, <1>3, <1>4, <2>2, <2>3, <2>4
<1> QED
  BY <1>5, <1>6

-----------------------------------------------------------------------------
(* Numbers of a score *)

\* Division with a remainder.
LEMMA DivMod ==
  ASSUME NEW a \in Nat, NEW b \in Nat \ {0}
  PROVE  a \div b \in Nat /\ a % b \in 0..(b - 1) /\ a = b * (a \div b) + (a % b)
<1>1. a % b \in 0..(b - 1)
  OBVIOUS
<1>2. a = b * (a \div b) + (a % b)
  OBVIOUS
<1>3. a \div b \in Int
  OBVIOUS
<1>4. a \div b >= 0
  OBVIOUS
<1> QED
  BY <1>1, <1>2, <1>3, <1>4

\* Scaling keeps an order.
LEMMA Scaled ==
  ASSUME NEW x \in Int, NEW y \in Int, NEW k \in Nat
  PROVE  /\ x <= y => k * x <= k * y
         /\ k # 0 /\ x < y => k * x < k * y
         /\ k # 0 /\ k * x <= k * y => x <= y
         /\ k # 0 /\ k * x < k * y => x < y
  OBVIOUS

\* A fraction that is below another one is not rounded to more.
LEMMA RoundedIsMonotone ==
  ASSUME NEW a \in Nat, NEW b \in Nat \ {0}, NEW c \in Nat, NEW d \in Nat \ {0}, a * d < c * b
  PROVE  Rounded(a, b) <= Rounded(c, d)
<1> DEFINE p == a \div b
           r == a % b
           q == c \div d
           s == c % d
<1>1. p \in Nat /\ r \in 0..(b - 1) /\ a = b * p + r
  BY DivMod
<1>2. q \in Nat /\ s \in 0..(d - 1) /\ c = d * q + s
  BY DivMod
<1> HIDE DEF p, q, r, s
<1>3. (b * p + r) * d < (d * q + s) * b
  BY <1>1, <1>2
<1>4. (b * d) * p + r * d < (b * d) * q + s * b
  BY <1>1, <1>2, <1>3
<1>5. s * b < d * b
  BY <1>1, <1>2
<1>6. r * d \in Nat /\ s * b \in Nat /\ b * d \in Nat \ {0}
  BY <1>1, <1>2
<1>7. p <= q
  <2>1. SUFFICES ASSUME q + 1 <= p PROVE FALSE
    BY <1>1, <1>2
  <2>2. (b * d) * (q + 1) <= (b * d) * p
    BY <1>1, <1>2, <1>6, <2>1
  <2>3. (b * d) * (q + 1) = (b * d) * q + b * d
    BY <1>2, <1>6
  <2>4. (b * d) * p \in Nat /\ (b * d) * q \in Nat /\ d * b = b * d
    BY <1>1, <1>2, <1>6
  <2> QED
    BY <1>4, <1>5, <1>6, <2>2, <2>3, <2>4
<1>8. Rounded(a, b) \in {p, p + 1} /\ Rounded(c, d) \in {q, q + 1}
  BY DEF Rounded, p, q
<1>9. CASE p < q
  BY <1>1, <1>2, <1>8, <1>9
<1>10. CASE p = q
  <2>1. r * d < s * b
    <3>1. (b * d) * p = (b * d) * q /\ (b * d) * q \in Nat
      BY <1>2, <1>6, <1>10
    <3> QED
      BY <1>4, <1>6, <3>1
  <2>2. Rounded(a, b) = IF 2 * r < b \/ (2 * r = b /\ p % 2 = 0) THEN p ELSE p + 1
    BY DEF Rounded, p, r
  <2>3. Rounded(c, d) = IF 2 * s < d \/ (2 * s = d /\ q % 2 = 0) THEN q ELSE q + 1
    BY DEF Rounded, q, s
  <2>4. CASE 2 * r < b
    BY <1>1, <1>2, <1>8, <1>10, <2>2, <2>4
  <2>5. CASE ~(2 * r < b)
    <3>1. b <= 2 * r
      BY <1>1, <2>5
    <3>2. d * b <= d * (2 * r)
      BY <1>1, <3>1, Scaled
    <3>3. d * (2 * r) = 2 * (r * d) /\ d * b = b * d
      BY <1>1
    <3>4. b * d < 2 * (s * b)
      BY <1>6, <2>1, <3>2, <3>3
    <3>5. 2 * (s * b) = b * (2 * s)
      BY <1>2
    <3>6. d < 2 * s
      BY <1>2, <3>4, <3>5, Scaled
    <3>7. Rounded(c, d) = q + 1
      BY <1>2, <2>3, <3>6
    <3> QED
      BY <1>1, <1>2, <1>8, <1>10, <3>7
  <2> QED
    BY <2>4, <2>5
<1> QED
  BY <1>1, <1>2, <1>7, <1>9, <1>10

\* Tenths of a percent, as a fraction of at most 1000.
Share(a, b) == a \in Nat /\ b \in Nat \ {0} /\ a <= 1000 * b

\* A fraction of a thousand at most is a score.
LEMMA RoundedIsBounded ==
  ASSUME NEW a, NEW b, Share(a, b)
  PROVE  Rounded(a, b) \in 0..1000
<1> DEFINE p == a \div b
           r == a % b
<1>1. a \in Nat /\ b \in Nat \ {0} /\ a <= 1000 * b
  BY DEF Share
<1>2. p \in Nat /\ r \in 0..(b - 1) /\ a = b * p + r
  BY <1>1, DivMod
<1>3. Rounded(a, b) = IF 2 * r < b \/ (2 * r = b /\ p % 2 = 0) THEN p ELSE p + 1
  BY DEF Rounded
<1> HIDE DEF p, r
<1>4. b * p + r <= b * 1000 /\ b * p \in Nat
  BY <1>1, <1>2
<1>5. p <= 1000
  <2>1. b * p <= b * 1000
    BY <1>1, <1>2, <1>4
  <2> QED
    BY <1>1, <1>2, <2>1, Scaled
<1>6. p = 1000 => r = 0
  BY <1>1, <1>2, <1>4
<1> QED
  BY <1>1, <1>2, <1>3, <1>5, <1>6

\* The semantic part of a score.
LEMMA ClampType ==
  ASSUME NEW s \in Int
  PROVE  Clamp(s) \in 0..1000
<1>1. Min({1000, s}) \in {1000, s} /\ \A y \in {1000, s} : Min({1000, s}) <= y
  <2>1. \E x \in {1000, s} : \A y \in {1000, s} : x <= y
    OBVIOUS
  <2> QED
    BY <2>1 DEF Min
<1> DEFINE m == Min({1000, s})
<1>2. m \in Int /\ m <= 1000
  BY <1>1
<1> HIDE DEF m
<1>3. Max({0, m}) \in {0, m} /\ \A y \in {0, m} : Max({0, m}) >= y
  <2>1. \E x \in {0, m} : \A y \in {0, m} : x >= y
    BY <1>2
  <2> QED
    BY <2>1 DEF Max
<1> DEFINE c == Max({0, m})
<1>4. Clamp(s) = c
  BY DEF Clamp, m
<1>5. c \in {0, m} /\ c >= 0
  BY <1>3
<1> HIDE DEF c
<1> QED
  BY <1>2, <1>4, <1>5

\* The fraction that is rounded is at most a thousand.
LEMMA RawIsBounded ==
  ASSUME NEW s \in Int, NEW V, NEW states \in Seq(V)
  PROVE  /\ Raw(s, states).num \in Nat /\ Raw(s, states).den \in Nat \ {0}
         /\ Raw(s, states).num <= 1000 * Raw(s, states).den
<1> DEFINE n == Len(states)
           P == {i \in DOMAIN states : states[i] = "present"}
           Q == {i \in DOMAIN states : states[i] = "partial"}
<1>1. Clamp(s) \in 0..1000
  BY ClampType
<1>2. CASE states = <<>>
  <2>1. PICK c \in 0..1000 : c = Clamp(s)
    BY <1>1
  <2> DEFINE f == Raw(s, states)
  <2>2. f = [num |-> c, den |-> 1]
    BY <1>2, <2>1 DEF Raw
  <2> HIDE DEF f
  <2>3. f.num \in Nat /\ f.den \in Nat \ {0} /\ f.num <= 1000 * f.den
    BY <2>2
  <2> QED
    BY <2>3 DEF f
<1>3. CASE states # <<>>
  <2>1. n \in Nat \ {0} /\ DOMAIN states = 1..n
    BY <1>3
  <2>2. IsFiniteSet(1..n) /\ Cardinality(1..n) = n
    BY <2>1, FS_Interval
  <2>3. IsFiniteSet(P) /\ IsFiniteSet(Q) /\ Cardinality(P) \in Nat /\ Cardinality(Q) \in Nat
    <3>1. P \in SUBSET (1..n) /\ Q \in SUBSET (1..n)
      BY <2>1
    <3> HIDE DEF P, Q
    <3> QED
      BY <2>2, <3>1, FS_Subset, FS_CardinalityType
  <2>4. Cardinality(P) + Cardinality(Q) <= n
    <3>1. P \cap Q = {} /\ P \cup Q \in SUBSET (1..n)
      BY <2>1
    <3> HIDE DEF P, Q
    <3>2. Cardinality(P \cup Q) = Cardinality(P) + Cardinality(Q) - Cardinality(P \cap Q)
      BY <2>3, FS_Union
    <3>3. Cardinality(P \cap Q) = 0
      BY <3>1, FS_EmptySet
    <3>4. Cardinality(P \cup Q) <= n
      BY <2>2, <3>1, FS_Subset
    <3> QED
      BY <2>3, <3>2, <3>3, <3>4
  <2>5. Credits(states) = 2 * Cardinality(P) + Cardinality(Q)
    BY DEF Credits
  <2> HIDE DEF P, Q, n
  <2>6. Credits(states) \in Nat /\ Credits(states) <= 2 * n
    BY <2>1, <2>3, <2>4, <2>5
  <2>7. Clamp(s) * n \in Nat /\ Clamp(s) * n <= 1000 * n /\ 7 * Clamp(s) * n = 7 * (Clamp(s) * n)
    <3>1. ASSUME NEW c \in 0..1000
          PROVE  c * n \in Nat /\ c * n <= 1000 * n /\ 7 * c * n = 7 * (c * n)
      BY <2>1
    <3> QED
      BY <1>1, <3>1
  <2>8. Raw(s, states) = [num |-> 7 * Clamp(s) * n + 1500 * Credits(states), den |-> 10 * n]
    BY <1>3 DEF Raw, n
  <2> QED
    BY <2>1, <2>6, <2>7, <2>8
<1> QED
  BY <1>2, <1>3

-----------------------------------------------------------------------------
(* Lists of postings *)

\* Results of different jobs, with their scores.
Scored(scored) ==
  /\ IsFiniteSet(scored)
  /\ \A r \in scored : r.job \in Int /\ r.score \in Int
  /\ \A r, s \in scored : r.job = s.job => r = s

\* A list of them by Above.
RankedList(list, scored) ==
  /\ list \in Seq(scored)
  /\ \A i, k \in 1..Len(list) : i < k => Above(list[i], list[k])
  /\ \A r \in scored : \E i \in 1..Len(list) : list[i] = r

\* Ranked enumerates a finite set of scored jobs from the best down, by Above.
LEMMA RankedIsRanked ==
  ASSUME NEW scored, Scored(scored)
  PROVE  RankedList(Ranked(scored), scored)
<1> DEFINE R == {p \in scored \X scored : Above(p[1], p[2])}
           n == Cardinality(scored)
           list == Ranked(scored)
<1>1. n \in Nat
  BY FS_CardinalityType DEF Scored
<1>2. \A x, y \in scored : <<x, y>> \in R <=> Above(x, y)
  OBVIOUS
<1> HIDE DEF R
<1>3. Orders(R, scored)
  <2>1. \A x \in scored : ~Above(x, x)
    BY DEF Scored, Above
  <2>2. \A x, y, z \in scored : Above(x, y) /\ Above(y, z) => Above(x, z)
    BY DEF Scored, Above
  <2>3. \A x, y \in scored : x = y \/ Above(x, y) \/ Above(y, x)
    BY DEF Scored, Above
  <2> QED
    BY <1>2, <2>1, <2>2, <2>3 DEF Orders
<1>4. \A x \in scored : {y \in scored : Above(y, x)} = Below(R, scored, x)
  BY <1>2 DEF Below
<1>5. list = [k \in 1..n |-> CHOOSE x \in scored : Cardinality({y \in scored : Above(y, x)}) = k - 1]
  BY DEF Ranked, InOrder
<1>6. ASSUME NEW k \in 1..n, \E x \in scored : Cardinality(Below(R, scored, x)) = k - 1
      PROVE  list[k] \in scored /\ Cardinality(Below(R, scored, list[k])) = k - 1
  <2>1. \E x \in scored : Cardinality({y \in scored : Above(y, x)}) = k - 1
    BY <1>4, <1>6
  <2>2. list[k] = CHOOSE x \in scored : Cardinality({y \in scored : Above(y, x)}) = k - 1
    BY <1>5
  <2>3. list[k] \in scored /\ Cardinality({y \in scored : Above(y, list[k])}) = k - 1
    BY <2>1, <2>2
  <2> QED
    BY <1>4, <2>3
<1>7. list = [k \in 1..n |-> list[k]]
  BY <1>5
<1> HIDE DEF list
<1>8. Enumerates(list, scored, R)
  BY <1>3, <1>6, <1>7, RanksGiveOrder DEF Scored
<1>9. list \in Seq(scored) /\ Len(list) = n
  BY <1>1, <1>8 DEF Enumerates
<1>10. \A i, k \in 1..n : i < k => Above(list[i], list[k])
  BY <1>2, <1>8 DEF Enumerates
<1>11. RankedList(list, scored)
  BY <1>8, <1>9, <1>10 DEF RankedList, Enumerates
<1> QED
  BY <1>11 DEF list

\* Scores given by a function of the jobs.
LEMMA ScoredByFunction ==
  ASSUME NEW J, IsFiniteSet(J), J \subseteq Int, NEW f, \A j \in J : f[j] \in Int
  PROVE  Scored({[job |-> j, score |-> f[j]] : j \in J})
<1> DEFINE S == {[job |-> j, score |-> f[j]] : j \in J}
           g == [j \in J |-> [job |-> j, score |-> f[j]]]
<1>1. g \in Surjection(J, S)
  BY DEF Surjection
<1>2. IsFiniteSet(S)
  <2> HIDE DEF g, S
  <2> QED
    BY <1>1, FS_Surjection
<1>3. ASSUME NEW r \in S PROVE \E j \in J : r.job = j /\ r.score = f[j]
  BY <1>3
<1> HIDE DEF S
<1>4. \A r \in S : r.job \in Int /\ r.score \in Int
  BY <1>3
<1>5. \A r, s \in S : r.job = s.job => r = s
  <2> SUFFICES ASSUME NEW r \in S, NEW s \in S, r.job = s.job PROVE r = s
    OBVIOUS
  <2>1. PICK j \in J, k \in J : r = [job |-> j, score |-> f[j]] /\ s = [job |-> k, score |-> f[k]]
    BY DEF S
  <2> QED
    BY <2>1
<1>6. Scored(S)
  BY <1>2, <1>4, <1>5 DEF Scored
<1> QED
  BY <1>6 DEF S

\* A posting's requirements are a list, each of a skill of the registry.
RequirementList(reqs) == IsList(reqs) /\ \A i \in DOMAIN reqs : reqs[i].skill \in Texts

\* The requirements of a posting are a sequence of skills with names.
LEMMA RequirementsAreListed ==
  ASSUME NEW description, NEW job
  PROVE  RequirementList(Requirements(description, job))
<1> DEFINE reqs == Requirements(description, job)
<1>1. \E places : LET order == Picked(SkillNames, places)
                  IN /\ DOMAIN reqs = DOMAIN order
                     /\ reqs = [i \in DOMAIN order |-> reqs[i]]
                     /\ \A i \in DOMAIN order : reqs[i].skill = order[i]
  BY DEF Requirements, Filtered
<1> HIDE DEF reqs
<1>2. PICK places : LET order == Picked(SkillNames, places)
                  IN /\ DOMAIN reqs = DOMAIN order
                     /\ reqs = [i \in DOMAIN order |-> reqs[i]]
                     /\ \A i \in DOMAIN order : reqs[i].skill = order[i]
  BY <1>1
<1> DEFINE order == Picked(SkillNames, places)
<1>3. order \in Seq(Texts)
  BY PickedMembers, AliasesAssumption
<1>4. /\ DOMAIN reqs = DOMAIN order /\ reqs = [i \in DOMAIN order |-> reqs[i]]
      /\ \A i \in DOMAIN order : reqs[i].skill = order[i]
  BY <1>2
<1> HIDE DEF order
<1>5. Len(order) \in Nat /\ DOMAIN order = 1..Len(order) /\ \A i \in 1..Len(order) : order[i] \in Texts
  BY <1>3, ElementOfSeq
<1>6. IsList(reqs)
  BY <1>4, <1>5, ListMade
<1>7. RequirementList(reqs)
  BY <1>4, <1>5, <1>6 DEF RequirementList
<1> QED
  BY <1>7 DEF reqs

\* What PairResult does to a score.
LEMMA PairResultIsBounded ==
  ASSUME NEW profile, NEW summary, NEW job, NEW reqs, IsList(reqs), NEW s \in Int
  PROVE  LET r == PairResult(profile, summary, job, reqs, s)
         IN /\ r.raw.num \in Nat /\ r.raw.den \in Nat \ {0} /\ r.raw.num <= 1000 * r.raw.den
            /\ r.score = Rounded(r.raw.num, r.raw.den)
<1> DEFINE distinct == DistinctRequirements(reqs)
           compared == Compared(profile, summary, reqs)
           required == Picked(compared, {i \in DOMAIN compared : compared[i].required})
           states == [i \in DOMAIN required |-> required[i].state]
           raw == Raw(s, states)
           r == PairResult(profile, summary, job, reqs, s)
<1>1. IsList(distinct)
  <2> DEFINE key(i) == CanonicalKey(reqs[i].skill)
             places == {i \in DOMAIN reqs : \A k \in 1..(i - 1) : key(k) # key(i)}
             t == [i \in DOMAIN reqs |->
                     [reqs[i] EXCEPT !.required =
                        \E k \in DOMAIN reqs : key(k) = key(i) /\ reqs[k].required]]
  <2>1. distinct = Picked(t, places)
    BY DEF DistinctRequirements
  <2>2. t = [i \in DOMAIN reqs |-> t[i]]
    OBVIOUS
  <2> HIDE DEF t, places
  <2>3. IsList(t)
    BY <2>2, MappedList
  <2> HIDE DEF distinct
  <2> QED
    BY <2>1, <2>3, PickedList
<1>2. compared = [i \in DOMAIN distinct |-> compared[i]]
  BY DEF Compared
<1>3. IsList(compared)
  <2> HIDE DEF compared, distinct
  <2> QED
    BY <1>1, <1>2, MappedList
<1>4. IsList(required)
  <2> DEFINE places == {i \in DOMAIN compared : compared[i].required}
  <2> HIDE DEF compared, places
  <2>1. IsList(Picked(compared, places))
    BY <1>3, PickedList
  <2> QED
    BY <2>1 DEF places
<1>5. IsList(states)
  <2> HIDE DEF required
  <2>1. states = [i \in DOMAIN required |-> states[i]]
    OBVIOUS
  <2> HIDE DEF states
  <2> QED
    BY <1>4, <2>1, MappedList
<1>6. r.raw = raw /\ r.score = Rounded(raw.num, raw.den)
  BY DEF PairResult, ComputeScore, Filtered
<1> HIDE DEF states, r
<1>7. raw.num \in Nat /\ raw.den \in Nat \ {0} /\ raw.num <= 1000 * raw.den
  <2> DEFINE V == {states[i] : i \in DOMAIN states}
  <2>1. states \in Seq(V)
    BY <1>5 DEF IsList
  <2> HIDE DEF V
  <2> QED
    BY <2>1, RawIsBounded
<1> HIDE DEF raw
<1> QED
  BY <1>6, <1>7 DEF r

\* The scored rows that a job function f gives.
Entries(J, f) == {[job |-> j, score |-> f[j]] : j \in J}

\* In the first m of a ranking nobody is missing who belongs before one of them.
FairRows(rows, J, f) ==
  LET in == {rows[i].job : i \in DOMAIN rows}
  IN /\ \A i, k \in DOMAIN rows : i < k => Above(rows[i], rows[k])
     /\ \A a \in in, b \in J \ in : Above([job |-> a, score |-> f[a]], [job |-> b, score |-> f[b]])

\* A fair list whose rows have the scores of f.
FairPrefix(list, J, f) ==
  /\ IsList(list) /\ FairRows(list, J, f)
  /\ \A i \in DOMAIN list : list[i] \in Entries(J, f)

\* The first rows of a ranking are a fair list (retrieval.py cuts rankings at a pool or a limit).
LEMMA PrefixIsFair ==
  ASSUME NEW J, IsFiniteSet(J), J \subseteq Int, NEW f, \A j \in J : f[j] \in Int,
         NEW m \in Nat, m <= Len(Ranked(Entries(J, f)))
  PROVE  FairPrefix(SubSeq(Ranked(Entries(J, f)), 1, m), J, f)
<1> DEFINE S == Entries(J, f)
           r == Ranked(S)
           p == SubSeq(r, 1, m)
<1>1. RankedList(r, S)
  <2>1. Scored(S)
    BY ScoredByFunction DEF Entries
  <2> HIDE DEF S
  <2> QED
    BY <2>1, RankedIsRanked
<1>2. \A x \in S : x.job \in J /\ x = [job |-> x.job, score |-> f[x.job]]
  BY DEF Entries
<1>3. \A j \in J : [job |-> j, score |-> f[j]] \in S
  BY DEF Entries
<1> HIDE DEF S, r
<1>4. r \in Seq(S) /\ Len(r) \in Nat
  BY <1>1 DEF RankedList
<1>5. p \in Seq(S) /\ Len(p) = m /\ \A i \in 1..m : p[i] = r[i]
  <2>1. m \in 0..Len(r) /\ 1 \in Nat \ {0}
    BY <1>4 DEF r, S
  <2>2. /\ p \in Seq(S) /\ Len(p) = (IF 1 <= m THEN m - 1 + 1 ELSE 0)
        /\ \A i \in 1..Len(p) : p[i] = r[1 + i - 1]
    <3> HIDE DEF p
    <3> QED
      BY <1>4, <2>1, SubSeqType DEF p
  <2>3. \A i \in 1..m : 1 + i - 1 = i
    OBVIOUS
  <2> HIDE DEF p
  <2>4. Len(p) = m
    BY <2>2
  <2> QED
    BY <2>2, <2>3, <2>4
<1> HIDE DEF p
<1>6. DOMAIN p = 1..m /\ p = [i \in 1..m |-> p[i]]
  BY <1>5
<1>7. IsList(p)
  BY <1>6, ListMade
<1>8. \A i \in 1..m : p[i] \in S
  BY <1>5, ElementOfSeq
<1>9. m <= Len(r)
  BY DEF r, S
<1>10. \A i, k \in 1..m : i < k => Above(p[i], p[k])
  <2>1. \A i \in 1..m : i \in 1..Len(r)
    BY <1>4, <1>9
  <2>2. \A i, k \in 1..m : i < k => Above(r[i], r[k])
    BY <1>1, <2>1 DEF RankedList
  <2> QED
    BY <1>5, <2>2
<1>11. ASSUME NEW i \in 1..m, NEW b \in J, \A k \in 1..m : p[k].job # b
       PROVE  Above(p[i], [job |-> b, score |-> f[b]])
  <2>1. PICK k \in 1..Len(r) : r[k] = [job |-> b, score |-> f[b]]
    BY <1>1, <1>3 DEF RankedList
  <2>2. k \notin 1..m
    <3>1. r[k].job = b
      BY <2>1
    <3> QED
      BY <1>5, <1>11, <3>1
  <2>3. i \in 1..Len(r) /\ i < k
    BY <1>4, <1>9, <2>2
  <2>4. Above(r[i], r[k])
    BY <1>1, <2>3 DEF RankedList
  <2> QED
    BY <1>5, <2>1, <2>4
<1>12. FairPrefix(p, J, f)
  <2>1. \A i \in DOMAIN p : p[i] \in Entries(J, f)
    BY <1>6, <1>8 DEF S
  <2>2. ASSUME NEW a \in {p[i].job : i \in DOMAIN p}, NEW b \in J \ {p[i].job : i \in DOMAIN p}
        PROVE  Above([job |-> a, score |-> f[a]], [job |-> b, score |-> f[b]])
    <3>1. PICK i \in 1..m : a = p[i].job
      BY <1>6
    <3>2. \A k \in 1..m : p[k].job # b
      BY <1>6
    <3>3. p[i] = [job |-> a, score |-> f[a]]
      BY <1>2, <1>8, <3>1
    <3> QED
      BY <1>11, <3>2, <3>3
  <2> QED
    BY <1>6, <1>7, <1>10, <2>1, <2>2 DEF FairPrefix, FairRows
<1> QED
  BY <1>12 DEF p, r, S

\* What the vector search shows is fair among the comparable jobs (search/retrieval.py).
LEMMA FoundIsFair ==
  ASSUME NEW jobs, NEW comparable, IsFiniteSet(comparable), comparable \subseteq jobs, comparable \subseteq Int,
         NEW similarity, \A j \in comparable : similarity[j] \in Int, NEW limit \in Nat
  PROVE  FairPrefix(Found(jobs, comparable, similarity, limit), comparable, similarity)
<1> DEFINE r == Ranked(Entries(comparable, similarity))
           m == Min({limit, Len(r)})
<1>1. Scored(Entries(comparable, similarity))
  BY ScoredByFunction DEF Entries
<1>2. Len(r) \in Nat
  <2> DEFINE S == Entries(comparable, similarity)
  <2> HIDE DEF S
  <2>1. RankedList(Ranked(S), S)
    BY <1>1, RankedIsRanked DEF S
  <2>2. Len(Ranked(S)) \in Nat
    BY <2>1 DEF RankedList
  <2> QED
    BY <2>2 DEF S
<1>3. m \in Nat /\ m <= Len(r)
  <2> HIDE DEF r
  <2>1. PICK n \in Nat : n = Len(r)
    BY <1>2
  <2>2. m \in {limit, Len(r)} /\ m <= limit /\ m <= Len(r)
    <3>1. m = Min({limit, n})
      BY <2>1
    <3>2. limit \in Int /\ n \in Int
      OBVIOUS
    <3> HIDE DEF m
    <3> QED
      BY <2>1, <3>1, <3>2, MinOfTwo
  <2> HIDE DEF m
  <2> QED
    BY <1>2, <2>2
<1>4. Found(jobs, comparable, similarity, limit) = SubSeq(r, 1, m)
  <2>1. jobs \cap comparable = comparable
    OBVIOUS
  <2> QED
    BY <2>1, Zenon DEF Found, Entries
<1> HIDE DEF m
<1>5. FairPrefix(SubSeq(r, 1, m), comparable, similarity)
  BY <1>3, PrefixIsFair
<1> QED
  BY <1>4, <1>5

\* What rerank shows are jobs in order, and nobody who was left out has a better
\* cheap score than one who is in.
LEMMA RerankedIsFair ==
  ASSUME NEW J, IsFiniteSet(J), J \subseteq Int, NEW coarse, NEW tfidf, NEW keyword,
         \A j \in J : coarse[j] \in Int /\ tfidf[j] \in Int /\ keyword[j] \in Int, NEW pool \in Nat
  PROVE  LET rows == Reranked(J, coarse, tfidf, keyword, pool)
         IN /\ FairRows(rows, J, coarse)
            /\ \A i \in DOMAIN rows : rows[i].job \in J /\ rows[i].score \in Int
<1> DEFINE r == Ranked(Entries(J, coarse))
           m == Min({pool, Len(r)})
           p == SubSeq(r, 1, m)
           sum == [j \in J |-> 2 * keyword[j] + 3 * tfidf[j] + 5 * coarse[j]]
           T == {[job |-> p[i].job, score |-> 2 * keyword[p[i].job] + 3 * tfidf[p[i].job] + 5 * coarse[p[i].job]] :
                   i \in DOMAIN p}
           rows == Reranked(J, coarse, tfidf, keyword, pool)
           K == {p[i].job : i \in DOMAIN p}
<1>1. Scored(Entries(J, coarse))
  BY ScoredByFunction DEF Entries
<1>2. Len(r) \in Nat
  <2> DEFINE S == Entries(J, coarse)
  <2> HIDE DEF S
  <2>1. RankedList(Ranked(S), S)
    BY <1>1, RankedIsRanked DEF S
  <2>2. Len(Ranked(S)) \in Nat
    BY <2>1 DEF RankedList
  <2> QED
    BY <2>2 DEF S
<1>3. m \in Nat /\ m <= Len(r)
  <2> HIDE DEF r
  <2>1. PICK n \in Nat : n = Len(r)
    BY <1>2
  <2>2. m \in {pool, Len(r)} /\ m <= pool /\ m <= Len(r)
    <3>1. m = Min({pool, n})
      BY <2>1
    <3>2. pool \in Int /\ n \in Int
      OBVIOUS
    <3> HIDE DEF m
    <3> QED
      BY <2>1, <3>1, <3>2, MinOfTwo
  <2> HIDE DEF m
  <2> QED
    BY <1>2, <2>2
<1>4. FairPrefix(p, J, coarse)
  <2> HIDE DEF m
  <2> QED
    BY <1>3, PrefixIsFair
<1>5. rows = Ranked(T)
  BY Zenon DEF Reranked, Entries
<1> HIDE DEF p, rows
<1>6. K \subseteq J /\ K \subseteq Int
  <2>1. \A i \in DOMAIN p : p[i] \in Entries(J, coarse)
    BY <1>4 DEF FairPrefix
  <2>2. \A i \in DOMAIN p : p[i].job \in J
    BY <2>1 DEF Entries
  <2> QED
    BY <2>2
<1>7. IsFiniteSet(K) /\ \A j \in K : sum[j] \in Int
  BY <1>6, FS_Subset
<1>8. T = Entries(K, sum)
  <2>1. \A i \in DOMAIN p : p[i].job \in J
    BY <1>6
  <2>2. \A i \in DOMAIN p :
          sum[p[i].job] = 2 * keyword[p[i].job] + 3 * tfidf[p[i].job] + 5 * coarse[p[i].job]
    BY <2>1
  <2> HIDE DEF sum
  <2> QED
    BY <2>2 DEF Entries
<1> HIDE DEF T, sum
<1>9. Scored(T)
  <2> HIDE DEF K
  <2> QED
    BY <1>6, <1>7, <1>8, ScoredByFunction DEF Entries
<1>10. RankedList(rows, T)
  BY <1>5, <1>9, RankedIsRanked
<1>11. DOMAIN rows = 1..Len(rows) /\ \A i \in DOMAIN rows : rows[i] \in T
  BY <1>10, ElementOfSeq DEF RankedList
<1>12. {rows[i].job : i \in DOMAIN rows} = K
  <2>1. \A x \in T : x.job \in K
    BY <1>8 DEF Entries
  <2>2. ASSUME NEW j \in K PROVE \E x \in T : x.job = j
    <3> HIDE DEF K
    <3>1. [job |-> j, score |-> sum[j]] \in T
      BY <1>8 DEF Entries
    <3> QED
      BY <3>1
  <2>3. \A x \in T : \E i \in DOMAIN rows : rows[i] = x
    BY <1>10, <1>11 DEF RankedList
  <2> HIDE DEF K
  <2>4. \A i \in DOMAIN rows : rows[i].job \in K
    BY <1>11, <2>1
  <2>5. \A j \in K : \E i \in DOMAIN rows : rows[i].job = j
    BY <2>2, <2>3
  <2> QED
    BY <2>4, <2>5
<1>13. \A i, k \in DOMAIN rows : i < k => Above(rows[i], rows[k])
  BY <1>10, <1>11 DEF RankedList
<1>14. \A a \in K, b \in J \ K :
         Above([job |-> a, score |-> coarse[a]], [job |-> b, score |-> coarse[b]])
  BY <1>4 DEF FairPrefix, FairRows
<1>15. \A i \in DOMAIN rows : rows[i].job \in J
  BY <1>6, <1>12
<1> HIDE DEF K
<1>16. FairRows(rows, J, coarse)
  BY <1>12, <1>13, <1>14 DEF FairRows
<1>17. \A i \in DOMAIN rows : rows[i].score \in Int
  BY <1>9, <1>11 DEF Scored
<1> QED
  BY <1>15, <1>16, <1>17 DEF rows

\* A text has finitely many tokens.
LEMMA TokensAreFinite ==
  ASSUME NEW text, IsList(text)
  PROVE  IsFiniteSet(Tokens(text))
<1> DEFINE W == {text[i] : i \in DOMAIN text}
           g == [i \in DOMAIN text |-> text[i]]
<1>1. Len(text) \in Nat /\ DOMAIN text = 1..Len(text)
  BY ListShape
<1>2. IsFiniteSet(DOMAIN text)
  BY <1>1, FS_Interval
<1>3. g \in Surjection(DOMAIN text, W)
  BY DEF Surjection
<1>4. IsFiniteSet(W)
  <2> HIDE DEF g, W
  <2> QED
    BY <1>2, <1>3, FS_Surjection
<1>5. Tokens(text) \subseteq W
  BY DEF Tokens
<1> HIDE DEF W
<1> QED
  BY <1>4, <1>5, FS_Subset

\* What Import stores of a posting.
Posting(p) ==
  /\ p.title \in Texts /\ p.company \in Texts /\ p.description \in Texts
  /\ RequirementList(p.reqs)

\* The keyword score of a posting is an integer.
LEMMA KeywordType ==
  ASSUME NEW profile, NEW summary, NEW p, Posting(p)
  PROVE  Keyword(profile, summary, p) \in Int
<1> DEFINE skills == [i \in DOMAIN p.reqs |-> p.reqs[i].skill]
           text == JobText(p)
           wanted == Tokens(text)
<1>1. skills \in Seq(Texts)
  <2>1. Len(p.reqs) \in Nat /\ DOMAIN p.reqs = 1..Len(p.reqs)
    BY ListShape DEF Posting, RequirementList
  <2>2. \A i \in 1..Len(p.reqs) : p.reqs[i].skill \in Texts
    BY <2>1 DEF Posting, RequirementList
  <2> QED
    BY <2>1, <2>2
<1>2. FlattenSeq(skills) \in Texts
  <2> HIDE DEF skills
  <2> QED
    BY <1>1, FlattenType DEF Texts
<1>3. text \in Texts
  <2> DEFINE s == FlattenSeq(skills)
  <2>1. text = p.title \o p.company \o p.description \o s
    BY DEF JobText
  <2>2. s \in Texts /\ p.title \in Texts /\ p.company \in Texts /\ p.description \in Texts
    BY <1>2 DEF Posting
  <2> HIDE DEF s, text
  <2> QED
    BY <2>1, <2>2, ConcatProperties DEF Texts
<1> HIDE DEF text
<1>4. IsList(text)
  <2>1. Len(text) \in Nat /\ text = [i \in 1..Len(text) |-> text[i]]
    BY <1>3 DEF Texts
  <2> QED
    BY <2>1, ListMade
<1>5. IsFiniteSet(wanted)
  BY <1>4, TokensAreFinite
<1>6. Keyword(profile, summary, p) =
        IF wanted = {} THEN 0
        ELSE (1000 * Cardinality(wanted \cap Tokens(ProfileText(profile, summary)))) \div Cardinality(wanted)
  BY DEF Keyword, text
<1> HIDE DEF wanted
<1>7. CASE wanted = {}
  BY <1>6, <1>7
<1>8. CASE wanted # {}
  <2> DEFINE c == Cardinality(wanted \cap Tokens(ProfileText(profile, summary)))
             d == Cardinality(wanted)
  <2>1. IsFiniteSet(wanted \cap Tokens(ProfileText(profile, summary)))
    BY <1>5, FS_Subset
  <2>2. c \in Nat /\ d \in Nat \ {0}
    BY <1>5, <1>8, <2>1, FS_CardinalityType, FS_EmptySet
  <2>3. Keyword(profile, summary, p) = (1000 * c) \div d
    BY <1>6, <1>8
  <2> HIDE DEF c, d
  <2>4. 1000 * c \in Nat
    BY <2>2
  <2>5. (1000 * c) \div d \in Nat
    BY <2>2, <2>4, DivMod
  <2> QED
    BY <2>3, <2>5
<1> QED
  BY <1>7, <1>8

-----------------------------------------------------------------------------
(* The ranking *)

\* The postings that were imported and the results that were stored.
PostingsOK ==
  /\ postings = [j \in Jobs |-> postings[j]]
  /\ \A j \in Jobs : postings[j] # None => Posting(postings[j])

\* A result of score_pair: the stored score is the unrounded one rounded.
ResultOK(r) ==
  /\ r.raw.num \in Nat /\ r.raw.den \in Nat \ {0} /\ r.raw.num <= 1000 * r.raw.den
  /\ r.score = Rounded(r.raw.num, r.raw.den)

\* A stored score is a percentage in tenths.
LEMMA ScoreIsBounded ==
  ASSUME NEW r, ResultOK(r)
  PROVE  r.score \in 0..1000
<1>1. PICK n, d, s : n = r.raw.num /\ d = r.raw.den /\ s = r.score
  OBVIOUS
<1>2. Share(n, d) /\ s = Rounded(n, d)
  BY <1>1 DEF ResultOK, Share
<1>3. s \in 0..1000
  BY <1>2, RoundedIsBounded
<1> QED
  BY <1>1, <1>3

\* Results are kept per job.
ResultsOK ==
  /\ results = [j \in Jobs |-> results[j]]
  /\ \A j \in Jobs : results[j] # None => ResultOK(results[j])

\* The rows of a list that shows, where there are any, the stored scores.
RowsOK(list, stored) ==
  \A i \in DOMAIN list :
    /\ list[i].job \in Jobs /\ list[i].score \in Int
    /\ stored[list[i].job] # None => list[i].score = stored[list[i].job].score

\* A list leaves nobody out who belongs above one in it, and nothing follows it.
ListOK ==
  listed # None =>
    /\ stage = "listed"
    /\ FairRows(listed.rows, DOMAIN listed.key, listed.key)
    /\ RowsOK(listed.rows, results)
    /\ \A i \in DOMAIN listed.rows : listed.rows[i].job \in DOMAIN listed.key
    /\ \A j \in DOMAIN listed.key : listed.key[j] \in Int

\* The inductive invariant behind RankingIsFair.
RankInv == PostingsOK /\ ResultsOK /\ ListOK

\* Jobs are finitely many positive numbers, and each URL shows pages.
LEMMA JobsAreNumbered ==
  /\ IsFiniteSet(Jobs) /\ Jobs \subseteq Nat \ {0}
  /\ \A j \in Jobs : \A page \in PagesOf[j] : page \in Pages
<1>1. Jobs = 1..Len(PagesOf) /\ Len(PagesOf) \in Nat
  BY InputsAssumption DEF Jobs
<1>2. \A j \in Jobs : PagesOf[j] \in SUBSET Pages
  BY <1>1, InputsAssumption, ElementOfSeq
<1>3. IsFiniteSet(1..Len(PagesOf))
  BY <1>1, FS_Interval
<1>4. Jobs \subseteq Nat \ {0}
  BY <1>1
<1>5. \A j \in Jobs : \A page \in PagesOf[j] : page \in Pages
  BY <1>2
<1> QED
  BY <1>1, <1>3, <1>4, <1>5

\* The ranking invariant holds at the start.
LEMMA RankInit == Init => RankInv
<1> SUFFICES ASSUME Init PROVE RankInv
  OBVIOUS
<1>1. PostingsOK
  BY DEF Init, PostingsOK
<1>2. ResultsOK
  BY DEF Init, ResultsOK
<1> QED
  BY <1>1, <1>2 DEF Init, RankInv, ListOK

\* Every step keeps the ranking invariant: only Import adds a posting, only Score a
\* result, and a list is made by Publish, Rerank or Search alone.
LEMMA RankNext == RankInv /\ [Next]_vars => RankInv'
<1> SUFFICES ASSUME RankInv, [Next]_vars PROVE RankInv'
  OBVIOUS
<1> USE DEF RankInv
<1>1. IsFiniteSet(Jobs) /\ Jobs \subseteq Nat \ {0} /\ Jobs \subseteq Int
  BY JobsAreNumbered
<1>2. CASE UNCHANGED <<postings, results, listed>> /\ (stage = "listed" => UNCHANGED stage)
  <2>1. PostingsOK' /\ ResultsOK'
    BY <1>2 DEF PostingsOK, ResultsOK
  <2>2. ListOK'
    BY <1>2 DEF ListOK
  <2> QED
    BY <2>1, <2>2
<1>3. ASSUME NEW j \in Jobs, NEW page \in PagesOf[j], Import(j, page) PROVE RankInv'
  <2>1. stage = "stored" /\ UNCHANGED <<results, listed>>
    BY <1>3 DEF Import
  <2>2. ResultsOK' /\ ListOK'
    BY <2>1 DEF ResultsOK, ListOK
  <2> DEFINE n == Normalised(page)
             p == [title |-> n.title, company |-> n.company, description |-> n.description,
                   reqs |-> Requirements(n.description, j)]
  <2>3. postings' = [postings EXCEPT ![j] = p]
    BY <1>3 DEF Import
  <2>4. n.title \in Texts /\ n.company \in Texts /\ n.description \in Texts
    BY JobsAreNumbered, NormalisedType
  <2>5. RequirementList(Requirements(n.description, j))
    BY RequirementsAreListed
  <2>6. Posting(p)
    <3> HIDE DEF n
    <3> QED
      BY <2>4, <2>5 DEF Posting
  <2> HIDE DEF p
  <2>7. PostingsOK'
    BY <2>3, <2>6 DEF PostingsOK
  <2> QED
    BY <2>2, <2>7
<1>4. ASSUME NEW j \in Jobs, NEW s \in Similarities, Score(j, s) PROVE RankInv'
  <2>1. stage = "stored" /\ UNCHANGED <<postings, listed>> /\ postings[j] # None
    BY <1>4 DEF Score
  <2>2. PostingsOK' /\ ListOK'
    BY <2>1 DEF PostingsOK, ListOK
  <2> DEFINE r == PairResult(made.profile, made.summary, j, postings[j].reqs, s)
  <2>5. s \in Int /\ IsList(postings[j].reqs)
    BY <2>1, NumbersAssumption DEF PostingsOK, Posting, RequirementList
  <2>6. ResultOK(r)
    BY <2>5, PairResultIsBounded DEF ResultOK
  <2>7. results' = [results EXCEPT ![j] = r]
    BY <1>4 DEF Score
  <2> HIDE DEF r
  <2>8. ResultsOK'
    BY <2>6, <2>7 DEF ResultsOK
  <2> QED
    BY <2>2, <2>8
<1>5. CASE Publish
  <2>1. stage' = "listed" /\ UNCHANGED <<postings, results>> /\ \A j \in Jobs : results[j] # None
    BY <1>5 DEF Publish
  <2>2. PostingsOK' /\ ResultsOK'
    BY <2>1 DEF PostingsOK, ResultsOK
  <2> DEFINE f == [j \in Jobs |-> results[j].score]
             S == Entries(Jobs, f)
  <2>3. \A j \in Jobs : f[j] \in Int
    <3>1. ASSUME NEW j \in Jobs PROVE results[j].score \in Int
      <4>1. ResultOK(results[j])
        BY <2>1 DEF ResultsOK
      <4> QED
        BY <4>1, ScoreIsBounded
    <3> QED
      BY <3>1
  <2>4. {[job |-> j, score |-> results[j].score] : j \in Jobs} = S
    BY DEF Entries
  <2>5. listed' = [rows |-> Ranked(S), key |-> f]
    BY <1>5, <2>4 DEF Publish
  <2> HIDE DEF f
  <2>6. Scored(S)
    BY <1>1, <2>3, ScoredByFunction DEF Entries
  <2> HIDE DEF S
  <2>7. RankedList(Ranked(S), S)
    BY <2>6, RankedIsRanked
  <2>8. ListOK'
    <3> DEFINE rows == Ranked(S)
               in == {rows[i].job : i \in DOMAIN rows}
    <3>1. DOMAIN f = Jobs
      BY DEF f
    <3>2. rows \in Seq(S) /\ DOMAIN rows = 1..Len(rows)
      BY <2>7 DEF RankedList
    <3>3. \A j \in Jobs : \E i \in DOMAIN rows : rows[i] = [job |-> j, score |-> f[j]]
      <4>1. \A j \in Jobs : [job |-> j, score |-> f[j]] \in S
        BY DEF S, Entries
      <4> QED
        BY <2>7, <3>2, <4>1 DEF RankedList
    <3>4. \A j \in Jobs : \E i \in DOMAIN rows : rows[i].job = j
      BY <3>3
    <3>5. \A i, k \in DOMAIN rows : i < k => Above(rows[i], rows[k])
      BY <2>7, <3>2 DEF RankedList
    <3>6. listed'.rows = rows /\ listed'.key = f
      BY <2>5
    <3>7. \A i \in DOMAIN rows : rows[i] \in S
      BY <3>2, ElementOfSeq
    <3>8. \A i \in DOMAIN rows : rows[i].job \in Jobs /\ rows[i].score = f[rows[i].job]
      <4>1. \A x \in S : x.job \in Jobs /\ x.score = f[x.job]
        BY DEF S, Entries
      <4> HIDE DEF rows
      <4> QED
        BY <3>7, <4>1
    <3>9. \A j \in Jobs : f[j] = results'[j].score
      BY <2>1 DEF f
    <3> HIDE DEF rows
    <3>10. Jobs \ in = {}
      BY <3>4
    <3>11. FairRows(rows, Jobs, f)
      BY <3>5, <3>10 DEF FairRows
    <3>12. RowsOK(rows, results')
      BY <2>3, <3>8, <3>9 DEF RowsOK
    <3> QED
      BY <2>1, <2>3, <3>1, <3>6, <3>8, <3>11, <3>12 DEF ListOK
  <2> QED
    BY <2>2, <2>8
<1>6. ASSUME NEW coarse \in [Jobs -> {0, 500}], NEW tfidf \in [Jobs -> {0, 500}], NEW pool \in Jobs,
             Rerank(coarse, tfidf, pool)
      PROVE RankInv'
  <2>1. /\ stage' = "listed" /\ UNCHANGED <<postings, results>>
        /\ \A j \in Jobs : postings[j] # None /\ results[j] = None
    BY <1>6 DEF Rerank
  <2>2. PostingsOK' /\ ResultsOK'
    BY <2>1 DEF PostingsOK, ResultsOK
  <2> DEFINE keyword == [j \in Jobs |-> Keyword(made.profile, made.summary, postings[j])]
             rows == Reranked(Jobs, coarse, tfidf, keyword, pool)
  <2>3. \A j \in Jobs : coarse[j] \in Int /\ tfidf[j] \in Int /\ keyword[j] \in Int
    BY <2>1, KeywordType DEF PostingsOK
  <2>4. listed' = [rows |-> rows, key |-> coarse]
    BY <1>6 DEF Rerank
  <2> HIDE DEF keyword
  <2>5. pool \in Nat
    BY <1>1
  <2>6. /\ FairRows(rows, Jobs, coarse)
        /\ \A i \in DOMAIN rows : rows[i].job \in Jobs /\ rows[i].score \in Int
    BY <1>1, <2>3, <2>5, RerankedIsFair
  <2> HIDE DEF rows
  <2>7. listed'.rows = rows /\ listed'.key = coarse /\ DOMAIN coarse = Jobs
    BY <2>4
  <2>8. RowsOK(rows, results')
    BY <2>1, <2>6 DEF RowsOK
  <2>9. \A j \in Jobs : coarse[j] \in Int
    BY <2>3
  <2>10. ListOK'
    BY <2>1, <2>6, <2>7, <2>8, <2>9 DEF ListOK
  <2> QED
    BY <2>2, <2>10
<1>7. ASSUME NEW similarity \in [Jobs -> Similarities], NEW limit \in Jobs, Search(similarity, limit)
      PROVE RankInv'
  <2>1. stage' = "listed" /\ UNCHANGED <<postings, results>> /\ \A j \in Jobs : results[j] = None
    BY <1>7 DEF Search
  <2>2. PostingsOK' /\ ResultsOK'
    BY <2>1 DEF PostingsOK, ResultsOK
  <2> DEFINE comparable == {j \in Jobs : vectors[j] # None /\ vectors[j].model = Pinned.model}
             key == [j \in comparable |-> similarity[j]]
             rows == Found(Jobs, comparable, similarity, limit)
  <2>3. listed' = [rows |-> rows, key |-> key]
    BY <1>7 DEF Search
  <2>4. comparable \subseteq Jobs
    OBVIOUS
  <2>5. DOMAIN key = comparable /\ \A j \in comparable : key[j] = similarity[j]
    OBVIOUS
  <2> HIDE DEF comparable, key
  <2>6. /\ IsFiniteSet(comparable) /\ comparable \subseteq Int /\ limit \in Nat
        /\ \A j \in comparable : similarity[j] \in Int
    BY <1>1, <2>4, FS_Subset, NumbersAssumption
  <2>7. FairPrefix(rows, comparable, similarity)
    BY <2>4, <2>6, FoundIsFair
  <2> HIDE DEF rows
  <2>8. listed'.rows = rows /\ listed'.key = key
    BY <2>3
  <2>9. \A i \in DOMAIN rows : rows[i].job \in comparable /\ rows[i].score = similarity[rows[i].job]
    BY <2>7 DEF FairPrefix, Entries
  <2>10. RowsOK(rows, results')
    BY <2>1, <2>4, <2>6, <2>9 DEF RowsOK
  <2>11. FairRows(rows, comparable, key)
    BY <2>5, <2>7, <2>9 DEF FairPrefix, FairRows
  <2>12. \A j \in comparable : key[j] \in Int
    BY <2>5, <2>6
  <2>13. ListOK'
    BY <2>1, <2>5, <2>8, <2>9, <2>10, <2>11, <2>12 DEF ListOK
  <2> QED
    BY <2>2, <2>13
<1>8. CASE \/ \E p \in Paragraphs : Write(p)
           \/ \E u \in Uploads, cut \in 0..1 : \E faults \in FaultSets(u) : Extract(u, cut, faults)
           \/ \E language \in Languages : Analyse(language)
           \/ stage = "analysed" /\ \E orgLines \in OrgLines : Build(orgLines)
           \/ Keep
           \/ \E b \in Backends : Deploy(b)
           \/ Rebuild
  <2>1. UNCHANGED <<postings, results, listed>>
    BY <1>8 DEF Write, Extract, Analyse, Build, Keep, Deploy, Rebuild, matchVars
  <2>2. stage # "listed"
    BY <1>8 DEF Write, Extract, Analyse, Keep, Deploy, Rebuild
  <2> QED
    BY <1>2, <2>1, <2>2
<1>9. CASE UNCHANGED vars
  BY <1>2, <1>9 DEF vars, matchVars
<1> QED
  BY <1>3, <1>4, <1>5, <1>6, <1>7, <1>8, <1>9 DEF Next

\* A list of stored scores shows a lower unrounded score first only at one percentage.
LEMMA OnlyTiesInvert ==
  ASSUME NEW r, NEW s, ResultOK(r), ResultOK(s), r.score >= s.score, Lower(r, s)
  PROVE  r.score = s.score
<1>1. PICK m, n : m = r.score /\ n = s.score
  OBVIOUS
<1>2. m <= n /\ m >= n
  BY <1>1, RoundedIsMonotone DEF ResultOK, Lower
<1>3. m \in 0..1000 /\ n \in 0..1000
  BY <1>1, ScoreIsBounded
<1>4. m = n
  BY <1>2, <1>3
<1> QED
  BY <1>1, <1>4

\* Whatever is imported, deployed, rebuilt and scored, a list shows the larger score first
\* and leaves nobody out who has a larger one than one who is in, and a published order
\* contradicts the unrounded scores only between equal percentages (RankingIsFair:
\* matching/scoring.py, ranking/refresh.py, search/retrieval.py).
THEOREM SafeRanking == Spec => []RankingIsFair
<1>1. RankInv => RankingIsFair
  <2> SUFFICES ASSUME RankInv, listed # None PROVE RankingIsFair
    BY DEF RankingIsFair
  <2> DEFINE rows == listed.rows
             in == {rows[i].job : i \in DOMAIN rows}
             key == listed.key
  <2>1. FairRows(rows, DOMAIN key, key) /\ RowsOK(rows, results)
    BY DEF RankInv, ListOK
  <2>2. \A i \in DOMAIN rows : rows[i].job \in DOMAIN key
    BY DEF RankInv, ListOK
  <2>3. \A j \in DOMAIN key : key[j] \in Int
    BY DEF RankInv, ListOK
  <2> HIDE DEF rows, key
  <2>4. ASSUME NEW i \in DOMAIN rows, NEW k \in DOMAIN rows, i < k
        PROVE  rows[i].score >= rows[k].score
    <3>1. Above(rows[i], rows[k])
      BY <2>1, <2>4 DEF FairRows
    <3>2. rows[i].score \in Int /\ rows[k].score \in Int
      BY <2>1 DEF RowsOK
    <3> QED
      BY <3>1, <3>2 DEF Above
  <2>5. ASSUME NEW i \in DOMAIN rows, NEW k \in DOMAIN rows, i < k,
               Lower(results[rows[i].job], results[rows[k].job])
        PROVE  rows[i].score = rows[k].score
    <3>1. PICK r, s : r = results[rows[i].job] /\ s = results[rows[k].job]
      OBVIOUS
    <3>2. r # None /\ s # None
      BY <2>5, <3>1 DEF Lower
    <3>3. rows[i].score = r.score /\ rows[k].score = s.score
      BY <2>1, <3>1, <3>2 DEF RowsOK
    <3>4. rows[i].job \in Jobs /\ rows[k].job \in Jobs
      BY <2>1 DEF RowsOK
    <3>5. ResultOK(r) /\ ResultOK(s)
      BY <3>1, <3>2, <3>4 DEF RankInv, ResultsOK
    <3>6. r.score >= s.score
      BY <2>4, <2>5, <3>3
    <3>7. Lower(r, s)
      BY <2>5, <3>1
    <3> QED
      BY <3>3, <3>5, <3>6, <3>7, OnlyTiesInvert
  <2>6. ASSUME NEW a \in in, NEW b \in DOMAIN key \ in
        PROVE  key[a] >= key[b]
    <3>1. Above([job |-> a, score |-> key[a]], [job |-> b, score |-> key[b]])
      BY <2>1, <2>6 DEF FairRows
    <3>2. a \in DOMAIN key /\ b \in DOMAIN key
      BY <2>2
    <3>3. key[a] \in Int /\ key[b] \in Int
      BY <2>3, <3>2
    <3> QED
      BY <3>1, <3>3 DEF Above
  <2> QED
    BY <2>4, <2>5, <2>6 DEF RankingIsFair, rows, key
<1> QED
  BY <1>1, RankInit, RankNext, PTL DEF Spec

-----------------------------------------------------------------------------
(* Months of experience *)

\* Intervals of months, and the running interval of the union.
Spans == [lo : Int, hi : Int]

\* The accumulator of union_years.
RunsMade == [total : Int, left : Int, right : Int]

\* The sweep over spans, place by place.
Sweeps(f, spans, seq, base) ==
  /\ f \in [0..Len(seq) -> RunsMade]
  /\ f[0] = base
  /\ \A i \in 1..Len(seq) : f[i] = Extend(f[i - 1], spans[seq[i]])
  /\ FoldLeft(LAMBDA run, i : Extend(run, spans[i]), base, seq) = f[Len(seq)]

\* One step of the union: an interval that begins within the running one stretches it,
\* any other closes it.
LEMMA Extended ==
  ASSUME NEW run \in RunsMade, NEW v \in Spans
  PROVE  /\ Extend(run, v) \in RunsMade
         /\ v.lo <= run.right =>
              /\ Extend(run, v).total = run.total /\ Extend(run, v).left = run.left
              /\ Extend(run, v).right = IF run.right < v.hi THEN v.hi ELSE run.right
         /\ ~(v.lo <= run.right) =>
              /\ Extend(run, v).total = run.total + run.right - run.left
              /\ Extend(run, v).left = v.lo /\ Extend(run, v).right = v.hi
<1>1. Max({run.right, v.hi}) = IF run.right < v.hi THEN v.hi ELSE run.right
  BY MaxOfTwo DEF RunsMade, Spans
<1>2. PICK m : m = Max({run.right, v.hi})
  OBVIOUS
<1>3. m \in Int /\ m = IF run.right < v.hi THEN v.hi ELSE run.right
  BY <1>1, <1>2 DEF RunsMade, Spans
<1>4. Extend(run, v) = IF v.lo <= run.right THEN [run EXCEPT !.right = m]
                       ELSE [total |-> run.total + run.right - run.left, left |-> v.lo, right |-> v.hi]
  BY <1>2 DEF Extend
<1>5. CASE v.lo <= run.right
  BY <1>3, <1>4, <1>5 DEF RunsMade, Spans
<1>6. CASE ~(v.lo <= run.right)
  BY <1>3, <1>4, <1>6 DEF RunsMade, Spans
<1> QED
  BY <1>5, <1>6

\* The union's fold is a recursion over the sorted intervals.
LEMMA SweepSteps ==
  ASSUME NEW D, NEW spans, \A i \in D : spans[i] \in Spans, NEW seq \in Seq(D), NEW base \in RunsMade
  PROVE  \E f : Sweeps(f, spans, seq, base)
<1> DEFINE n == Len(seq)
           W == RunsMade
           step == [p \in (1..n) \X W |-> Extend(p[2], spans[seq[p[1]]])]
           E(it) == it = [s \in SUBSET DOMAIN seq |->
                            IF s = {} THEN base ELSE Extend(it[s \ {Max(s)}], spans[seq[Max(s)]])]
           u == CHOOSE it : E(it)
<1>1. n \in Nat /\ DOMAIN seq = 1..n /\ \A i \in 1..n : spans[seq[i]] \in Spans
  BY ElementOfSeq
<1>2. step \in [(1..n) \X W -> W]
  BY <1>1, Extended
<1>3. \A i \in 1..n, a \in W : step[<<i, a>>] = Extend(a, spans[seq[i]])
  OBVIOUS
<1>4. FoldLeft(LAMBDA run, i : Extend(run, spans[i]), base, seq) = u[DOMAIN seq]
  BY Zenon DEF FoldLeft, MapThenFoldSet
<1>5. base \in W
  OBVIOUS
<1> HIDE DEF n, W, step
<1>6. \E it : E(it)
  <2>1. PICK it : TakesOff(it, n, W, base, step)
    BY <1>5, <1>1, <1>2, FoldExists
  <2>2. \A s \in SUBSET (1..n) :
          it[s] = IF s = {} THEN base ELSE Extend(it[s \ {Max(s)}], spans[seq[Max(s)]])
    BY <1>3, <2>1 DEF TakesOff
  <2>3. it = [s \in SUBSET (1..n) |-> it[s]]
    BY <2>1 DEF TakesOff
  <2>4. E(it)
    BY <1>1, <2>2, <2>3, Zenon
  <2> QED
    BY <2>4
<1>7. E(u)
  BY <1>6
<1> HIDE DEF u
<1>8. u[{}] = base
  BY <1>7
<1>9. ASSUME NEW s \in SUBSET (1..n), s # {}, u[s \ {Max(s)}] \in W
      PROVE  u[s] = step[<<Max(s), u[s \ {Max(s)}]>>]
  <2>1. Max(s) \in 1..n
    BY <1>1, <1>9, IntervalMinMax
  <2> QED
    BY <1>1, <1>3, <1>7, <1>9, <2>1
<1>10. PICK f : FoldedBy(f, u, n, W, base, step)
  <2> HIDE DEF E
  <2> QED
    BY <1>5, <1>1, <1>2, <1>8, <1>9, FoldSteps
<1>11. f \in [0..n -> W] /\ f[0] = base /\ \A i \in 1..n : f[i] = step[<<i, f[i - 1]>>]
  BY <1>10 DEF FoldedBy, Recursion
<1>12. \A i \in 1..n : f[i] = Extend(f[i - 1], spans[seq[i]])
  <2>1. \A i \in 1..n : i - 1 \in 0..n
    BY <1>1
  <2>2. \A i \in 1..n : f[i - 1] \in W
    BY <1>11, <2>1
  <2> QED
    BY <1>3, <1>11, <2>2
<1>13. Sweeps(f, spans, seq, base)
  BY <1>1, <1>4, <1>10, <1>11, <1>12 DEF Sweeps, FoldedBy, W, n
<1> QED
  BY <1>13

\* An interval from a to b has b - a months.
LEMMA MonthsBetween ==
  ASSUME NEW a \in Int, NEW b \in Int, a <= b
  PROVE  IsFiniteSet(a..(b - 1)) /\ Cardinality(a..(b - 1)) = b - a
<1>1. PICK c \in Int : c = b - 1
  OBVIOUS
<1>2. IsFiniteSet(a..c) /\ Cardinality(a..c) = IF a > c THEN 0 ELSE c - a + 1
  BY FS_Interval
<1>3. Cardinality(a..c) = b - a
  BY <1>1, <1>2
<1> QED
  BY <1>1, <1>2, <1>3

\* The months of an interval.
Covered(v) == v.lo..(v.hi - 1)

\* The months before `right` are counted, those from `left` on without a gap.
Counted(run, C) ==
  /\ run.left <= run.right
  /\ run.left..(run.right - 1) \subseteq C /\ C \subseteq Int
  /\ \A x \in C : x < run.right
  /\ IsFiniteSet(C) /\ run.total + run.right - run.left = Cardinality(C)

\* The running total stays the number of months that the intervals seen so far cover.
LEMMA CountedFurther ==
  ASSUME NEW run \in RunsMade, NEW C, Counted(run, C), NEW v \in Spans,
         run.left <= v.lo, v.lo <= v.hi
  PROVE  Counted(Extend(run, v), C \cup Covered(v)) /\ Extend(run, v).left <= v.lo
<1> DEFINE e == Extend(run, v)
<1>1. /\ run.left \in Int /\ run.right \in Int /\ run.total \in Int /\ v.lo \in Int /\ v.hi \in Int
      /\ e \in RunsMade
  BY Extended DEF RunsMade, Spans
<1>2. IsFiniteSet(C) /\ Cardinality(C) \in Nat /\ C \subseteq Int /\ \A x \in C : x < run.right
  BY FS_CardinalityType DEF Counted
<1>3. \A a, b \in Int : IsFiniteSet(a..(b - 1)) /\ (a <= b => Cardinality(a..(b - 1)) = b - a)
  <2> SUFFICES ASSUME NEW a \in Int, NEW b \in Int
               PROVE  IsFiniteSet(a..(b - 1)) /\ (a <= b => Cardinality(a..(b - 1)) = b - a)
    OBVIOUS
  <2>1. PICK c \in Int : c = b - 1
    OBVIOUS
  <2>2. IsFiniteSet(a..c) /\ Cardinality(a..c) = IF a > c THEN 0 ELSE c - a + 1
    BY FS_Interval
  <2>3. a <= b => Cardinality(a..c) = b - a
    BY <2>1, <2>2
  <2> QED
    BY <2>1, <2>2, <2>3
<1>4. CASE v.lo <= run.right /\ run.right < v.hi
  <2>1. e.total = run.total /\ e.left = run.left /\ e.right = v.hi
    BY <1>4, Extended
  <2> DEFINE N == run.right..(v.hi - 1)
  <2>2. C \cup Covered(v) = C \cup N
    <3>1. \A x \in Covered(v) : x \in N \/ x \in run.left..(run.right - 1)
      BY <1>1, <1>4 DEF Covered
    <3>2. \A x \in N : x \in Covered(v)
      BY <1>1, <1>4 DEF Covered
    <3> QED
      BY <3>1, <3>2 DEF Counted
  <2>3. C \cap N = {}
    BY <1>1, <1>2
  <2>4. IsFiniteSet(N) /\ Cardinality(N) = v.hi - run.right
    BY <1>1, <1>3, <1>4
  <2>5. \A x \in run.left..(v.hi - 1) : x \in run.left..(run.right - 1) \/ x \in N
    BY <1>1, <1>4
  <2>6. \A x \in N : x \in Int /\ x < v.hi
    BY <1>1
  <2> HIDE DEF N
  <2>7. IsFiniteSet(C \cup N) /\ Cardinality(C \cup N) = Cardinality(C) + (v.hi - run.right)
    <3>1. Cardinality(C \cap N) = 0
      BY <2>3, FS_EmptySet
    <3>2. /\ IsFiniteSet(C \cup N)
          /\ Cardinality(C \cup N) = Cardinality(C) + Cardinality(N) - Cardinality(C \cap N)
      BY <1>2, <2>4, FS_Union
    <3> QED
      BY <1>1, <1>2, <2>4, <3>1, <3>2
  <2>8. run.left..(v.hi - 1) \subseteq C \cup N
    BY <2>5 DEF Counted
  <2>9. \A x \in C \cup N : x \in Int /\ x < v.hi
    BY <1>1, <1>2, <1>4, <2>6
  <2>10. run.total + v.hi - run.left = Cardinality(C \cup N)
    BY <1>1, <1>2, <2>7 DEF Counted
  <2>11. Counted(e, C \cup N)
    <3> HIDE DEF e
    <3>1. e.left <= e.right /\ e.total + e.right - e.left = Cardinality(C \cup N)
      BY <1>1, <1>4, <2>1, <2>10 DEF Counted
    <3>2. e.left..(e.right - 1) \subseteq C \cup N
      BY <2>1, <2>8
    <3>3. C \cup N \subseteq Int /\ \A x \in C \cup N : x < e.right
      BY <2>1, <2>9
    <3> QED
      BY <2>7, <3>1, <3>2, <3>3 DEF Counted
  <2> QED
    BY <2>1, <2>2, <2>11
<1>5. CASE v.lo <= run.right /\ ~(run.right < v.hi)
  <2>1. e.total = run.total /\ e.left = run.left /\ e.right = run.right
    BY <1>5, Extended
  <2>2. Covered(v) \subseteq run.left..(run.right - 1)
    BY <1>1, <1>5 DEF Covered
  <2>3. C \cup Covered(v) = C
    BY <2>2 DEF Counted
  <2>4. Counted(e, C)
    <3> HIDE DEF e
    <3> QED
      BY <2>1 DEF Counted
  <2> QED
    BY <2>1, <2>3, <2>4
<1>6. CASE ~(v.lo <= run.right)
  <2>1. e.total = run.total + run.right - run.left /\ e.left = v.lo /\ e.right = v.hi
    BY <1>6, Extended
  <2> DEFINE N == Covered(v)
  <2>2. N = v.lo..(v.hi - 1)
    BY DEF Covered
  <2>3. C \cap N = {}
    BY <1>1, <1>2, <1>6, <2>2
  <2>4. IsFiniteSet(N) /\ Cardinality(N) = v.hi - v.lo
    BY <1>1, <1>3, <2>2
  <2>5. \A x \in N : x \in Int /\ x < v.hi
    BY <1>1, <2>2
  <2> HIDE DEF N
  <2>6. IsFiniteSet(C \cup N) /\ Cardinality(C \cup N) = Cardinality(C) + (v.hi - v.lo)
    <3>1. Cardinality(C \cap N) = 0
      BY <2>3, FS_EmptySet
    <3>2. /\ IsFiniteSet(C \cup N)
          /\ Cardinality(C \cup N) = Cardinality(C) + Cardinality(N) - Cardinality(C \cap N)
      BY <1>2, <2>4, FS_Union
    <3> QED
      BY <1>1, <1>2, <2>4, <3>1, <3>2
  <2>7. \A x \in C \cup N : x \in Int /\ x < v.hi
    BY <1>1, <1>2, <1>6, <2>5
  <2>8. (run.total + run.right - run.left) + v.hi - v.lo = Cardinality(C \cup N)
    BY <1>1, <1>2, <2>6 DEF Counted
  <2>9. Counted(e, C \cup N)
    <3> HIDE DEF e
    <3> QED
      BY <1>1, <2>1, <2>2, <2>6, <2>7, <2>8 DEF Counted
  <2> QED
    BY <1>1, <2>1, <2>9 DEF N
<1> QED
  BY <1>1, <1>4, <1>5, <1>6

\* A period that has months, and the month after its last one.
KnownPeriod(p, now) ==
  /\ p.start.unit = "month"
  /\ \/ p.end.unit = "present" /\ p.start.at <= now
     \/ p.end.unit = "month" /\ p.end.at < now /\ p.start.at <= p.end.at

\* The month in which a period ends, exclusive.
Until(p, now) == IF p.end.unit = "present" THEN now ELSE p.end.at + 1

\* A period whose ends have months.
Period(p) == p.start.at \in Nat /\ p.end.at \in Nat

\* Only a known period has an interval (profile.py).
LEMMA IntervalOfPeriod ==
  ASSUME NEW p, Period(p), NEW now \in Nat
  PROVE  Interval(p, now) = IF KnownPeriod(p, now) THEN {[lo |-> p.start.at, hi |-> Until(p, now)]} ELSE {}
<1> DEFINE hi == CASE p.end.unit = "present" -> now
                   [] p.end.unit = "month" /\ p.end.at < now /\ p.end.at >= p.start.at -> p.end.at + 1
                   [] OTHER -> Unknown
<1>1. p.start.at \in Nat /\ p.end.at \in Nat /\ Unknown = -1
  BY DEF Period, Unknown
<1>2. Interval(p, now) = IF p.start.unit = "month" /\ hi # Unknown /\ p.start.at <= now /\ hi >= p.start.at
                         THEN {[lo |-> p.start.at, hi |-> hi]} ELSE {}
  BY DEF Interval
<1>3. CASE p.end.unit = "present"
  <2>1. hi = now
    BY <1>3
  <2> HIDE DEF hi
  <2> QED
    BY <1>1, <1>2, <1>3, <2>1 DEF KnownPeriod, Until
<1>4. CASE p.end.unit = "month" /\ p.end.at < now /\ p.end.at >= p.start.at
  <2>1. hi = p.end.at + 1
    BY <1>4
  <2> HIDE DEF hi
  <2> QED
    BY <1>1, <1>2, <1>4, <2>1 DEF KnownPeriod, Until
<1>5. CASE p.end.unit # "present" /\ ~(p.end.unit = "month" /\ p.end.at < now /\ p.end.at >= p.start.at)
  <2>1. hi = Unknown
    BY <1>5
  <2> HIDE DEF hi
  <2> QED
    BY <1>1, <1>2, <1>5, <2>1 DEF KnownPeriod, Until
<1> QED
  BY <1>3, <1>4, <1>5

\* Spans are listed by their first month.
InTime(order, n, spans) ==
  /\ order \in Seq(1..n) /\ Len(order) = n
  /\ \A i, k \in 1..n : i < k => spans[order[i]].lo <= spans[order[k]].lo
  /\ \A x \in 1..n : \E i \in 1..n : order[i] = x

\* Sorting puts the intervals in order of their starts and loses none.
LEMMA SpansInTime ==
  ASSUME NEW n \in Nat, NEW spans, DOMAIN spans = 1..n, \A i \in 1..n : spans[i] \in Spans
  PROVE  InTime(InOrder(DOMAIN spans, LAMBDA a, b : Earlier(spans, a, b)), n, spans)
<1> DEFINE S == 1..n
           R == {p \in S \X S : Earlier(spans, p[1], p[2])}
           list == InOrder(DOMAIN spans, LAMBDA a, b : Earlier(spans, a, b))
<1>1. Cardinality(S) = n /\ IsFiniteSet(S) /\ S \subseteq Int
  BY FS_Interval
<1>2. \A x, y \in S : <<x, y>> \in R <=> Earlier(spans, x, y)
  OBVIOUS
<1>3. \A x \in S : spans[x].lo \in Int /\ spans[x].hi \in Int
  BY DEF Spans
<1>4. \A x, y \in S : spans[x].lo = spans[y].lo /\ spans[x].hi = spans[y].hi => spans[x] = spans[y]
  BY DEF Spans
<1> HIDE DEF R
<1>5. Orders(R, S)
  <2>1. \A x \in S : ~Earlier(spans, x, x)
    BY <1>1, <1>3 DEF Earlier
  <2>2. \A x, y, z \in S : Earlier(spans, x, y) /\ Earlier(spans, y, z) => Earlier(spans, x, z)
    BY <1>1, <1>3 DEF Earlier
  <2>3. \A x, y \in S : x = y \/ Earlier(spans, x, y) \/ Earlier(spans, y, x)
    BY <1>1, <1>3, <1>4 DEF Earlier
  <2> QED
    BY <1>2, <2>1, <2>2, <2>3 DEF Orders
<1>6. \A x \in S : {y \in S : Earlier(spans, y, x)} = Below(R, S, x)
  BY <1>2 DEF Below
<1>7. list = [k \in 1..n |-> CHOOSE x \in S : Cardinality({y \in S : Earlier(spans, y, x)}) = k - 1]
  BY <1>1 DEF InOrder
<1>8. ASSUME NEW k \in 1..n, \E x \in S : Cardinality(Below(R, S, x)) = k - 1
      PROVE  list[k] \in S /\ Cardinality(Below(R, S, list[k])) = k - 1
  <2>1. \E x \in S : Cardinality({y \in S : Earlier(spans, y, x)}) = k - 1
    BY <1>6, <1>8
  <2>2. list[k] = CHOOSE x \in S : Cardinality({y \in S : Earlier(spans, y, x)}) = k - 1
    BY <1>7
  <2>3. list[k] \in S /\ Cardinality({y \in S : Earlier(spans, y, list[k])}) = k - 1
    BY <2>1, <2>2
  <2> QED
    BY <1>6, <2>3
<1>9. list = [k \in 1..n |-> list[k]]
  BY <1>7
<1> HIDE DEF list
<1> DEFINE m == Cardinality(S)
<1>10. m = n
  BY <1>1
<1>11. Enumerates(list, S, R)
  <2>1. list = [k \in 1..Cardinality(S) |-> list[k]]
    BY <1>1, <1>9
  <2>2. \A k \in 1..Cardinality(S) : (\E x \in S : Cardinality(Below(R, S, x)) = k - 1) =>
             list[k] \in S /\ Cardinality(Below(R, S, list[k])) = k - 1
    BY <1>1, <1>8
  <2> HIDE DEF S
  <2> QED
    BY <1>1, <1>5, <2>1, <2>2, RanksGiveOrder
<1>12. list \in [1..n -> S] /\ list \in Seq(S) /\ Len(list) = n
  <2>1. list \in [1..Cardinality(S) -> S]
    BY <1>11 DEF Enumerates
  <2>2. list \in [1..n -> S]
    BY <1>1, <2>1
  <2> HIDE DEF S
  <2> QED
    BY <2>2
<1>13. \A i, k \in 1..n : i < k => Earlier(spans, list[i], list[k])
  BY <1>1, <1>2, <1>11, <1>12 DEF Enumerates
<1>14. \A i, k \in 1..n : i < k => spans[list[i]].lo <= spans[list[k]].lo
  <2>1. \A x, y \in S : Earlier(spans, x, y) => spans[x].lo <= spans[y].lo
    BY <1>3 DEF Earlier
  <2> QED
    BY <1>12, <1>13, <2>1
<1>15. \A x \in S : \E i \in 1..n : list[i] = x
  BY <1>1, <1>11 DEF Enumerates
<1>16. InTime(list, n, spans)
  BY <1>12, <1>14, <1>15 DEF InTime
<1> QED
  BY <1>16 DEF list

\* The sweep over the spans in their order.
Swept(f, n, spans, order) ==
  /\ f \in [0..(n - 1) -> RunsMade]
  /\ f[0] = [total |-> 0, left |-> spans[order[1]].lo, right |-> spans[order[1]].hi]
  /\ \A i \in 1..(n - 1) : f[i] = Extend(f[i - 1], spans[order[i + 1]])

\* The sweep counts every month of the spans once.
LEMMA SweepCounts ==
  ASSUME NEW n \in Nat \ {0}, NEW spans,
         \A i \in 1..n : spans[i] \in Spans /\ spans[i].lo <= spans[i].hi,
         NEW order, InTime(order, n, spans), NEW f, Swept(f, n, spans, order)
  PROVE  f[n - 1].total + f[n - 1].right - f[n - 1].left =
           Cardinality(UNION {Covered(spans[i]) : i \in 1..n})
<1> DEFINE base == [total |-> 0, left |-> spans[order[1]].lo, right |-> spans[order[1]].hi]
           C(k) == UNION {Covered(spans[order[i]]) : i \in 1..(k + 1)}
<1>1. /\ order \in Seq(1..n) /\ Len(order) = n /\ order # <<>>
      /\ \A i \in 1..n : order[i] \in 1..n
  BY ElementOfSeq DEF InTime
<1>2. /\ order[1] \in 1..n /\ spans[order[1]] \in Spans /\ spans[order[1]].lo <= spans[order[1]].hi
      /\ spans[order[1]].lo \in Int /\ spans[order[1]].hi \in Int
  BY <1>1 DEF Spans
<1>3. f[0] = base
  BY DEF Swept
<1> HIDE DEF base
<1> DEFINE T == {k \in 0..(n - 1) : Counted(f[k], C(k)) /\ f[k].left <= spans[order[k + 1]].lo}
<1>4. 0 \in T
  <2>1. C(0) = Covered(spans[order[1]])
    <3>1. 1..(0 + 1) = {1}
      OBVIOUS
    <3> QED
      BY <3>1
  <2>2. base.left = spans[order[1]].lo /\ base.right = spans[order[1]].hi /\ base.total = 0
    BY DEF base
  <2>3. Counted(base, Covered(spans[order[1]]))
    <3>1. PICK a \in Int, b \in Int : a = spans[order[1]].lo /\ b = spans[order[1]].hi /\ a <= b
      BY <1>2
    <3>2. Covered(spans[order[1]]) = a..(b - 1)
      BY <3>1 DEF Covered
    <3>3. IsFiniteSet(a..(b - 1)) /\ Cardinality(a..(b - 1)) = b - a
      BY <3>1, MonthsBetween
    <3>4. \A x \in a..(b - 1) : x \in Int /\ x < b
      OBVIOUS
    <3>5. 0 + b - a = b - a
      OBVIOUS
    <3> QED
      BY <2>2, <3>1, <3>2, <3>3, <3>4, <3>5 DEF Counted
  <2>4. Counted(f[0], C(0))
    BY <1>3, <2>1, <2>3
  <2>5. f[0].left <= spans[order[0 + 1]].lo
    <3>1. 0 + 1 = 1
      OBVIOUS
    <3> QED
      BY <1>2, <1>3, <2>2, <3>1
  <2> HIDE DEF C
  <2>6. 0 \in 0..(n - 1)
    OBVIOUS
  <2> QED
    BY <2>4, <2>5, <2>6
<1>5. ASSUME NEW k \in 0..((n - 1) - 1), k \in T PROVE k + 1 \in T
  <2>1. k + 1 \in 1..(n - 1) /\ k + 1 \in 1..n /\ k + 2 \in 1..n /\ (k + 1) - 1 = k /\ (k + 1) + 1 = k + 2
        /\ k + 1 \in 0..(n - 1) /\ k \in 0..(n - 1) /\ k + 1 < k + 2
    OBVIOUS
  <2> DEFINE v == spans[order[k + 2]]
  <2>2. v \in Spans /\ v.lo <= v.hi /\ v.lo \in Int
    BY <1>1, <2>1 DEF Spans
  <2>3. f[k] \in RunsMade /\ f[k + 1] = Extend(f[k], v)
    <3>1. f[k + 1] = Extend(f[(k + 1) - 1], spans[order[(k + 1) + 1]])
      BY <2>1 DEF Swept
    <3>2. f[k] \in RunsMade
      BY <2>1 DEF Swept
    <3> QED
      BY <2>1, <3>1, <3>2
  <2>4. f[k].left <= v.lo
    <3>1. f[k].left <= spans[order[k + 1]].lo /\ spans[order[k + 1]].lo <= v.lo
      BY <1>5, <2>1 DEF InTime
    <3>2. f[k].left \in Int /\ spans[order[k + 1]].lo \in Int
      BY <1>1, <2>1, <2>3 DEF Spans, RunsMade
    <3> QED
      BY <2>2, <3>1, <3>2
  <2>5. C(k + 1) = C(k) \cup Covered(v)
    <3>1. 1..((k + 1) + 1) = (1..(k + 1)) \cup {k + 2}
      BY <2>1
    <3> QED
      BY <3>1
  <2>6. Counted(f[k], C(k))
    BY <1>5
  <2> HIDE DEF C, v
  <2>7. Counted(Extend(f[k], v), C(k) \cup Covered(v)) /\ Extend(f[k], v).left <= v.lo
    BY <2>2, <2>3, <2>4, <2>6, CountedFurther
  <2>8. Counted(f[k + 1], C(k + 1)) /\ f[k + 1].left <= spans[order[(k + 1) + 1]].lo
    BY <2>1, <2>3, <2>5, <2>7 DEF v
  <2> QED
    BY <2>1, <2>8
<1>6. n - 1 \in T
  <2> HIDE DEF T
  <2>1. n - 1 \in Nat /\ n - 1 \in 0..(n - 1)
    OBVIOUS
  <2>2. \A k \in 0..(n - 1) : k \in T
    BY <1>4, <1>5, <2>1, Upwards
  <2> QED
    BY <2>1, <2>2
<1>7. Counted(f[n - 1], C(n - 1))
  BY <1>6
<1>8. C(n - 1) = UNION {Covered(spans[i]) : i \in 1..n}
  <2>1. (n - 1) + 1 = n
    OBVIOUS
  <2>2. \A i \in 1..n : order[i] \in 1..n
    BY <1>1
  <2>3. \A x \in 1..n : \E i \in 1..n : order[i] = x
    BY DEF InTime
  <2>4. C(n - 1) = UNION {Covered(spans[order[i]]) : i \in 1..n}
    BY <2>1
  <2>5. ASSUME NEW i \in 1..n PROVE \E k \in 1..n : Covered(spans[order[k]]) = Covered(spans[i])
    BY <2>3
  <2>6. ASSUME NEW k \in 1..n PROVE \E i \in 1..n : Covered(spans[order[k]]) = Covered(spans[i])
    BY <2>2
  <2>7. UNION {Covered(spans[order[i]]) : i \in 1..n} = UNION {Covered(spans[i]) : i \in 1..n}
    <3>1. \A x : (\E k \in 1..n : x \in Covered(spans[order[k]])) <=> (\E i \in 1..n : x \in Covered(spans[i]))
      BY <2>5, <2>6
    <3> QED
      BY <3>1
  <2> HIDE DEF C
  <2> QED
    BY <2>4, <2>7
<1> HIDE DEF C
<1> QED
  BY <1>7, <1>8 DEF Counted

\* union_years: the months that the periods cover.
LEMMA MonthsOfPeriods ==
  ASSUME NEW periods, IsList(periods), \A i \in DOMAIN periods : Period(periods[i]), NEW now \in Nat
  PROVE  UnionMonths(periods, now) =
           IF periods # <<>> /\ \A i \in DOMAIN periods : KnownPeriod(periods[i], now)
           THEN Cardinality(UNION {periods[i].start.at..(Until(periods[i], now) - 1) : i \in DOMAIN periods})
           ELSE Unknown
<1> DEFINE n == Len(periods)
           spans == [i \in DOMAIN periods |-> CHOOSE v \in Interval(periods[i], now) : TRUE]
           order == InOrder(DOMAIN spans, LAMBDA a, b : Earlier(spans, a, b))
           run == FoldLeft(LAMBDA r, i : Extend(r, spans[i]),
                           [total |-> 0, left |-> spans[order[1]].lo, right |-> spans[order[1]].hi],
                           Tail(order))
<1>1. n \in Nat /\ DOMAIN periods = 1..n
  BY ListShape
<1>2. \A i \in 1..n : Interval(periods[i], now) =
        IF KnownPeriod(periods[i], now) THEN {[lo |-> periods[i].start.at, hi |-> Until(periods[i], now)]} ELSE {}
  BY <1>1, IntervalOfPeriod
<1>3. UnionMonths(periods, now) =
        IF periods = <<>> \/ \E i \in DOMAIN periods : Interval(periods[i], now) = {} THEN Unknown
        ELSE run.total + run.right - run.left
  BY DEF UnionMonths
<1> HIDE DEF run
<1>4. CASE periods = <<>> \/ \E i \in 1..n : ~KnownPeriod(periods[i], now)
  BY <1>1, <1>2, <1>3, <1>4
<1>5. CASE periods # <<>> /\ \A i \in 1..n : KnownPeriod(periods[i], now)
  <2>1. \A i \in 1..n : spans[i] = [lo |-> periods[i].start.at, hi |-> Until(periods[i], now)]
    <3> SUFFICES ASSUME NEW i \in 1..n
                 PROVE  spans[i] = [lo |-> periods[i].start.at, hi |-> Until(periods[i], now)]
      OBVIOUS
    <3>1. Interval(periods[i], now) = {[lo |-> periods[i].start.at, hi |-> Until(periods[i], now)]}
      BY <1>2, <1>5
    <3>2. spans[i] = CHOOSE v \in Interval(periods[i], now) : TRUE
      BY <1>1
    <3> QED
      BY <3>1, <3>2
  <2>2. \A i \in 1..n : spans[i] \in Spans /\ spans[i].lo <= spans[i].hi
    <3> SUFFICES ASSUME NEW i \in 1..n PROVE spans[i] \in Spans /\ spans[i].lo <= spans[i].hi
      OBVIOUS
    <3>1. /\ periods[i].start.at \in Nat /\ periods[i].end.at \in Nat
          /\ KnownPeriod(periods[i], now)
      BY <1>1, <1>5 DEF Period
    <3>2. Until(periods[i], now) \in Nat /\ periods[i].start.at <= Until(periods[i], now)
      BY <3>1 DEF KnownPeriod, Until
    <3>3. spans[i] = [lo |-> periods[i].start.at, hi |-> Until(periods[i], now)]
      BY <2>1
    <3>4. PICK a \in Nat, b \in Nat : a = periods[i].start.at /\ b = Until(periods[i], now)
      BY <3>1, <3>2
    <3> HIDE DEF spans
    <3> QED
      BY <3>2, <3>3, <3>4 DEF Spans
  <2>3. n # 0
    <3>1. PICK V : periods \in Seq(V)
      BY DEF IsList
    <3> QED
      BY <1>5, <3>1
  <2>4. DOMAIN spans = 1..n
    BY <1>1
  <2> HIDE DEF n, spans
  <2>5. InTime(order, n, spans)
    BY <1>1, <2>2, <2>4, SpansInTime
  <2> DEFINE seq == Tail(order)
             base == [total |-> 0, left |-> spans[order[1]].lo, right |-> spans[order[1]].hi]
  <2>6. run = FoldLeft(LAMBDA r, i : Extend(r, spans[i]), base, seq)
    BY Zenon DEF run
  <2> HIDE DEF order
  <2>7. /\ order \in Seq(1..n) /\ Len(order) = n /\ order # <<>>
         /\ order[1] \in 1..n
    <3>1. order \in Seq(1..n) /\ Len(order) = n
      BY <2>5 DEF InTime
    <3> QED
      BY <1>1, <2>3, <3>1, ElementOfSeq
  <2>8. /\ seq \in Seq(1..n) /\ Len(seq) = n - 1
         /\ \A i \in 1..(n - 1) : seq[i] = order[i + 1]
    BY <2>7, HeadTailProperties
  <2>9. base \in RunsMade
    BY <2>2, <2>7 DEF RunsMade, Spans
  <2> HIDE DEF seq
  <2>10. PICK f : Sweeps(f, spans, seq, base)
    <3> HIDE DEF base
    <3> QED
      BY <2>2, <2>8, <2>9, SweepSteps
  <2>11. run = f[n - 1]
    BY <2>6, <2>8, <2>10 DEF Sweeps
  <2>12. Swept(f, n, spans, order)
    <3>1. /\ f \in [0..(n - 1) -> RunsMade] /\ f[0] = base
          /\ \A i \in 1..(n - 1) : f[i] = Extend(f[i - 1], spans[seq[i]])
      BY <2>8, <2>10 DEF Sweeps
    <3>2. \A i \in 1..(n - 1) : f[i] = Extend(f[i - 1], spans[order[i + 1]])
      BY <2>8, <3>1
    <3> QED
      BY <3>1, <3>2 DEF Swept
  <2>13. run.total + run.right - run.left = Cardinality(UNION {Covered(spans[i]) : i \in 1..n})
    <3>1. n \in Nat \ {0}
      BY <1>1, <2>3
    <3>2. f[n - 1].total + f[n - 1].right - f[n - 1].left =
            Cardinality(UNION {Covered(spans[i]) : i \in 1..n})
      BY <2>2, <2>5, <2>12, <3>1, SweepCounts
    <3> QED
      BY <2>11, <3>2
  <2>14. \A i \in 1..n : Covered(spans[i]) = periods[i].start.at..(Until(periods[i], now) - 1)
    <3>1. ASSUME NEW i \in 1..n
          PROVE  spans[i].lo = periods[i].start.at /\ spans[i].hi = Until(periods[i], now)
      <4>1. PICK a, b : a = periods[i].start.at /\ b = Until(periods[i], now)
        OBVIOUS
      <4>2. spans[i] = [lo |-> a, hi |-> b]
        BY <2>1, <4>1
      <4> QED
        BY <4>1, <4>2
    <3> QED
      BY <3>1 DEF Covered
  <2>15. {Covered(spans[i]) : i \in 1..n} = {periods[i].start.at..(Until(periods[i], now) - 1) : i \in 1..n}
    BY <2>14
  <2>16. \A i \in 1..n : Interval(periods[i], now) # {}
    BY <1>2, <1>5
  <2> QED
    BY <1>1, <1>3, <1>5, <2>13, <2>15, <2>16
<1> QED
  BY <1>1, <1>4, <1>5

-----------------------------------------------------------------------------
(* The lines of a resume and the dates of its jobs *)

\* A stretch of one line of a text.
Within(sp, text) ==
  /\ sp.start \in Nat /\ sp.end \in Nat /\ sp.start < sp.end /\ sp.end <= Len(text)
  /\ \A p \in (sp.start + 1)..sp.end : text[p] # "nl"

\* Every line that is read off a text is one.
LEMMA LinesAreWithin ==
  ASSUME NEW text, IsList(text)
  PROVE  \A n \in DOMAIN LineSpans(text) : Within(LineSpans(text)[n], text)
<1> DEFINE starts  == {i \in DOMAIN text : text[i] # "nl" /\ (i = 1 \/ text[i - 1] = "nl")}
           upTo(s) == {i \in s..Len(text) : \A k \in s..i : text[k] # "nl"}
           stop(s) == Max(upTo(s))
           ink(s)  == {i \in s..stop(s) : text[i] \notin Gaps}
           places  == {s \in starts : ink(s) # {}}
           seq     == [i \in DOMAIN text |-> i]
           inked   == Picked(seq, places)
           line(n) == [start |-> Min(ink(inked[n])) - 1, end |-> Max(ink(inked[n]))]
<1>1. LineSpans(text) = [n \in DOMAIN inked |-> line(n)]
  BY Zenon DEF LineSpans
<1>2. Len(text) \in Nat /\ DOMAIN text = 1..Len(text)
  BY ListShape
<1>3. ASSUME NEW s \in places
      PROVE  Within([start |-> Min(ink(s)) - 1, end |-> Max(ink(s))], text)
  <2>1. s \in 1..Len(text) /\ text[s] # "nl" /\ ink(s) # {}
    BY <1>2
  <2>2. upTo(s) \subseteq 1..Len(text) /\ s \in upTo(s)
    BY <1>2, <2>1
  <2> HIDE DEF upTo
  <2>3. stop(s) \in upTo(s)
    BY <1>2, <2>2, IntervalMinMax
  <2>4. stop(s) \in s..Len(text) /\ \A k \in s..stop(s) : text[k] # "nl"
    BY <2>3 DEF upTo
  <2> HIDE DEF stop
  <2>5. ink(s) \subseteq 1..Len(text) /\ ink(s) \subseteq s..stop(s)
    BY <1>2, <2>1, <2>4
  <2> HIDE DEF ink
  <2>6. PICK a, b : a = Min(ink(s)) /\ b = Max(ink(s))
    OBVIOUS
  <2>7. a \in ink(s) /\ b \in ink(s) /\ a <= b
    BY <1>2, <2>1, <2>5, <2>6, IntervalMinMax
  <2>8. a \in s..stop(s) /\ b \in s..stop(s) /\ a \in 1..Len(text) /\ b \in 1..Len(text)
    BY <2>5, <2>7
  <2>9. \A p \in ((a - 1) + 1)..b : p \in s..stop(s)
    BY <1>2, <2>1, <2>4, <2>8
  <2>10. \A p \in ((a - 1) + 1)..b : text[p] # "nl"
    BY <2>4, <2>9, Zenon
  <2>11. a - 1 \in Nat /\ b \in Nat /\ a - 1 < b /\ b <= Len(text)
    BY <1>2, <2>7, <2>8
  <2> QED
    BY <2>6, <2>10, <2>11 DEF Within
<1>4. ASSUME NEW n \in DOMAIN inked PROVE inked[n] \in places
  <2>1. seq = [i \in 1..Len(text) |-> i]
    BY <1>2
  <2>2. seq \in Seq(1..Len(text)) /\ Len(seq) = Len(text)
    BY <1>2, <2>1
  <2>3. \A i \in 1..Len(text) : seq[i] = i
    BY <2>1
  <2> HIDE DEF seq, places
  <2>4. /\ inked \in Seq(1..Len(text))
        /\ \A k \in 1..Len(inked) : \E i \in places \cap (1..Len(seq)) : inked[k] = seq[i]
    BY <2>2, PickedMembers
  <2> HIDE DEF inked
  <2>5. n \in 1..Len(inked)
    BY <1>4, <2>4
  <2> QED
    BY <2>2, <2>3, <2>4, <2>5
<1> HIDE DEF places, inked, ink
<1> QED
  BY <1>1, <1>3, <1>4

\* What follows the colon of an inline heading is not empty.
LEMMA CutIsInside ==
  ASSUME NEW words, IsList(words), Bare(words) \notin DOMAIN Headings, InlineAt(words) # {}
  PROVE  Min(InlineAt(words)) \in 1..(Len(words) - 1)
<1>1. Len(words) \in Nat /\ DOMAIN words = 1..Len(words)
  BY ListShape
<1>2. PICK k : k = Min(InlineAt(words))
  OBVIOUS
<1>3. InlineAt(words) \subseteq 1..Len(words)
  BY <1>1 DEF InlineAt
<1>4. k \in InlineAt(words)
  BY <1>1, <1>2, <1>3, IntervalMinMax
<1>5. k \in 1..Len(words) /\ words[k] = ":" /\ SubSeq(words, 1, k - 1) \in DOMAIN Headings
  BY <1>1, <1>4 DEF InlineAt
<1>6. k # Len(words)
  <2> SUFFICES ASSUME k = Len(words) PROVE FALSE
    OBVIOUS
  <2>1. words # <<>> /\ Last(words) = words[k] /\ Front(words) = SubSeq(words, 1, k - 1)
    BY <1>5 DEF Last, Front
  <2>2. words # <<>> /\ Last(words) = ":"
    BY <1>5, <2>1, Zenon
  <2>3. Bare(words) = Front(words)
    BY <2>2, Zenon DEF Bare
  <2> QED
    BY <1>5, <2>1, <2>3
<1> QED
  BY <1>1, <1>2, <1>5, <1>6

\* A slice of a list.
LEMMA SliceList ==
  ASSUME NEW text, IsList(text), NEW a \in Nat, NEW b \in Nat, a <= b, b <= Len(text)
  PROVE  IsList(Slice(text, a, b)) /\ Len(Slice(text, a, b)) = b - a
<1>1. Len(text) \in Nat /\ DOMAIN text = 1..Len(text)
  BY ListShape
<1> DEFINE s == Slice(text, a, b)
<1>2. s = [i \in 1..(b - a) |-> text[a + i]]
  BY <1>1 DEF Slice
<1>3. s = [i \in 1..(b - a) |-> s[i]] /\ b - a \in Nat
  BY <1>2
<1> HIDE DEF s
<1>4. IsList(s) /\ Len(s) = b - a
  BY <1>3, ListMade
<1> QED
  BY <1>4 DEF s

\* Less of a line is still within it.
LEMMA RestIsWithin ==
  ASSUME NEW text, IsList(text), NEW sp, Within(sp, text),
         NEW from \in 0..(Len(Slice(text, sp.start, sp.end)) - 1), NEW row,
         row.start = sp.start + from, row.end = sp.end
  PROVE  Within(row, text)
<1>1. Len(text) \in Nat /\ sp.start \in Nat /\ sp.end \in Nat /\ sp.start < sp.end /\ sp.end <= Len(text)
  BY ListShape DEF Within
<1>2. Len(Slice(text, sp.start, sp.end)) = sp.end - sp.start
  BY <1>1 DEF Slice, IsList
<1>3. sp.start + from \in Nat /\ sp.start + from < sp.end
  BY <1>1, <1>2
<1>4. \A p \in (sp.start + from + 1)..sp.end : p \in (sp.start + 1)..sp.end
  BY <1>1, <1>2
<1> QED
  BY <1>1, <1>3, <1>4 DEF Within

\* The lines of a text are a sequence.
LEMMA LinesAreListed ==
  ASSUME NEW text, IsList(text)
  PROVE  IsList(LineSpans(text))
<1> DEFINE seq == [i \in DOMAIN text |-> i]
<1>1. \E places : LET inked == Picked(seq, places)
                  IN LineSpans(text) = [n \in DOMAIN inked |-> LineSpans(text)[n]]
  BY DEF LineSpans
<1>2. PICK places : LET inked == Picked(seq, places)
                    IN LineSpans(text) = [n \in DOMAIN inked |-> LineSpans(text)[n]]
  BY <1>1
<1> DEFINE inked == Picked(seq, places)
           lines == LineSpans(text)
<1>3. lines = [n \in DOMAIN inked |-> lines[n]]
  BY <1>2
<1>4. IsList(seq)
  <2>1. seq = [i \in DOMAIN text |-> seq[i]]
    OBVIOUS
  <2> HIDE DEF seq
  <2> QED
    BY <2>1, MappedList
<1> HIDE DEF seq
<1>5. IsList(inked)
  BY <1>4, PickedList
<1> HIDE DEF inked, lines
<1>6. IsList(lines)
  BY <1>3, <1>5, MappedList
<1> QED
  BY <1>6 DEF lines

\* The rows of a resume are a list, each of a stretch of a line.
LEMMA RowsAreListed ==
  ASSUME NEW src, IsList(src.text)
  PROVE  IsList(Rows(src)) /\ \A i \in DOMAIN Rows(src) : Within(Rows(src)[i], src.text)
<1> DEFINE lines == LineSpans(src.text)
           words(sp) == Slice(src.text, sp.start, sp.end)
           row(sp, section, from) ==
              [words |-> SubSeq(words(sp), from + 1, Len(words(sp))), start |-> sp.start + from,
               end |-> sp.end, section |-> section]
           op(acc, sp) ==
             CASE Bare(words(sp)) \in DOMAIN Headings ->
                    [acc EXCEPT !.section = Headings[Bare(words(sp))]]
               [] Bare(words(sp)) \notin DOMAIN Headings /\ InlineAt(words(sp)) # {} ->
                    [section |-> Headings[SubSeq(words(sp), 1, Min(InlineAt(words(sp))) - 1)],
                     rows |-> Append(acc.rows, row(sp, Headings[SubSeq(words(sp), 1, Min(InlineAt(words(sp))) - 1)],
                                                   Min(InlineAt(words(sp)))))]
               [] Bare(words(sp)) \notin DOMAIN Headings /\ InlineAt(words(sp)) = {} /\ Boundary(words(sp)) ->
                    [acc EXCEPT !.section = "unknown"]
               [] OTHER -> [acc EXCEPT !.rows = Append(@, row(sp, acc.section, 0))]
           base == [section |-> "unknown", rows |-> <<>>]
           n == Len(lines)
           E(it) == it = [s \in SUBSET DOMAIN lines |->
                            IF s = {} THEN base ELSE op(it[s \ {Max(s)}], lines[Max(s)])]
           u == CHOOSE it : E(it)
           Spoken == {lines[i] : i \in DOMAIN lines}
           Sections == {"unknown"} \cup {Headings[h] : h \in DOMAIN Headings}
                         \cup {Headings[SubSeq(words(sp), 1, Min(InlineAt(words(sp))) - 1)] : sp \in Spoken}
           Cuts == {0} \cup {Min(InlineAt(words(sp))) : sp \in Spoken}
           All == UNION {{row(sp, section, from) : section \in Sections, from \in Cuts} : sp \in Spoken}
           R == {r \in All : Within(r, src.text)}
           W == [section : Sections, rows : Seq(R)]
           step == [p \in (1..n) \X W |-> op(p[2], lines[p[1]])]
<1>1. Rows(src) = u[DOMAIN lines].rows
  BY Zenon DEF Rows, FoldLeft, MapThenFoldSet
<1>2. n \in Nat /\ DOMAIN lines = 1..n
  BY LinesAreListed, ListShape
<1>3. base \in W
  OBVIOUS
<1>4. ASSUME NEW acc \in W, NEW sp \in Spoken PROVE op(acc, sp) \in W
  <2> DEFINE room == Len(words(sp))
  <2>1. Within(sp, src.text) /\ IsList(words(sp)) /\ room = sp.end - sp.start
    <3>1. \A i \in DOMAIN lines : Within(lines[i], src.text)
      BY LinesAreWithin
    <3>2. Within(sp, src.text)
      <4> HIDE DEF lines
      <4> QED
        BY <3>1
    <3>3. Len(src.text) \in Nat
      BY ListShape
    <3>4. IsList(words(sp)) /\ room = sp.end - sp.start
      <4> HIDE DEF lines, Spoken
      <4>1. sp.start \in Nat /\ sp.end \in Nat /\ sp.start <= sp.end /\ sp.end <= Len(src.text)
        BY <3>2, <3>3 DEF Within
      <4> HIDE DEF W
      <4> QED
        BY <4>1, SliceList
    <3> QED
      BY <3>2, <3>4
  <2>2. ASSUME NEW section \in Sections, NEW from \in Cuts, from \in 0..(room - 1)
        PROVE  row(sp, section, from) \in R
    <3>1. row(sp, section, from).start = sp.start + from /\ row(sp, section, from).end = sp.end
      OBVIOUS
    <3> HIDE DEF Sections, Cuts, Spoken, row
    <3>2. Within(row(sp, section, from), src.text)
      BY <2>1, <2>2, <3>1, RestIsWithin
    <3>3. row(sp, section, from) \in {row(sp, s, f) : s \in Sections, f \in Cuts}
      OBVIOUS
    <3>4. row(sp, section, from) \in All
      BY <3>3
    <3> HIDE DEF All
    <3> QED
      BY <3>2, <3>4
  <2>3. 0 \in 0..(room - 1)
    <3> HIDE DEF lines, Spoken
    <3> HIDE DEF words
    <3> QED
      BY <2>1 DEF Within
  <2>4. acc.section \in Sections /\ acc.rows \in Seq(R)
    <3> HIDE DEF Sections, R
    <3> QED
      OBVIOUS
  <2> DEFINE cut(w) == Min(InlineAt(w))
             heading(w) == SubSeq(w, 1, cut(w) - 1)
  <2>5. cut(words(sp)) \in Cuts /\ Headings[heading(words(sp))] \in Sections
    <3> HIDE DEF words, Spoken
    <3> QED
      OBVIOUS
  <2>6. 0 \in Cuts /\ "unknown" \in Sections
        /\ \A g \in DOMAIN Headings : Headings[g] \in Sections
    <3> HIDE DEF words, Spoken
    <3> QED
      OBVIOUS
  <2> HIDE DEF R, All, Sections, Cuts, Spoken, row
  <2>7. CASE Bare(words(sp)) \in DOMAIN Headings
    <3>1. op(acc, sp) = [acc EXCEPT !.section = Headings[Bare(words(sp))]]
      BY <2>7
    <3> QED
      BY <2>6, <2>7, <3>1
  <2>8. CASE Bare(words(sp)) \notin DOMAIN Headings /\ InlineAt(words(sp)) # {}
    <3>1. PICK g, k : g = Headings[heading(words(sp))] /\ k = cut(words(sp))
      <4> HIDE DEF heading, cut, words
      <4> QED
        OBVIOUS
    <3>2. op(acc, sp) = [section |-> g, rows |-> Append(acc.rows, row(sp, g, k))]
      BY <2>8, <3>1
    <3>3. g \in Sections /\ k \in Cuts
      <4> HIDE DEF heading, cut, words
      <4> QED
        BY <2>5, <3>1
    <3> HIDE DEF op
    <3>4. k \in 0..(room - 1)
      <4>1. k \in 1..(room - 1)
        BY <2>1, <2>8, <3>1, CutIsInside
      <4> HIDE DEF words, op
      <4> QED
        BY <4>1
    <3>5. row(sp, g, k) \in R
      BY <2>2, <3>3, <3>4
    <3> QED
      BY <2>4, <3>2, <3>3, <3>5
  <2>9. CASE Bare(words(sp)) \notin DOMAIN Headings /\ InlineAt(words(sp)) = {} /\ Boundary(words(sp))
    <3>1. op(acc, sp) = [acc EXCEPT !.section = "unknown"]
      BY <2>9
    <3> QED
      BY <2>6, <3>1
  <2>10. CASE Bare(words(sp)) \notin DOMAIN Headings /\ InlineAt(words(sp)) = {} /\ ~Boundary(words(sp))
    <3>1. op(acc, sp) = [acc EXCEPT !.rows = Append(@, row(sp, acc.section, 0))]
      BY <2>10
    <3>2. row(sp, acc.section, 0) \in R
      BY <2>2, <2>4, <2>6, <2>3
    <3>3. PICK new : new = row(sp, acc.section, 0)
      OBVIOUS
    <3>4. new \in R /\ op(acc, sp) = [acc EXCEPT !.rows = Append(@, new)]
      BY <3>1, <3>2, <3>3
    <3> HIDE DEF op, row, words
    <3> QED
      BY <2>4, <3>4
  <2> QED
    BY <2>7, <2>8, <2>9, <2>10
<1>5. step \in [(1..n) \X W -> W]
  <2> HIDE DEF W, op
  <2>1. \A i \in 1..n : lines[i] \in Spoken
    BY <1>2
  <2> HIDE DEF Spoken
  <2> QED
    BY <1>4, <2>1
<1>6. \A i \in 1..n, a \in W : step[<<i, a>>] = op(a, lines[i])
  <2> HIDE DEF W, op
  <2> QED
    OBVIOUS
<1> HIDE DEF n, step, op, base
<1>7. PICK f : FoldedBy(f, u, n, W, base, step)
  <2> HIDE DEF W, lines
  <2>1. \E it : E(it)
    <3>1. PICK it : TakesOff(it, n, W, base, step)
      BY <1>2, <1>3, <1>5, FoldExists
    <3>2. \A s \in SUBSET (1..n) :
            it[s] = IF s = {} THEN base ELSE op(it[s \ {Max(s)}], lines[Max(s)])
      BY <1>6, <3>1 DEF TakesOff
    <3>3. it = [s \in SUBSET (1..n) |-> it[s]]
      BY <3>1 DEF TakesOff
    <3>4. E(it)
      BY <1>2, <3>2, <3>3, Zenon
    <3> QED
      BY <3>4
  <2>2. E(u)
    BY <2>1
  <2> HIDE DEF u
  <2>3. u[{}] = base
    BY <2>2
  <2>4. ASSUME NEW s \in SUBSET (1..n), s # {}, u[s \ {Max(s)}] \in W
        PROVE  u[s] = step[<<Max(s), u[s \ {Max(s)}]>>]
    <3>1. Max(s) \in 1..n
      BY <1>2, <2>4, IntervalMinMax
    <3> QED
      BY <1>2, <1>6, <2>2, <2>4, <3>1
  <2> HIDE DEF E
  <2> QED
    BY <1>2, <1>3, <1>5, <2>3, <2>4, FoldSteps
<1> HIDE DEF u
<1>8. u[DOMAIN lines] \in W
  <2> HIDE DEF W, lines
  <2>1. f[n] \in W /\ f[n] = u[1..n]
    BY <1>2, <1>7 DEF FoldedBy, Recursion
  <2> QED
    BY <1>2, <2>1
<1>9. Rows(src) \in Seq(R)
  <2> HIDE DEF R, Sections
  <2> QED
    BY <1>1, <1>8
<1>10. Len(Rows(src)) \in Nat /\ Rows(src) = [i \in 1..Len(Rows(src)) |-> Rows(src)[i]]
  <2> HIDE DEF R
  <2> QED
    BY <1>9
<1>11. \A i \in 1..Len(Rows(src)) : Within(Rows(src)[i], src.text)
  <2>1. \A r \in R : Within(r, src.text)
    <3> HIDE DEF All
    <3> QED
      OBVIOUS
  <2> HIDE DEF R
  <2> QED
    BY <1>9, <1>10, <2>1
<1> QED
  BY <1>10, <1>11, ListMade

\* What a date parser may return.
Dates == [unit : {"none", "present", "month", "year"}, at : Nat]

\* A calendar word is read as a date (CalendarAssumption).
LEMMA ParsedDates ==
  ASSUME NEW w \in DOMAIN Calendar
  PROVE  ParseDate(w) \in Dates
<1>1. PICK d : d = Calendar[w]
  OBVIOUS
<1>2. d \in [unit : STRING, year : Nat, month : Nat]
  BY <1>1, CalendarAssumption
<1>3. d.year \in Nat /\ d.month \in Nat
  BY <1>2
<1>4. d.year * 12 \in Nat /\ (d.month \in 1..12 => d.year * 12 + d.month - 1 \in Nat)
  BY <1>3
<1>5. ParseDate(w) = CASE d.unit = "present" -> [unit |-> "present", at |-> 0]
                       [] d.unit = "month" /\ d.year \in 1900..2200 /\ d.month \in 1..12 ->
                            [unit |-> "month", at |-> d.year * 12 + d.month - 1]
                       [] d.unit = "year" /\ d.year \in 1900..2200 -> [unit |-> "year", at |-> d.year * 12]
                       [] OTHER -> NoDate
  BY <1>1 DEF ParseDate
<1>6. [unit |-> "present", at |-> 0] \in Dates /\ NoDate \in Dates
      /\ [unit |-> "year", at |-> d.year * 12] \in Dates
      /\ (d.month \in 1..12 => [unit |-> "month", at |-> d.year * 12 + d.month - 1] \in Dates)
  BY <1>4 DEF Dates, NoDate
<1>7. \/ ParseDate(w) = [unit |-> "present", at |-> 0]
      \/ d.month \in 1..12 /\ ParseDate(w) = [unit |-> "month", at |-> d.year * 12 + d.month - 1]
      \/ ParseDate(w) = [unit |-> "year", at |-> d.year * 12]
      \/ ParseDate(w) = NoDate
  <2>1. CASE d.unit = "present"
    BY <1>5, <2>1
  <2>2. CASE d.unit = "month" /\ d.year \in 1900..2200 /\ d.month \in 1..12
    BY <1>5, <2>2
  <2>3. CASE d.unit = "year" /\ d.year \in 1900..2200
    BY <1>5, <2>3
  <2>4. CASE /\ d.unit # "present" /\ ~(d.unit = "month" /\ d.year \in 1900..2200 /\ d.month \in 1..12)
             /\ ~(d.unit = "year" /\ d.year \in 1900..2200)
    BY <1>5, <2>4
  <2> QED
    BY <2>1, <2>2, <2>3, <2>4
<1> QED
  BY <1>6, <1>7

\* The two dates of a line are dates, whatever the line says.
LEMMA ExtractedDates ==
  ASSUME NEW words
  PROVE  /\ ExtractDates(words).start \in Dates /\ ExtractDates(words).end \in Dates
         /\ ExtractDates(words).valid \in BOOLEAN
<1>1. CASE Cardinality(RangesIn(words)) # 1
  <2>1. ExtractDates(words) = [start |-> NoDate, end |-> NoDate, valid |-> FALSE]
    BY <1>1 DEF ExtractDates
  <2>2. NoDate \in Dates
    BY DEF NoDate, Dates
  <2> QED
    BY <2>1, <2>2
<1>2. CASE Cardinality(RangesIn(words)) = 1
  <2>1. RangesIn(words) # {}
    BY <1>2, FS_EmptySet
  <2>2. PICK at \in RangesIn(words) : at = CHOOSE i \in RangesIn(words) : TRUE
    BY <2>1
  <2>3. words[at] \in DOMAIN Calendar /\ words[at + 2] \in DOMAIN Calendar
    BY DEF RangesIn
  <2>4. ParseDate(words[at]) \in Dates /\ ParseDate(words[at + 2]) \in Dates
    BY <2>3, ParsedDates
  <2>5. PICK s, e : s = ParseDate(words[at]) /\ e = ParseDate(words[at + 2])
    OBVIOUS
  <2>6. ExtractDates(words) = [start |-> s, end |-> e,
                               valid |-> s.unit \notin {"none", "present"} /\ e.unit # "none"]
    BY <1>2, <2>2, <2>5 DEF ExtractDates
  <2> QED
    BY <2>4, <2>5, <2>6
<1> QED
  BY <1>1, <1>2

\* Every job of a profile has two dates, which may be unknown.
Dated(e) == e.start \in Dates /\ e.end \in Dates

\* Afresh of an accumulator, field by field.
LEMMA AfreshRow ==
  ASSUME NEW jb, NEW rs, NEW ti, NEW og, NEW un
  PROVE  Afresh([jobs |-> jb, rows |-> rs, title |-> ti, org |-> og, undated |-> un])
           = [jobs |-> jb, rows |-> <<>>, title |-> <<>>, org |-> <<>>, undated |-> un]
BY DEF Afresh

\* Gather of an accumulator, field by field.
LEMMA GatheredRow ==
  ASSUME NEW jb, NEW rs, NEW ti, NEW og, NEW un, NEW row
  PROVE  Gather([jobs |-> jb, rows |-> rs, title |-> ti, org |-> og, undated |-> un], row)
           = [jobs |-> jb, rows |-> Append(rs, row), title |-> ti, org |-> og, undated |-> un]
BY DEF Gather

\* Every job that the state machine over the lines makes has two dates.
LEMMA JobsAreDated ==
  ASSUME NEW src, NEW rows, IsList(rows), NEW orgLines
  PROVE  LET jobs == Experiences(src, rows, orgLines).jobs
         IN IsList(jobs) /\ \A i \in DOMAIN jobs : Dated(jobs[i])
<1> DEFINE R == {rows[i] : i \in DOMAIN rows}
           Heads == UNION {RoleHeader(WithoutRanges(r.words)) : r \in R}
           Titles == {<<>>} \cup {h.title : h \in Heads}
           Orgs == {<<>>} \cup {h.org : h \in Heads} \cup {Value(r.words) : r \in R} \cup {r.words : r \in R}
           Refs == {RefsOf(src, rs) : rs \in Seq(R)}
           Works == [title : Titles, org : Orgs, start : Dates, end : Dates, evidence : Refs]
           W == [jobs : Seq(Works), rows : Seq(R), title : Titles, org : Orgs, undated : BOOLEAN]
           base == [jobs |-> <<>>, rows |-> <<>>, title |-> <<>>, org |-> <<>>, undated |-> FALSE]
           op(acc, row) == JobRow(src, orgLines, acc, row)
           n == Len(rows)
           E(it) == it = [s \in SUBSET DOMAIN rows |->
                            IF s = {} THEN base ELSE op(it[s \ {Max(s)}], rows[Max(s)])]
           u == CHOOSE it : E(it)
           step == [p \in (1..n) \X W |-> op(p[2], rows[p[1]])]
<1>1. Experiences(src, rows, orgLines) = FinishJob(src, u[DOMAIN rows])
  BY Zenon DEF Experiences, FoldLeft, MapThenFoldSet
<1>2. n \in Nat /\ DOMAIN rows = 1..n
  BY ListShape
<1>3. base \in W
  OBVIOUS
<1> HIDE DEF u
<1>4. ASSUME NEW acc \in W PROVE FinishJob(src, acc) \in W
  <2>1. CASE acc.rows = <<>>
    BY <2>1 DEF FinishJob
  <2>2. CASE acc.rows # <<>>
    <3> HIDE DEF R, Titles, Orgs, Refs, Works
    <3>1. PICK d : d = ExtractDates(FlattenSeq([i \in DOMAIN acc.rows |-> acc.rows[i].words]))
      OBVIOUS
    <3>2. d.start \in Dates /\ d.end \in Dates /\ d.valid \in BOOLEAN
      BY <3>1, ExtractedDates
    <3>3. acc.rows \in Seq(R) /\ acc.title \in Titles /\ acc.org \in Orgs /\ acc.jobs \in Seq(Works)
          /\ acc.undated \in BOOLEAN
      OBVIOUS
    <3>4. RefsOf(src, acc.rows) \in Refs
      BY <3>3 DEF Refs
    <3> DEFINE job == [title |-> acc.title, org |-> acc.org, start |-> d.start, end |-> d.end,
                       evidence |-> RefsOf(src, acc.rows)]
    <3>5. job \in Works
      BY <3>2, <3>3, <3>4 DEF Works
    <3>6. FinishJob(src, acc) = [acc EXCEPT !.jobs = Append(@, job), !.undated = @ \/ ~d.valid]
      BY <2>2, <3>1 DEF FinishJob
    <3> HIDE DEF job
    <3>7. Append(acc.jobs, job) \in Seq(Works)
      BY <3>3, <3>5
    <3>8. (acc.undated \/ ~d.valid) \in BOOLEAN
      OBVIOUS
    <3> QED
      BY <3>6, <3>7, <3>8
  <2> QED
    BY <2>1, <2>2
<1>5. ASSUME NEW acc \in W, NEW row \in R PROVE op(acc, row) \in W
  <2> DEFINE header == RoleHeader(WithoutRanges(row.words))
             closed == IF acc.org # <<>> THEN Afresh(FinishJob(src, acc)) ELSE acc
  <2>1. /\ \A h \in header : h.title \in Titles /\ h.org \in Orgs
        /\ <<>> \in Titles /\ <<>> \in Orgs /\ Value(row.words) \in Orgs /\ row.words \in Orgs
        /\ <<row>> \in Seq(R)
    <3>1. \A h \in header : h \in Heads
      <4> HIDE DEF R
      <4> QED
        OBVIOUS
    <3> HIDE DEF header, R, Heads
    <3> QED
      BY <3>1
  <2>2. FinishJob(src, acc) \in W
    BY <1>4
  <2> HIDE DEF R, Titles, Orgs, Refs, Works
  <2>3. \A a \in W : /\ Afresh(a) \in W /\ Gather(a, row) \in W
                     /\ [a EXCEPT !.org = Value(row.words)] \in W
                     /\ [a EXCEPT !.org = row.words] \in W
    <3>1. SUFFICES ASSUME NEW a \in W
                   PROVE  /\ Afresh(a) \in W /\ Gather(a, row) \in W
                          /\ [a EXCEPT !.org = Value(row.words)] \in W
                          /\ [a EXCEPT !.org = row.words] \in W
      OBVIOUS
    <3>2. /\ a.jobs \in Seq(Works) /\ a.rows \in Seq(R) /\ a.title \in Titles
          /\ a.org \in Orgs /\ a.undated \in BOOLEAN
          /\ a = [jobs |-> a.jobs, rows |-> a.rows, title |-> a.title, org |-> a.org, undated |-> a.undated]
      BY <3>1
    <3>3. Append(a.rows, row) \in Seq(R) /\ <<>> \in Seq(R)
      BY <3>2
    <3>4. PICK jb \in Seq(Works), rs \in Seq(R), ti \in Titles, og \in Orgs, un \in BOOLEAN :
             a = [jobs |-> jb, rows |-> rs, title |-> ti, org |-> og, undated |-> un]
      BY <3>2
    <3>5. a = [jobs |-> jb, rows |-> rs, title |-> ti, org |-> og, undated |-> un]
      BY <3>4
    <3>6. Afresh(a) = [jobs |-> jb, rows |-> <<>>, title |-> <<>>, org |-> <<>>, undated |-> un]
      <4> HIDE DEF W
      <4> QED
      BY <3>5, AfreshRow
    <3>7. Gather(a, row) = [jobs |-> jb, rows |-> Append(rs, row), title |-> ti, org |-> og, undated |-> un]
      <4> HIDE DEF W
      <4> QED
      BY <3>5, GatheredRow
    <3>8. \A o \in Orgs : [a EXCEPT !.org = o] \in W
      BY <3>1
    <3>9. Afresh(a) \in W
      BY <2>1, <3>3, <3>6
    <3>10. Gather(a, row) \in W
      BY <3>3, <3>7, <3>4
    <3> HIDE DEF W
    <3> QED
      BY <2>1, <3>8, <3>9, <3>10
  <2>4. closed \in W
    <3> HIDE DEF W
    <3> QED
      BY <2>2, <2>3
  <2>5. \A a \in W, h \in header : [a EXCEPT !.rows = <<row>>, !.title = h.title, !.org = h.org] \in W
    <3> HIDE DEF header
    <3> QED
      BY <2>1
  <2>6. CASE row.section # "experience"
    <3> HIDE DEF W
    <3> QED
      BY <2>2, <2>3, <2>6 DEF JobRow
  <2>7. CASE row.section = "experience" /\ header # {}
    <3>1. PICK h \in header : h = CHOOSE x \in header : TRUE
      BY <2>7
    <3>2. op(acc, row) = [FinishJob(src, acc) EXCEPT !.rows = <<row>>, !.title = h.title, !.org = h.org]
      BY <2>7, <3>1 DEF JobRow
    <3> HIDE DEF W, op, header
    <3> QED
      BY <2>2, <2>5, <3>2
  <2>8. CASE row.section = "experience" /\ header = {} /\ Labelled(row.words, "company")
    <3>1. op(acc, row) = Gather([closed EXCEPT !.org = Value(row.words)], row)
      BY <2>8 DEF JobRow
    <3>2. [closed EXCEPT !.org = Value(row.words)] \in W
      <4> HIDE DEF W, closed
      <4> QED
        BY <2>3, <2>4
    <3> HIDE DEF W, op, closed
    <3> QED
      BY <2>3, <3>1, <3>2
  <2>9. CASE row.section = "experience" /\ header = {} /\ ~Labelled(row.words, "company")
    <3>1. op(acc, row) =
            IF acc.rows # <<>>
            THEN Gather([acc EXCEPT !.org = IF @ = <<>> /\ RowSpan(row) \in orgLines
                                            THEN row.words ELSE @], row)
            ELSE IF RangesIn(row.words) # {} THEN Gather(acc, row) ELSE acc
      BY <2>9 DEF JobRow
    <3>2. [acc EXCEPT !.org = IF @ = <<>> /\ RowSpan(row) \in orgLines
                              THEN row.words ELSE @] \in W
      BY <2>1
    <3> HIDE DEF W, op
    <3> QED
      BY <2>3, <3>1, <3>2
  <2> QED
    BY <2>6, <2>7, <2>8, <2>9
<1>6. step \in [(1..n) \X W -> W]
  <2> HIDE DEF W, op
  <2>1. \A i \in 1..n : rows[i] \in R
    BY <1>2
  <2> HIDE DEF R
  <2> QED
    BY <1>5, <2>1
<1>7. \A i \in 1..n, a \in W : step[<<i, a>>] = op(a, rows[i])
  <2> HIDE DEF W, op
  <2> QED
    OBVIOUS
<1> HIDE DEF n, step, op, base
<1>8. PICK f : FoldedBy(f, u, n, W, base, step)
  <2> HIDE DEF W
  <2>1. \E it : E(it)
    <3>1. PICK it : TakesOff(it, n, W, base, step)
      BY <1>2, <1>3, <1>6, FoldExists
    <3>2. \A s \in SUBSET (1..n) :
            it[s] = IF s = {} THEN base ELSE op(it[s \ {Max(s)}], rows[Max(s)])
      BY <1>7, <3>1 DEF TakesOff
    <3>3. it = [s \in SUBSET (1..n) |-> it[s]]
      BY <3>1 DEF TakesOff
    <3>4. E(it)
      BY <1>2, <3>2, <3>3, Zenon
    <3> QED
      BY <3>4
  <2>2. E(u)
    BY <2>1 DEF u
  <2>3. u[{}] = base
    BY <2>2
  <2>4. ASSUME NEW s \in SUBSET (1..n), s # {}, u[s \ {Max(s)}] \in W
        PROVE  u[s] = step[<<Max(s), u[s \ {Max(s)}]>>]
    <3>1. Max(s) \in 1..n
      BY <1>2, <2>4, IntervalMinMax
    <3> QED
      BY <1>2, <1>7, <2>2, <2>4, <3>1
  <2> HIDE DEF E
  <2> QED
    BY <1>2, <1>3, <1>6, <2>3, <2>4, FoldSteps
<1>9. u[DOMAIN rows] \in W
  <2> HIDE DEF W
  <2>1. f[n] \in W /\ f[n] = u[1..n]
    BY <1>2, <1>8 DEF FoldedBy, Recursion
  <2> QED
    BY <1>2, <2>1
<1>10. Experiences(src, rows, orgLines) \in W
  <2> HIDE DEF W
  <2> QED
    BY <1>1, <1>4, <1>9
<1> DEFINE jobs == Experiences(src, rows, orgLines).jobs
<1>11. jobs \in Seq(Works)
  <2> HIDE DEF Works, Orgs, Titles, R
  <2> QED
    BY <1>10
<1>12. /\ Len(jobs) \in Nat /\ DOMAIN jobs = 1..Len(jobs) /\ jobs = [i \in 1..Len(jobs) |-> jobs[i]]
       /\ \A i \in 1..Len(jobs) : jobs[i] \in Works
  <2> HIDE DEF Works, jobs
  <2> QED
    BY <1>11, ElementOfSeq
<1>13. \A i \in DOMAIN jobs : Dated(jobs[i])
  <2> HIDE DEF jobs, Titles, Orgs, Refs
  <2> QED
    BY <1>12 DEF Dated
<1> QED
  <2> HIDE DEF jobs
  <2>1. IsList(jobs)
    BY <1>12, ListMade
  <2> QED
    BY <1>13, <2>1 DEF jobs

-----------------------------------------------------------------------------
(* The resume's stages *)

\* What assembly makes of chunks, and what it lets through.
SourceOf(parts) == SourceFrom(parts, Resume, 1)

\* A source is what assemble_text makes of some chunks within the limit.
SourceOK(s) ==
  \E parts : /\ Chunks(parts) /\ parts # <<>> /\ s = SourceOf(parts)
             /\ Len(s.text) <= MaxTextChars

\* The text of such a source is not empty and is within the limit.
LEMMA SourceText ==
  ASSUME NEW s, SourceOK(s)
  PROVE  s.text \in Texts /\ IsList(s.text) /\ Len(s.text) \in 1..MaxTextChars
<1>1. PICK parts : /\ Chunks(parts) /\ parts # <<>> /\ s = SourceOf(parts)
                   /\ Len(s.text) <= MaxTextChars
  BY DEF SourceOK
<1>2. PICK t : t = Joined(parts, <<"nl", "nl">>)
  OBVIOUS
<1>3. t \in Texts /\ Len(t) \in Nat \ {0}
  BY <1>1, <1>2, JoinedLength
<1>4. s.text = t
  BY <1>1, <1>2 DEF SourceOf, SourceFrom
<1>5. Len(t) \in Nat /\ t = [i \in 1..Len(t) |-> t[i]]
  BY <1>3 DEF Texts
<1>6. IsList(t)
  BY <1>5, ListMade
<1>7. Len(t) \in 1..MaxTextChars
  BY <1>1, <1>3, <1>4, LimitsAssumption
<1> QED
  BY <1>3, <1>4, <1>6, <1>7

\* The paragraphs as a document.
LEMMA DocumentType ==
  ASSUME draft \in Seq(Nodes), NEW cut \in 0..1, cut <= Len(draft), NEW faults
  PROVE  LET doc == Document(cut, faults)
         IN /\ doc.headers \in Seq(Nodes) /\ doc.body \in Seq(Nodes)
            /\ doc.footers \in Seq(Nodes) /\ doc.pages \in Seq(Seq(Nodes))
<1>1. SubSeq(draft, 1, cut) \in Seq(Nodes)
  BY SubSeqType
<1>2. SubSeq(draft, cut + 1, Len(draft)) \in Seq(Nodes)
  <2>1. cut + 1 \in Nat \ {0} /\ Len(draft) \in 0..Len(draft)
    OBVIOUS
  <2> QED
    BY <2>1, SubSeqType
<1>3. [i \in DOMAIN draft |-> <<draft[i]>>] \in Seq(Seq(Nodes)) /\ <<draft>> \in Seq(Seq(Nodes))
  <2>1. \A i \in 1..Len(draft) : <<draft[i]>> \in Seq(Nodes)
    BY ElementOfSeq
  <2>2. [i \in DOMAIN draft |-> <<draft[i]>>] \in Seq(Seq(Nodes))
    <3> DEFINE one == [i \in DOMAIN draft |-> <<draft[i]>>]
               P == Seq(Nodes)
    <3>1. DOMAIN draft = 1..Len(draft) /\ Len(draft) \in Nat
      OBVIOUS
    <3>2. \A i \in 1..Len(draft) : one[i] \in P
      BY <2>1, <3>1
    <3>3. one = [i \in 1..Len(draft) |-> one[i]]
      BY <3>1
    <3> HIDE DEF one, P
    <3>4. one \in Seq(P)
      BY <3>1, <3>2, <3>3
    <3> QED
      BY <3>4 DEF one, P
  <2>3. <<draft>> \in Seq(Seq(Nodes))
    OBVIOUS
  <2> QED
    BY <2>2, <2>3
<1>4. <<>> \in Seq(Nodes)
  OBVIOUS
<1> QED
  BY <1>1, <1>2, <1>3, <1>4 DEF Document

\* What assemble_text lets through is such a source.
LEMMA AssembledIsSource ==
  ASSUME NEW blocks \in Seq(Texts), Assembled(blocks, Resume, 1).error = ""
  PROVE  SourceOK(Assembled(blocks, Resume, 1).source)
<1>1. PICK parts : /\ Chunks(parts)
                   /\ Assembled(blocks, Resume, 1) = [error |-> LimitCode(parts), source |-> SourceFrom(parts, Resume, 1)]
  BY AssembledParts
<1>2. LimitCode(parts) = "" /\ Assembled(blocks, Resume, 1).source = SourceOf(parts)
  <2>1. PICK c, s, r : c = LimitCode(parts) /\ s = SourceFrom(parts, Resume, 1) /\ r = Assembled(blocks, Resume, 1)
    OBVIOUS
  <2>2. r = [error |-> c, source |-> s]
    BY <1>1, <2>1
  <2>3. r.error = c /\ r.source = s
    BY <2>2
  <2>4. c = "" /\ Assembled(blocks, Resume, 1).source = s
    BY <2>1, <2>3, Zenon
  <2> QED
    BY <2>1, <2>4 DEF SourceOf
<1>3. parts # <<>> /\ Len(Joined(parts, <<"nl", "nl">>)) <= MaxTextChars
  BY <1>1, <1>2, LimitsHold
<1>4. SourceOf(parts).text = Joined(parts, <<"nl", "nl">>)
  BY DEF SourceOf, SourceFrom
<1> QED
  BY <1>1, <1>2, <1>3, <1>4 DEF SourceOK

\* The months that a list of jobs covers.
MonthsCounted(months, jobs) ==
  months = IF jobs # <<>> /\ \A i \in DOMAIN jobs : KnownPeriod(jobs[i], Now)
           THEN Cardinality(UNION {jobs[i].start.at..(Until(jobs[i], Now) - 1) : i \in DOMAIN jobs})
           ELSE Unknown

\* The jobs of a profile have dates.
JobsOK(jobs) == IsList(jobs) /\ \A i \in DOMAIN jobs : Dated(jobs[i])

\* union_years of a profile's jobs counts the months that they cover, once each.
LEMMA MonthsOfJobs ==
  ASSUME NEW jobs, JobsOK(jobs)
  PROVE  MonthsCounted(UnionMonths([i \in DOMAIN jobs |-> [start |-> jobs[i].start, end |-> jobs[i].end]], Now),
                       jobs)
<1> DEFINE periods == [i \in DOMAIN jobs |-> [start |-> jobs[i].start, end |-> jobs[i].end]]
<1>1. IsList(periods) /\ DOMAIN periods = DOMAIN jobs /\ Len(periods) = Len(jobs)
  <2>1. periods = [i \in DOMAIN jobs |-> periods[i]]
    OBVIOUS
  <2> HIDE DEF periods
  <2> QED
    BY <2>1, MappedList DEF JobsOK
<1>2. \A i \in DOMAIN jobs : periods[i].start = jobs[i].start /\ periods[i].end = jobs[i].end
  OBVIOUS
<1> HIDE DEF periods
<1>3. \A i \in DOMAIN jobs : Period(periods[i])
  BY <1>2 DEF JobsOK, Dated, Dates, Period
<1>4. \A i \in DOMAIN jobs : /\ KnownPeriod(periods[i], Now) <=> KnownPeriod(jobs[i], Now)
                             /\ Until(periods[i], Now) = Until(jobs[i], Now)
  BY <1>2 DEF KnownPeriod, Until
<1>5. periods # <<>> <=> jobs # <<>>
  <2>1. Len(periods) \in Nat /\ Len(jobs) \in Nat /\ DOMAIN jobs = 1..Len(jobs)
    BY <1>1, ListShape DEF JobsOK
  <2>2. periods \in Seq({periods[i] : i \in DOMAIN periods}) /\ jobs \in Seq({jobs[i] : i \in DOMAIN jobs})
    BY <1>1 DEF IsList, JobsOK
  <2> QED
    BY <1>1, <2>1, <2>2
<1>6. {periods[i].start.at..(Until(periods[i], Now) - 1) : i \in DOMAIN jobs} =
      {jobs[i].start.at..(Until(jobs[i], Now) - 1) : i \in DOMAIN jobs}
  BY <1>2, <1>4
<1>7. UnionMonths(periods, Now) =
        IF periods # <<>> /\ \A i \in DOMAIN periods : KnownPeriod(periods[i], Now)
        THEN Cardinality(UNION {periods[i].start.at..(Until(periods[i], Now) - 1) : i \in DOMAIN periods})
        ELSE Unknown
  BY <1>1, <1>3, NumbersAssumption, MonthsOfPeriods
<1>8. UnionMonths(periods, Now) =
        IF jobs # <<>> /\ \A i \in DOMAIN jobs : KnownPeriod(jobs[i], Now)
        THEN Cardinality(UNION {jobs[i].start.at..(Until(jobs[i], Now) - 1) : i \in DOMAIN jobs})
        ELSE Unknown
  <2>1. (periods # <<>> /\ \A i \in DOMAIN periods : KnownPeriod(periods[i], Now)) <=>
        (jobs # <<>> /\ \A i \in DOMAIN jobs : KnownPeriod(jobs[i], Now))
    BY <1>1, <1>4, <1>5
  <2>2. {periods[i].start.at..(Until(periods[i], Now) - 1) : i \in DOMAIN periods} =
        {jobs[i].start.at..(Until(jobs[i], Now) - 1) : i \in DOMAIN jobs}
    BY <1>1, <1>6
  <2>3. PICK P, Q, A, B : /\ P = {periods[i].start.at..(Until(periods[i], Now) - 1) : i \in DOMAIN periods}
                       /\ Q = {jobs[i].start.at..(Until(jobs[i], Now) - 1) : i \in DOMAIN jobs}
                       /\ A = (periods # <<>> /\ \A i \in DOMAIN periods : KnownPeriod(periods[i], Now))
                       /\ B = (jobs # <<>> /\ \A i \in DOMAIN jobs : KnownPeriod(jobs[i], Now))
    OBVIOUS
  <2>4. UnionMonths(periods, Now) = IF A THEN Cardinality(UNION P) ELSE Unknown
    BY <1>7, <2>3, Zenon
  <2>5. P = Q /\ (A <=> B)
    BY <2>1, <2>2, <2>3, Zenon
  <2>6. UnionMonths(periods, Now) = IF B THEN Cardinality(UNION Q) ELSE Unknown
    BY <2>4, <2>5
  <2> QED
    BY <2>3, <2>6, Zenon
<1> QED
  BY <1>8 DEF MonthsCounted, periods

\* A number of months, or none.
LEMMA MonthsType ==
  ASSUME NEW jobs, JobsOK(jobs), NEW months, MonthsCounted(months, jobs)
  PROVE  months \in {Unknown} \cup Nat
<1> DEFINE worked == UNION {jobs[i].start.at..(Until(jobs[i], Now) - 1) : i \in DOMAIN jobs}
<1>1. ASSUME \A i \in DOMAIN jobs : KnownPeriod(jobs[i], Now)
      PROVE  Cardinality(worked) \in Nat
  <2>1. Now \in Nat
    BY NumbersAssumption
  <2>2. \A i \in DOMAIN jobs : jobs[i].start.at..(Until(jobs[i], Now) - 1) \subseteq 0..Now
    <3> SUFFICES ASSUME NEW i \in DOMAIN jobs, NEW m \in jobs[i].start.at..(Until(jobs[i], Now) - 1)
                 PROVE  m \in 0..Now
      OBVIOUS
    <3>1. jobs[i].start.at \in Nat /\ jobs[i].end.at \in Nat
      BY DEF JobsOK, Dated, Dates
    <3>2. Until(jobs[i], Now) \in Nat /\ Until(jobs[i], Now) <= Now
      BY <1>1, <2>1, <3>1 DEF Until, KnownPeriod
    <3> QED
      BY <2>1, <3>1, <3>2
  <2>3. worked \subseteq 0..Now
    BY <2>2
  <2>4. IsFiniteSet(0..Now)
    BY <2>1, FS_Interval
  <2> HIDE DEF worked
  <2> QED
    BY <2>3, <2>4, FS_Subset, FS_CardinalityType
<1> QED
  BY <1>1 DEF MonthsCounted

\* The draft is a document.
DraftOK  == draft \in Seq(Nodes)

\* There is a source as long as the analysis and the profile need one.
TextOK   == /\ source = None \/ SourceOK(source)
            /\ stage \in {"text", "analysed"} => SourceOK(source)

\* A stage, and a code exactly if it failed.
StageOK  == /\ stage \in {"draft", "text", "analysed", "built", "stored", "listed", "failed"}
            /\ stage = "failed" <=> error # ""

\* The months of a profile: a number or unknown, and right when it is built.
MadeOK   == /\ made # None => made.profile.months \in {Unknown} \cup Nat
            /\ stage = "built" => /\ JobsOK(made.profile.experience)
                                  /\ MonthsCounted(made.profile.months, made.profile.experience)

\* The inductive invariant behind TypeOK and MonthsAreCounted.
ResumeInv == DraftOK /\ TextOK /\ StageOK /\ MadeOK

\* The resume's invariant holds at the start.
LEMMA ResumeInit == Init => ResumeInv
<1> SUFFICES ASSUME Init PROVE ResumeInv
  OBVIOUS
<1>1. stage = "draft" /\ draft = <<>> /\ source = None /\ made = None /\ error = ""
  BY DEF Init
<1>2. DraftOK /\ TextOK
  <2>1. <<>> \in Seq(Nodes)
    OBVIOUS
  <2> QED
    BY <1>1, <2>1 DEF DraftOK, TextOK
<1>3. StageOK /\ MadeOK
  BY <1>1 DEF StageOK, MadeOK
<1> QED
  BY <1>2, <1>3 DEF ResumeInv

\* Extraction leaves a source within the limits, or fails with a code.
LEMMA ExtractKeeps ==
  ASSUME ResumeInv, NEW u, NEW cut \in 0..1, NEW faults, Extract(u, cut, faults)
  PROVE  ResumeInv'
<1> DEFINE parsed == Parsed(u.suffix, Document(cut, faults))
           text   == Assembled(parsed.blocks, Resume, 1)
           code   == FirstFault(<<<<UploadError(u) # "", UploadError(u)>>,
                                  <<parsed.error # "", parsed.error>>,
                                  <<text.error # "", text.error>>>>)
<1>1. /\ stage = "draft" /\ cut <= Len(draft) /\ draft' = <<>>
      /\ UNCHANGED <<analysis, made, matchVars>>
      /\ \/ code # "" /\ Fail(code) /\ UNCHANGED source
         \/ code = "" /\ stage' = "text" /\ source' = text.source /\ UNCHANGED error
  BY Zenon DEF Extract
<1>2. parsed.blocks \in Seq(Texts)
  BY <1>1, DocumentType, ParsedType DEF ResumeInv, DraftOK
<1>3. code = "" => text.error = ""
  <2> HIDE DEF parsed, text, code
  <2>1. PICK x, y, z : x = UploadError(u) /\ y = parsed.error /\ z = text.error
    OBVIOUS
  <2> DEFINE checks == << <<x # "", x>>, <<y # "", y>>, <<z # "", z>> >>
  <2>2. DOMAIN checks = 1..3 /\ checks[3][2] = z
    OBVIOUS
  <2>3. \A i \in 1..3 : checks[i][1] <=> checks[i][2] # ""
    <3>1. /\ checks[1][1] <=> checks[1][2] # ""
          /\ checks[2][1] <=> checks[2][2] # ""
          /\ checks[3][1] <=> checks[3][2] # ""
      OBVIOUS
    <3>2. \A i \in 1..3 : i = 1 \/ i = 2 \/ i = 3
      OBVIOUS
    <3> HIDE DEF checks
    <3> QED
      BY <3>1, <3>2
  <2>4. code = FirstFault(checks)
    BY <2>1, Zenon DEF code
  <2> HIDE DEF checks
  <2>5. FirstFault(checks) = "" => checks[3][2] = ""
    <3>1. 3 \in Nat /\ 3 \in 1..3
      OBVIOUS
    <3> QED
      BY <2>2, <2>3, <3>1, NoFault
  <2> QED
    BY <2>1, <2>2, <2>4, <2>5, Zenon
<1>4. CASE code # ""
  <2>1. stage' = "failed" /\ error' # "" /\ UNCHANGED source
    BY <1>1, <1>4 DEF Fail
  <2> HIDE DEF code, text, parsed
  <2>2. draft' = <<>> /\ made' = made
    BY <1>1
  <2>3. DraftOK'
    BY <2>2 DEF DraftOK
  <2>4. TextOK' /\ StageOK'
    BY <2>1 DEF ResumeInv, TextOK, StageOK
  <2>5. MadeOK'
    BY <2>1, <2>2 DEF ResumeInv, MadeOK
  <2> QED
    BY <2>3, <2>4, <2>5 DEF ResumeInv
<1>5. CASE code = ""
  <2>1. SourceOK(text.source)
    <3> HIDE DEF parsed
    <3> QED
      BY <1>2, <1>3, <1>5, AssembledIsSource
  <2>2. stage' = "text" /\ source' = text.source /\ UNCHANGED error
    BY <1>1, <1>5
  <2> HIDE DEF code, text, parsed
  <2>3. SourceOK(source')
    BY <2>1, <2>2
  <2>4. draft' = <<>> /\ made' = made /\ stage = "draft"
    BY <1>1
  <2>5. DraftOK'
    BY <2>4 DEF DraftOK
  <2>6. TextOK'
    BY <2>3 DEF TextOK
  <2>7. StageOK' /\ MadeOK'
    BY <2>2, <2>4 DEF ResumeInv, MadeOK, StageOK
  <2> QED
    BY <2>5, <2>6, <2>7 DEF ResumeInv
<1> QED
  BY <1>4, <1>5

\* A built profile has the months that its jobs cover.
LEMMA BuildKeeps ==
  ASSUME ResumeInv, NEW orgLines, Build(orgLines)
  PROVE  ResumeInv'
<1> DEFINE rows == Rows(source)
           work == Experiences(source, rows, orgLines)
           projects == Projects(source, rows)
           profile == ProfileOf(source, work.jobs, Schools(source, rows, orgLines),
                                projects.projects, Skills(analysis, rows), Now)
<1>1. /\ stage = "analysed" /\ UNCHANGED <<draft, source, analysis, matchVars>>
      /\ made' = [profile |-> profile, summary |-> Summary(profile),
                  warnings |-> Warnings(profile, work.undated, projects.bare)]
      /\ \/ stage' = "built" /\ UNCHANGED error
         \/ Fail("PROCESSING_FAILED")
  BY Zenon DEF Build
<1>2. IsList(rows)
  BY <1>1, SourceText, RowsAreListed DEF ResumeInv, TextOK
<1> HIDE DEF rows
<1>3. JobsOK(work.jobs)
  BY <1>2, JobsAreDated DEF JobsOK
<1> HIDE DEF work
<1>4. /\ profile.experience = work.jobs
      /\ profile.months = UnionMonths([i \in DOMAIN work.jobs |->
                            [start |-> work.jobs[i].start, end |-> work.jobs[i].end]], Now)
  BY DEF ProfileOf
<1> HIDE DEF profile, projects
<1>5. MonthsCounted(profile.months, profile.experience)
  <2>1. PICK jobs : jobs = work.jobs
    OBVIOUS
  <2>2. MonthsCounted(UnionMonths([i \in DOMAIN jobs |-> [start |-> jobs[i].start, end |-> jobs[i].end]], Now), jobs)
    BY <1>3, <2>1, MonthsOfJobs
  <2> QED
    BY <1>4, <2>1, <2>2, Zenon
<1>6. JobsOK(profile.experience) /\ profile.months \in {Unknown} \cup Nat
  BY <1>3, <1>4, <1>5, MonthsType
<1>7. made'.profile = profile
  BY <1>1
<1> QED
  BY <1>1, <1>5, <1>6, <1>7 DEF ResumeInv, DraftOK, TextOK, StageOK, MadeOK, Fail

\* Every step keeps the resume's invariant.
LEMMA ResumeNext == ResumeInv /\ [Next]_vars => ResumeInv'
<1> SUFFICES ASSUME ResumeInv, [Next]_vars PROVE ResumeInv'
  OBVIOUS
<1> USE DEF ResumeInv, DraftOK, TextOK, StageOK, MadeOK
<1>1. CASE UNCHANGED <<draft, source, stage, error, made>>
  BY <1>1
<1>2. ASSUME NEW p \in Paragraphs, Write(p) PROVE ResumeInv'
  <2>1. p \in Nodes
    BY InputsAssumption
  <2>2. draft' = Append(draft, p) /\ UNCHANGED <<stage, source, error, made>>
    BY <1>2 DEF Write, resumeVars
  <2>3. draft \in Seq(Nodes)
    OBVIOUS
  <2> HIDE DEF ResumeInv
  <2>4. Append(draft, p) \in Seq(Nodes)
    BY <2>1, <2>3
  <2>5. DraftOK'
    BY <2>2, <2>4
  <2> USE DEF ResumeInv
  <2> HIDE DEF DraftOK
  <2> QED
    BY <2>2, <2>5
<1>3. ASSUME NEW u \in Uploads, NEW cut \in 0..1, NEW faults \in FaultSets(u), Extract(u, cut, faults)
      PROVE ResumeInv'
  BY <1>3, ExtractKeeps
<1>4. ASSUME NEW language \in Languages, Analyse(language) PROVE ResumeInv'
  <2>1. PICK a : a = Analysed(source, language, Resume, 1)
    OBVIOUS
  <2>2. /\ stage = "text" /\ UNCHANGED <<draft, source, made>>
        /\ \/ a.error # "" /\ stage' = "failed" /\ error' = a.error
           \/ stage' = "analysed" /\ UNCHANGED error
    BY <1>4, <2>1, Zenon DEF Analyse, Fail
  <2> QED
    BY <2>2
<1>5. ASSUME NEW orgLines, Build(orgLines) PROVE ResumeInv'
  BY <1>5, BuildKeeps
<1>6. CASE Keep
  <2>1. /\ stage = "built" /\ source' = None /\ UNCHANGED <<draft, made>>
        /\ \/ Fail("NO_SUPPORTED_PROFILE_FACTS")
           \/ stage' = "stored" /\ UNCHANGED error
    BY <1>6, Zenon DEF Keep
  <2> QED
    BY <2>1 DEF Fail
<1>7. ASSUME NEW j, NEW page, Import(j, page) PROVE ResumeInv'
  <2>1. UNCHANGED <<draft, source, stage, error, made>>
    BY <1>7 DEF Import, resumeVars
  <2> QED
    BY <1>1, <2>1
<1>8. ASSUME NEW b, Deploy(b) PROVE ResumeInv'
  BY <1>1, <1>8 DEF Deploy, resumeVars
<1>9. CASE Rebuild
  BY <1>1, <1>9 DEF Rebuild, resumeVars
<1>10. ASSUME NEW j, NEW s, Score(j, s) PROVE ResumeInv'
  BY <1>1, <1>10 DEF Score, resumeVars
<1>11. CASE stage = "stored" /\ stage' = "listed" /\ UNCHANGED <<draft, source, error, made>>
  BY <1>11
<1>12. CASE Publish
  BY <1>11, <1>12 DEF Publish, resumeVars
<1>13. ASSUME NEW coarse, NEW tfidf, NEW pool, Rerank(coarse, tfidf, pool) PROVE ResumeInv'
  BY <1>11, <1>13 DEF Rerank, resumeVars
<1>14. ASSUME NEW similarity, NEW limit, Search(similarity, limit) PROVE ResumeInv'
  BY <1>11, <1>14 DEF Search, resumeVars
<1>15. CASE UNCHANGED vars
  BY <1>1, <1>15 DEF vars, resumeVars
<1> HIDE DEF ResumeInv
<1> QED
  BY <1>2, <1>3, <1>4, <1>5, <1>6, <1>7, <1>8, <1>9, <1>10, <1>12, <1>13, <1>14, <1>15 DEF Next

\* A stage has what it needs and a failure its code, the source keeps to the limit
\* that both extraction and analysis enforce, and every stored score is a percentage in
\* tenths (TypeOK).
THEOREM StagesAgree == Spec => []TypeOK
<1>1. ResumeInv /\ RankInv => TypeOK
  <2> SUFFICES ASSUME ResumeInv, RankInv PROVE TypeOK
    OBVIOUS
  <2>1. source # None => Len(source.text) \in 1..MaxTextChars
    BY SourceText DEF ResumeInv, TextOK
  <2>2. \A j \in Jobs : results[j] # None => results[j].score \in 0..1000
    <3> SUFFICES ASSUME NEW j \in Jobs, results[j] # None PROVE results[j].score \in 0..1000
      OBVIOUS
    <3>1. ResultOK(results[j])
      BY DEF RankInv, ResultsOK
    <3> QED
      BY <3>1, ScoreIsBounded
  <2> QED
    BY <2>1, <2>2 DEF TypeOK, ResumeInv, StageOK, MadeOK
<1> QED
  BY <1>1, ResumeInit, ResumeNext, RankInit, RankNext, PTL DEF Spec

\* The months of experience are those some period covers, counted once, and a number
\* exactly when every period is known (MonthsAreCounted: profile_dates.py, union_years).
THEOREM MonthsAreRight == Spec => []MonthsAreCounted
<1>1. ResumeInv => MonthsAreCounted
  <2> DEFINE jobs == made.profile.experience
             last(e) == IF e.end.unit = "present" THEN Now - 1 ELSE e.end.at
             known(e) == /\ e.start.unit = "month" /\ e.end.unit \in {"month", "present"}
                         /\ last(e) < Now /\ e.start.at <= last(e) + (IF e.end.unit = "present" THEN 1 ELSE 0)
  <2> SUFFICES ASSUME ResumeInv, stage = "built"
               PROVE  made.profile.months =
                        IF jobs # <<>> /\ \A i \in DOMAIN jobs : known(jobs[i])
                        THEN Cardinality(UNION {jobs[i].start.at..last(jobs[i]) : i \in DOMAIN jobs})
                        ELSE Unknown
    BY DEF MonthsAreCounted
  <2>1. JobsOK(jobs) /\ MonthsCounted(made.profile.months, jobs)
    BY DEF ResumeInv, MadeOK
  <2> HIDE DEF jobs
  <2>2. ASSUME NEW e, Dated(e)
        PROVE  /\ known(e) <=> KnownPeriod(e, Now)
               /\ Until(e, Now) - 1 = last(e)
    <3>1. e.start.at \in Nat /\ e.end.at \in Nat /\ Now \in Nat
      BY <2>2, NumbersAssumption DEF Dated, Dates
    <3> QED
      BY <3>1 DEF KnownPeriod, Until
  <2> HIDE DEF last, known
  <2>3. \A i \in DOMAIN jobs : /\ known(jobs[i]) <=> KnownPeriod(jobs[i], Now)
                               /\ Until(jobs[i], Now) - 1 = last(jobs[i])
    BY <2>1, <2>2 DEF JobsOK
  <2>4. {jobs[i].start.at..(Until(jobs[i], Now) - 1) : i \in DOMAIN jobs} =
        {jobs[i].start.at..last(jobs[i]) : i \in DOMAIN jobs}
    BY <2>3
  <2>5. (\A i \in DOMAIN jobs : KnownPeriod(jobs[i], Now)) <=> (\A i \in DOMAIN jobs : known(jobs[i]))
    BY <2>3
  <2>6. made.profile.months =
          IF jobs # <<>> /\ \A i \in DOMAIN jobs : KnownPeriod(jobs[i], Now)
          THEN Cardinality(UNION {jobs[i].start.at..(Until(jobs[i], Now) - 1) : i \in DOMAIN jobs})
          ELSE Unknown
    BY <2>1 DEF MonthsCounted
  <2>7. PICK P, Q, A, B : /\ P = {jobs[i].start.at..(Until(jobs[i], Now) - 1) : i \in DOMAIN jobs}
                          /\ Q = {jobs[i].start.at..last(jobs[i]) : i \in DOMAIN jobs}
                          /\ A = (\A i \in DOMAIN jobs : KnownPeriod(jobs[i], Now))
                          /\ B = (\A i \in DOMAIN jobs : known(jobs[i]))
    OBVIOUS
  <2>8. made.profile.months = IF jobs # <<>> /\ A THEN Cardinality(UNION P) ELSE Unknown
    BY <2>6, <2>7, Zenon
  <2>9. P = Q /\ (A <=> B)
    BY <2>4, <2>5, <2>7, Zenon
  <2>10. made.profile.months = IF jobs # <<>> /\ B THEN Cardinality(UNION Q) ELSE Unknown
    BY <2>8, <2>9
  <2> QED
    BY <2>7, <2>10, Zenon
<1> QED
  BY <1>1, ResumeInit, ResumeNext, PTL DEF Spec

-----------------------------------------------------------------------------
(* Mentions of skills *)

\* A place where the words of an alias stand.
Stands(c, words) ==
  /\ c.start \in Nat /\ c.end \in Nat /\ c.start < c.end /\ c.end <= Len(words)
  /\ c = [start |-> c.start, end |-> c.end, name |-> c.name]
  /\ \E a \in Aliases : a.words = Slice(words, c.start, c.end) /\ a.name = c.name

\* There are finitely many candidates, and each stands in the words.
LEMMA CandidatesMention ==
  ASSUME NEW words \in Texts
  PROVE  IsFiniteSet(Candidates(words)) /\ \A c \in Candidates(words) : Stands(c, words)
<1> DEFINE P == (0..Len(words)) \X Aliases
           Q == {q \in P : /\ q[1] + Len(q[2].words) <= Len(words)
                           /\ Slice(words, q[1], q[1] + Len(q[2].words)) = q[2].words}
           toRecord == [p \in Q |-> [start |-> p[1], end |-> p[1] + Len(p[2].words), name |-> p[2].name]]
           S == Candidates(words)
<1>1. Len(words) \in Nat
  BY DEF Texts
<1>2. IsFiniteSet(Q)
  <2>1. IsFiniteSet(0..Len(words)) /\ IsFiniteSet(Aliases)
    BY <1>1, FS_Interval, AliasesAssumption
  <2>2. IsFiniteSet(P)
    BY <2>1, FS_Product
  <2>3. Q \subseteq P
    OBVIOUS
  <2> HIDE DEF P, Q
  <2> QED
    BY <2>2, <2>3, FS_Subset
<1>3. S = {[start |-> p[1], end |-> p[1] + Len(p[2].words), name |-> p[2].name] : p \in Q}
  BY DEF Candidates
<1>4. toRecord \in Surjection(Q, S)
  <2> HIDE DEF Q
  <2> QED
    BY <1>3 DEF Surjection
<1>5. IsFiniteSet(S)
  <2> HIDE DEF Q, S, toRecord
  <2> QED
    BY <1>2, <1>4, FS_Surjection
<1>6. ASSUME NEW c \in S PROVE Stands(c, words)
  <2>1. PICK at \in 0..Len(words), a \in Aliases :
          /\ at + Len(a.words) <= Len(words) /\ Slice(words, at, at + Len(a.words)) = a.words
          /\ c = [start |-> at, end |-> at + Len(a.words), name |-> a.name]
    BY <1>3
  <2>2. PICK w, n : w = a.words /\ n = Len(w)
    OBVIOUS
  <2>3. w \in Texts /\ w # <<>>
    BY <2>2, AliasesAssumption
  <2>4. n \in Nat /\ n > 0
    BY <2>2, <2>3 DEF Texts
  <2>5. c.start = at /\ c.end = at + n /\ c.name = a.name
    BY <2>1, <2>2
  <2> QED
    BY <1>1, <2>1, <2>2, <2>4, <2>5 DEF Stands
<1> QED
  BY <1>5, <1>6

\* Sorted candidates are candidates.
LEMMA CandidatesInOrder ==
  ASSUME NEW words \in Texts
  PROVE  InOrder(Candidates(words), Sooner) \in Seq(Candidates(words))
<1> DEFINE S == Candidates(words)
           R == {p \in S \X S : Sooner(p[1], p[2])}
           list == InOrder(S, Sooner)
           n == Cardinality(S)
<1>1. IsFiniteSet(S) /\ n \in Nat /\ \A c \in S : Stands(c, words)
  BY CandidatesMention, FS_CardinalityType
<1> HIDE DEF S
<1>2. \A x, y \in S : <<x, y>> \in R <=> Sooner(x, y)
  OBVIOUS
<1> HIDE DEF R
<1>3. \A x \in S : x.start \in Nat /\ x.end \in Nat
  BY <1>1 DEF Stands
<1>4. ASSUME NEW x \in S, NEW y \in S, x.start = y.start, x.end = y.end PROVE x = y
  <2>1. Stands(x, words) /\ Stands(y, words)
    BY <1>1
  <2>2. PICK a \in Aliases : a.words = Slice(words, x.start, x.end) /\ a.name = x.name
    BY <2>1 DEF Stands
  <2>3. PICK b \in Aliases : b.words = Slice(words, y.start, y.end) /\ b.name = y.name
    BY <2>1 DEF Stands
  <2>4. a.words = b.words
    BY <1>4, <2>2, <2>3
  <2>5. a = b
    BY <2>4, AliasesAssumption
  <2> QED
    BY <1>4, <2>1, <2>2, <2>3, <2>5 DEF Stands
<1>5. Orders(R, S)
  <2>1. \A x \in S : ~Sooner(x, x)
    BY <1>3 DEF Sooner
  <2>2. \A x, y, z \in S : Sooner(x, y) /\ Sooner(y, z) => Sooner(x, z)
    BY <1>3 DEF Sooner
  <2>3. \A x, y \in S : x = y \/ Sooner(x, y) \/ Sooner(y, x)
    BY <1>3, <1>4 DEF Sooner
  <2> QED
    BY <1>2, <2>1, <2>2, <2>3 DEF Orders
<1>6. \A x \in S : {y \in S : Sooner(y, x)} = Below(R, S, x)
  BY <1>2 DEF Below
<1>7. list = [k \in 1..n |-> CHOOSE x \in S : Cardinality({y \in S : Sooner(y, x)}) = k - 1]
  BY DEF InOrder
<1>8. ASSUME NEW k \in 1..n, \E x \in S : Cardinality(Below(R, S, x)) = k - 1
      PROVE  list[k] \in S /\ Cardinality(Below(R, S, list[k])) = k - 1
  <2>1. \E x \in S : Cardinality({y \in S : Sooner(y, x)}) = k - 1
    BY <1>6, <1>8
  <2>2. list[k] = CHOOSE x \in S : Cardinality({y \in S : Sooner(y, x)}) = k - 1
    BY <1>7
  <2>3. list[k] \in S /\ Cardinality({y \in S : Sooner(y, list[k])}) = k - 1
    BY <2>1, <2>2
  <2> QED
    BY <1>6, <2>3
<1>9. list = [k \in 1..n |-> list[k]]
  BY <1>7
<1> HIDE DEF list
<1>10. Enumerates(list, S, R)
  BY <1>1, <1>5, <1>8, <1>9, RanksGiveOrder
<1>11. list \in Seq(S)
  BY <1>1, <1>10 DEF Enumerates
<1> QED
  BY <1>11 DEF list, S

\* The skills that are found are mentions.
LEMMA ChosenMention ==
  ASSUME NEW words \in Texts
  PROVE  IsList(Chosen(words)) /\ \A i \in DOMAIN Chosen(words) : Stands(Chosen(words)[i], words)
<1> DEFINE S == Candidates(words)
           list == InOrder(S, Sooner)
           W == Seq(S)
           op(taken, c) == IF taken # <<>> /\ c.start < Last(taken).end THEN taken ELSE Append(taken, c)
           n == Len(list)
           E(it) == it = [s \in SUBSET DOMAIN list |->
                            IF s = {} THEN <<>> ELSE op(it[s \ {Max(s)}], list[Max(s)])]
           u == CHOOSE it : E(it)
           step == [p \in (1..n) \X W |-> op(p[2], list[p[1]])]
<1>1. Chosen(words) = u[DOMAIN list]
  BY Zenon DEF Chosen, FoldLeft, MapThenFoldSet
<1>2. list \in Seq(S)
  BY CandidatesInOrder
<1> HIDE DEF list, S, u
<1>3. n \in Nat /\ DOMAIN list = 1..n /\ \A i \in 1..n : list[i] \in S
  BY <1>2, ElementOfSeq
<1>4. <<>> \in W
  OBVIOUS
<1>5. \A taken \in W, c \in S : op(taken, c) \in W
  OBVIOUS
<1> HIDE DEF W, op
<1>6. step \in [(1..n) \X W -> W]
  BY <1>3, <1>5
<1>7. \A i \in 1..n, a \in W : step[<<i, a>>] = op(a, list[i])
  OBVIOUS
<1> HIDE DEF n, step
<1>8. PICK f : FoldedBy(f, u, n, W, <<>>, step)
  <2>1. \E it : E(it)
    <3>1. PICK it : TakesOff(it, n, W, <<>>, step)
      BY <1>3, <1>4, <1>6, FoldExists
    <3>2. \A s \in SUBSET (1..n) :
            it[s] = IF s = {} THEN <<>> ELSE op(it[s \ {Max(s)}], list[Max(s)])
      BY <1>7, <3>1 DEF TakesOff
    <3>3. it = [s \in SUBSET (1..n) |-> it[s]]
      BY <3>1 DEF TakesOff
    <3>4. E(it)
      BY <1>3, <3>2, <3>3, Zenon
    <3> QED
      BY <3>4
  <2>2. E(u)
    BY <2>1 DEF u
  <2>3. u[{}] = <<>>
    BY <2>2
  <2>4. ASSUME NEW s \in SUBSET (1..n), s # {}, u[s \ {Max(s)}] \in W
        PROVE  u[s] = step[<<Max(s), u[s \ {Max(s)}]>>]
    <3>1. Max(s) \in 1..n
      BY <1>3, <2>4, IntervalMinMax
    <3> QED
      BY <1>3, <1>7, <2>2, <2>4, <3>1
  <2> HIDE DEF E
  <2> QED
    BY <1>3, <1>4, <1>6, <2>3, <2>4, FoldSteps
<1>9. u[DOMAIN list] \in W
  <2>1. f[n] \in W /\ f[n] = u[1..n]
    BY <1>3, <1>8 DEF FoldedBy, Recursion
  <2> QED
    BY <1>3, <2>1
<1>10. PICK found : found = Chosen(words)
  OBVIOUS
<1>11. found \in Seq(S)
  BY <1>1, <1>9, <1>10 DEF W
<1>12. /\ Len(found) \in Nat /\ DOMAIN found = 1..Len(found)
       /\ found = [i \in 1..Len(found) |-> found[i]]
       /\ \A i \in 1..Len(found) : found[i] \in S
  BY <1>11, ElementOfSeq
<1>13. IsList(found)
  BY <1>12, ListMade
<1>14. \A i \in DOMAIN found : Stands(found[i], words)
  BY <1>12, CandidatesMention DEF S
<1> QED
  BY <1>10, <1>13, <1>14

\* No obstacle of an extraction says that the evidence is wrong.
LEMMA ThreeCodes ==
  ASSUME NEW x, NEW y, NEW z, x # "INVALID_EVIDENCE", y # "INVALID_EVIDENCE", z # "INVALID_EVIDENCE"
  PROVE  FirstFault(<< <<x # "", x>>, <<y # "", y>>, <<z # "", z>> >>) # "INVALID_EVIDENCE"
<1> DEFINE checks == << <<x # "", x>>, <<y # "", y>>, <<z # "", z>> >>
<1>1. checks = [i \in 1..3 |-> checks[i]] /\ \A i \in 1..3 : checks[i][2] # "INVALID_EVIDENCE"
  OBVIOUS
<1> HIDE DEF checks
<1>2. Blameless(checks)
  BY <1>1, ListMade DEF Blameless
<1> QED
  BY <1>2, BlamelessCode DEF checks

\* Evidence that quotes, word by word, a part of a text.
Proves(evidence, text, a, b) ==
  /\ IsList(evidence) /\ \A k \in DOMAIN evidence : Quotes(evidence[k], text)
  /\ Quoted(evidence) = Slice(Words(text), a, b)

\* evidence_for quotes exactly the words from a to b, from any covered source.
LEMMA EvidenceProves ==
  ASSUME NEW s, Sourced(s), NEW a \in Nat, NEW b \in Nat, a < b, b <= Len(Words(s.text))
  PROVE  Proves(EvidenceFor(s, Normalized(s.text), a, b), s.text, a, b)
<1>1. PICK text, ev, span, q : /\ text = s.text /\ ev = s.evidence /\ span = SourceSpan(Normalized(text), a, b)
                               /\ q = Clipped(s, span.start, span.end)
  OBVIOUS
<1>2. EvidenceFor(s, Normalized(s.text), a, b) = q
  BY <1>1, Zenon DEF EvidenceFor
<1>3. text \in Texts /\ Covers(ev, text) /\ \A i \in DOMAIN ev : Reference(ev[i])
  BY <1>1 DEF Sourced
<1>4. SpanFits(span, text, a, b)
  BY <1>1, <1>3, SpanOfWords
<1>5. PICK lo, hi : lo = span.start /\ hi = span.end
  OBVIOUS
<1>6. lo \in 0..Len(text) /\ hi \in lo..Len(text) /\ Words(Slice(text, lo, hi)) = Slice(Words(text), a, b)
  BY <1>4, <1>5 DEF SpanFits
<1>7. QuoteAll(Clipped(s, lo, hi), text, lo, hi)
  BY <1>1, <1>3, <1>6, ClippedQuotes
<1>8. QuoteAll(q, text, lo, hi)
  BY <1>1, <1>5, <1>7, Zenon
<1>9. Quoted(q) = Words(FlattenSeq(Excerpts(q)))
  <2>1. PICK t : t = FlattenSeq(Excerpts(q))
    OBVIOUS
  <2>2. Quoted(q) = Normalized(t).text
    BY <2>1, Zenon DEF Quoted, Excerpts
  <2>3. Normalized(t).text = Words(t)
    BY DEF Normalized, Words, Inked
  <2> QED
    BY <2>1, <2>2, <2>3
<1>10. Proves(q, text, a, b)
  BY <1>6, <1>8, <1>9 DEF QuoteAll, Proves
<1> QED
  BY <1>1, <1>2, <1>10, Zenon

\* A skill that is found, with what proves it.
SkillOK(m, text) ==
  /\ m.start \in Nat /\ m.end \in Nat /\ m.start < m.end /\ m.end <= Len(Words(text))
  /\ \E a \in Aliases : a.words = Slice(Words(text), m.start, m.end) /\ a.name = m.name
  /\ Proves(m.evidence, text, m.start, m.end)

\* Every mention of an analysis is proven.
SkillsOK(skills, text) == IsList(skills) /\ \A i \in DOMAIN skills : SkillOK(skills[i], text)

\* find_skills on a covered source gives proven mentions only.
LEMMA SkillsAreProven ==
  ASSUME NEW s, Sourced(s)
  PROVE  SkillsOK(FindSkills(s, Normalized(s.text)), s.text)
<1>1. PICK normalized, words, found, skills, text :
        /\ normalized = Normalized(s.text) /\ words = Words(s.text) /\ found = Chosen(words)
        /\ skills = FindSkills(s, normalized) /\ text = s.text
  OBVIOUS
<1>2. normalized.text = words
  <2>1. PICK f : Grows(f, s.text)
    BY WordsGrow DEF Sourced
  <2> QED
    BY <1>1, <2>1, WordsArePlaced DEF Sourced
<1>3. words \in Texts
  BY <1>1, WordsType DEF Sourced
<1>4. IsList(found) /\ \A i \in DOMAIN found : Stands(found[i], words)
  BY <1>1, <1>3, ChosenMention
<1>5. /\ skills = [i \in DOMAIN found |-> skills[i]]
      /\ \A i \in DOMAIN found :
           /\ skills[i].name = found[i].name /\ skills[i].start = found[i].start /\ skills[i].end = found[i].end
           /\ skills[i].evidence = EvidenceFor(s, normalized, found[i].start, found[i].end)
  BY <1>1, <1>2 DEF FindSkills
<1>6. IsList(skills) /\ DOMAIN skills = DOMAIN found
  BY <1>4, <1>5, MappedList
<1>7. ASSUME NEW i \in DOMAIN found PROVE SkillOK(skills[i], text)
  <2>1. PICK m, c : m = skills[i] /\ c = found[i]
    OBVIOUS
  <2>2. Stands(c, words)
    BY <1>4, <2>1
  <2>3. m.name = c.name /\ m.start = c.start /\ m.end = c.end
        /\ m.evidence = EvidenceFor(s, normalized, c.start, c.end)
    BY <1>5, <2>1
  <2>4. c.start \in Nat /\ c.end \in Nat /\ c.start < c.end /\ c.end <= Len(words)
    BY <2>2 DEF Stands
  <2>5. PICK lo, hi : lo = c.start /\ hi = c.end
    OBVIOUS
  <2>6. Proves(EvidenceFor(s, Normalized(s.text), lo, hi), s.text, lo, hi)
    BY <1>1, <2>4, <2>5, EvidenceProves
  <2>7. Proves(m.evidence, text, m.start, m.end)
    BY <1>1, <2>3, <2>5, <2>6, Zenon
  <2>8. \E a \in Aliases : a.words = Slice(words, lo, hi) /\ a.name = m.name
    BY <2>2, <2>3, <2>5 DEF Stands
  <2>9. SkillOK(m, text)
    BY <1>1, <2>3, <2>4, <2>5, <2>7, <2>8 DEF SkillOK
  <2> QED
    BY <2>1, <2>9
<1>8. SkillsOK(skills, text)
  BY <1>6, <1>7 DEF SkillsOK
<1> QED
  BY <1>1, <1>8, Zenon

\* An analysis blames the evidence only if validate_source does.
LEMMA AnalysisCode ==
  ASSUME NEW s, NEW language, NEW document, NEW version
  PROVE  SourceError(s, document, version) = "" =>
           Analysed(s, language, document, version).error # "INVALID_EVIDENCE"
<1>1. PICK c1, c2, c3, c4, x :
        /\ c1 = (language = "none") /\ c2 = (language # "en")
        /\ c3 = (SourceError(s, document, version) # "") /\ x = SourceError(s, document, version)
        /\ c4 = (Normalized(s.text).text = <<>>)
  OBVIOUS
<1> DEFINE checks == << <<c1, "NLP_LANGUAGE_REQUIRED">>, <<c2, "NLP_UNSUPPORTED_LANGUAGE">>,
                        <<c3, x>>, <<c4, "NLP_EMPTY_TEXT">> >>
<1>2. Analysed(s, language, document, version).error = FirstFault(checks)
  <2>1. \E n, k : Analysed(s, language, document, version)
                    = [error |-> FirstFault(checks), normalized |-> n, skills |-> k]
    BY <1>1, Zenon DEF Analysed
  <2> HIDE DEF checks
  <2> QED
    BY <2>1
<1>3. checks = [i \in 1..4 |-> checks[i]]
      /\ (x # "INVALID_EVIDENCE" => \A i \in 1..4 : checks[i][2] # "INVALID_EVIDENCE")
  OBVIOUS
<1> HIDE DEF checks
<1>4. x # "INVALID_EVIDENCE" => Blameless(checks)
  BY <1>3, ListMade DEF Blameless
<1>5. x # "INVALID_EVIDENCE" => Analysed(s, language, document, version).error # "INVALID_EVIDENCE"
  BY <1>2, <1>4, BlamelessCode
<1>6. SourceError(s, document, version) = "" => x # "INVALID_EVIDENCE"
  BY <1>1
<1> QED
  BY <1>5, <1>6, Zenon

\* An analysis of a text.
AnalysisOK(a, text) == a.normalized.text = Words(text) /\ (a.error = "" => SkillsOK(a.skills, text))

\* An analysis of a covered source has proven mentions only.
LEMMA AnalysisIsProven ==
  ASSUME NEW s, Sourced(s), NEW language, NEW document, NEW version
  PROVE  AnalysisOK(Analysed(s, language, document, version), s.text)
<1>1. PICK a, n : a = Analysed(s, language, document, version) /\ n = Normalized(s.text)
  OBVIOUS
<1>2. PICK e : a = [error |-> e, normalized |-> n, skills |-> IF e = "" THEN FindSkills(s, n) ELSE <<>>]
  BY <1>1, Zenon DEF Analysed
<1>3. a.normalized = n /\ (a.error = "" => a.skills = FindSkills(s, n))
  BY <1>2
<1>4. n.text = Words(s.text)
  <2>1. PICK f : Grows(f, s.text)
    BY WordsGrow DEF Sourced
  <2> QED
    BY <1>1, <2>1, WordsArePlaced DEF Sourced
<1>5. SkillsOK(FindSkills(s, n), s.text)
  BY <1>1, SkillsAreProven
<1>6. AnalysisOK(a, s.text)
  BY <1>3, <1>4, <1>5 DEF AnalysisOK
<1> QED
  BY <1>1, <1>6, Zenon

-----------------------------------------------------------------------------
(* Evidence of what is analysed *)

\* No run ends with INVALID_EVIDENCE.
CodeOK     == error # "INVALID_EVIDENCE"

\* What is analysed are the words of the source, and its mentions are proven.
AnalysedOK == stage = "analysed" => /\ analysis.normalized.text = Words(source.text)
                                    /\ SkillsOK(analysis.skills, source.text)

\* The inductive invariant behind EvidenceQuotesMention, beside ResumeInv.
EvidenceInv == CodeOK /\ AnalysedOK

\* validate_source accepts whatever assemble_text makes.
LEMMA SourceIsAccepted ==
  ASSUME NEW s, SourceOK(s)
  PROVE  Sourced(s) /\ SourceError(s, Resume, 1) = ""
<1>1. PICK parts : /\ Chunks(parts) /\ parts # <<>> /\ s = SourceOf(parts)
                   /\ Len(s.text) <= MaxTextChars
  BY DEF SourceOK
<1>2. s = SourceFrom(parts, Resume, 1)
  BY <1>1 DEF SourceOf
<1> QED
  BY <1>1, <1>2, AssembledIsAccepted

\* Extraction fails with other codes only.
LEMMA ExtractCode ==
  ASSUME EvidenceInv, NEW u, NEW cut, NEW faults, Extract(u, cut, faults)
  PROVE  EvidenceInv'
<1> DEFINE parsed == Parsed(u.suffix, Document(cut, faults))
           text   == Assembled(parsed.blocks, Resume, 1)
           code   == FirstFault(<<<<UploadError(u) # "", UploadError(u)>>,
                                  <<parsed.error # "", parsed.error>>,
                                  <<text.error # "", text.error>>>>)
<1>1. \/ stage' = "failed" /\ error' = code
      \/ stage' = "text" /\ UNCHANGED error
  BY Zenon DEF Extract, Fail
<1>2. code # "INVALID_EVIDENCE"
  <2>1. UploadError(u) # "INVALID_EVIDENCE" /\ parsed.error # "INVALID_EVIDENCE"
    BY UploadCode, ParsedCode
  <2>2. text.error # "INVALID_EVIDENCE"
    <3> HIDE DEF parsed
    <3> QED
      BY AssembledCode
  <2> HIDE DEF parsed, text
  <2> QED
    BY <2>1, <2>2, ThreeCodes
<1> HIDE DEF code
<1> QED
  BY <1>1, <1>2 DEF EvidenceInv, CodeOK, AnalysedOK

\* Analysis accepts the source, and its mentions are proven.
LEMMA AnalyseKeeps ==
  ASSUME ResumeInv, EvidenceInv, NEW language, Analyse(language)
  PROVE  EvidenceInv'
<1>1. PICK a : a = Analysed(source, language, Resume, 1)
  OBVIOUS
<1>2. /\ stage = "text" /\ UNCHANGED source
      /\ \/ stage' = "failed" /\ error' = a.error
         \/ a.error = "" /\ stage' = "analysed" /\ analysis' = a /\ UNCHANGED error
  BY <1>1, Zenon DEF Analyse, Fail
<1>3. Sourced(source) /\ SourceError(source, Resume, 1) = ""
  BY <1>2, SourceIsAccepted DEF ResumeInv, TextOK
<1>4. a.error # "INVALID_EVIDENCE"
  BY <1>1, <1>3, AnalysisCode
<1>5. AnalysisOK(a, source.text)
  BY <1>1, <1>3, AnalysisIsProven
<1>6. CodeOK'
  BY <1>2, <1>4 DEF EvidenceInv, CodeOK
<1>7. AnalysedOK'
  BY <1>2, <1>5 DEF AnalysedOK, AnalysisOK
<1> QED
  BY <1>6, <1>7 DEF EvidenceInv

\* Every step keeps the evidence's invariant.
LEMMA EvidenceNext == ResumeInv /\ EvidenceInv /\ [Next]_vars => EvidenceInv'
<1> SUFFICES ASSUME ResumeInv, EvidenceInv, [Next]_vars PROVE EvidenceInv'
  OBVIOUS
<1>1. CASE UNCHANGED <<stage, error, source, analysis>>
  BY <1>1 DEF EvidenceInv, CodeOK, AnalysedOK
<1>2. CASE stage' # "analysed" /\ (UNCHANGED error \/ error' \in {"PROCESSING_FAILED", "NO_SUPPORTED_PROFILE_FACTS"})
  BY <1>2 DEF EvidenceInv, CodeOK, AnalysedOK
<1>3. ASSUME NEW p \in Paragraphs, Write(p) PROVE EvidenceInv'
  BY <1>1, <1>3 DEF Write
<1>4. ASSUME NEW u, NEW cut, NEW faults, Extract(u, cut, faults) PROVE EvidenceInv'
  BY <1>4, ExtractCode
<1>5. ASSUME NEW language \in Languages, Analyse(language) PROVE EvidenceInv'
  BY <1>5, AnalyseKeeps
<1>6. ASSUME NEW orgLines, Build(orgLines) PROVE EvidenceInv'
  <2>1. \/ stage' = "built" /\ UNCHANGED error
        \/ stage' = "failed" /\ error' = "PROCESSING_FAILED"
    BY <1>6, Zenon DEF Build, Fail
  <2> QED
    BY <1>2, <2>1
<1>7. CASE Keep
  <2>1. \/ stage' = "failed" /\ error' = "NO_SUPPORTED_PROFILE_FACTS"
        \/ stage' = "stored" /\ UNCHANGED error
    BY <1>7, Zenon DEF Keep, Fail
  <2> QED
    BY <1>2, <2>1
<1>8. ASSUME NEW j, NEW page, Import(j, page) PROVE EvidenceInv'
  BY <1>1, <1>8 DEF Import, resumeVars
<1>9. ASSUME NEW b, Deploy(b) PROVE EvidenceInv'
  BY <1>1, <1>9 DEF Deploy, resumeVars
<1>10. CASE Rebuild
  BY <1>1, <1>10 DEF Rebuild, resumeVars
<1>11. ASSUME NEW j, NEW s, Score(j, s) PROVE EvidenceInv'
  BY <1>1, <1>11 DEF Score, resumeVars
<1>12. CASE Publish
  BY <1>2, <1>12 DEF Publish
<1>13. ASSUME NEW coarse, NEW tfidf, NEW pool, Rerank(coarse, tfidf, pool) PROVE EvidenceInv'
  BY <1>2, <1>13 DEF Rerank
<1>14. ASSUME NEW similarity, NEW limit, Search(similarity, limit) PROVE EvidenceInv'
  BY <1>2, <1>14 DEF Search
<1>15. CASE UNCHANGED vars
  BY <1>1, <1>15 DEF vars, resumeVars
<1> QED
  BY <1>3, <1>4, <1>5, <1>6, <1>7, <1>8, <1>9, <1>10, <1>11, <1>12, <1>13, <1>14, <1>15 DEF Next

\* The evidence's invariant holds at the start.
LEMMA EvidenceInit == Init => EvidenceInv
  BY DEF Init, EvidenceInv, CodeOK, AnalysedOK

\* Whatever extraction assembles, analysis accepts, and the evidence of every skill
\* quotes exactly the words of its mention, across chunks too (EvidenceQuotesMention:
\* parsers/common.py, validate_source, normalize_text, evidence_for).
THEOREM EvidenceIsExact == Spec => []EvidenceQuotesMention
<1>1. EvidenceInv => EvidenceQuotesMention
  <2> SUFFICES ASSUME EvidenceInv PROVE EvidenceQuotesMention
    OBVIOUS
  <2>1. ASSUME stage = "analysed", NEW i \in DOMAIN analysis.skills
        PROVE  LET m == analysis.skills[i]
               IN /\ Quoted(m.evidence) = Slice(analysis.normalized.text, m.start, m.end)
                  /\ \A k \in DOMAIN m.evidence :
                       m.evidence[k].excerpt = Slice(source.text, m.evidence[k].start, m.evidence[k].end)
    <3>1. PICK m : m = analysis.skills[i]
      OBVIOUS
    <3>2. SkillOK(m, source.text) /\ analysis.normalized.text = Words(source.text)
      BY <2>1, <3>1 DEF EvidenceInv, AnalysedOK, SkillsOK
    <3>3. /\ Quoted(m.evidence) = Slice(analysis.normalized.text, m.start, m.end)
          /\ \A k \in DOMAIN m.evidence : Quotes(m.evidence[k], source.text)
      BY <3>2 DEF SkillOK, Proves
    <3>4. \A k \in DOMAIN m.evidence :
            m.evidence[k].excerpt = Slice(source.text, m.evidence[k].start, m.evidence[k].end)
      BY <3>3 DEF Quotes
    <3> QED
      BY <3>1, <3>3, <3>4, Zenon
  <2> QED
    BY <2>1, Zenon DEF EvidenceQuotesMention, EvidenceInv, CodeOK
<1> QED
  BY <1>1, EvidenceInit, EvidenceNext, ResumeInit, ResumeNext, PTL DEF Spec

-----------------------------------------------------------------------------
(* Skills, requirements and verdicts are proven *)

\* Evidence that quotes an alias of a skill.
Meant(evidence, name) ==
  IsList(evidence) /\ \E a \in Aliases : a.name = name /\ Quoted(evidence) = a.words

\* Evidence that begins by quoting an alias of a skill.
Proof(evidence, name) ==
  /\ Len(evidence) \in Nat
  /\ \E n \in 1..Len(evidence) : \E a \in Aliases : a.name = name /\ Quoted(SubSeq(evidence, 1, n)) = a.words

\* What is concatenated begins with its first part.
LEMMA FlattenBegins ==
  ASSUME NEW s, IsList(s), 1 \in DOMAIN s, \A k \in DOMAIN s : IsList(s[k])
  PROVE  /\ Len(FlattenSeq(s)) \in Nat /\ Len(s[1]) \in 0..Len(FlattenSeq(s))
         /\ SubSeq(FlattenSeq(s), 1, Len(s[1])) = s[1]
<1> DEFINE n == Len(s)
           V == UNION {{s[k][i] : i \in DOMAIN s[k]} : k \in DOMAIN s}
           L == Len(s[1])
<1>1. n \in Nat /\ DOMAIN s = 1..n /\ 1 \in 1..n
  BY ListShape
<1>2. \A k \in 1..n : s[k] \in Seq(V)
  <2> SUFFICES ASSUME NEW k \in 1..n PROVE s[k] \in Seq(V)
    OBVIOUS
  <2>1. IsList(s[k])
    BY <1>1
  <2>2. Len(s[k]) \in Nat /\ DOMAIN s[k] = 1..Len(s[k])
    BY <2>1, ListShape
  <2>3. \A i \in 1..Len(s[k]) : s[k][i] \in V
    BY <1>1, <2>2
  <2>4. s[k] = [i \in 1..Len(s[k]) |-> s[k][i]]
    BY <2>1, <2>2 DEF IsList
  <2> HIDE DEF V
  <2> QED
    BY <2>2, <2>3, <2>4
<1> HIDE DEF V
<1>3. s = [k \in 1..n |-> s[k]]
  BY <1>1 DEF IsList
<1>4. s \in Seq(Seq(V))
  BY <1>1, <1>2, <1>3
<1>5. PICK f : Flattens(f, V, s)
  BY <1>4, FlattenSteps
<1>6. /\ f \in [0..n -> Seq(V)] /\ f[0] = <<>> /\ FlattenSeq(s) = f[n]
      /\ \A i \in 1..n : f[i] = f[i - 1] \o s[i]
  BY <1>5 DEF Flattens
<1> DEFINE Begins(t) == Len(t) \in Nat /\ L <= Len(t) /\ \A k \in 1..L : t[k] = s[1][k]
           T == {i \in 0..n : i = 0 \/ Begins(f[i])}
<1>7. 0 \in T
  BY <1>1
<1>8. ASSUME NEW i \in 0..(n - 1), i \in T PROVE i + 1 \in T
  <2>1. i + 1 \in 1..n /\ i + 1 \in 0..n /\ (i + 1) - 1 = i
    BY <1>1
  <2>2. PICK t, u, g : /\ t = f[i] /\ u = s[i + 1] /\ g = f[i + 1]
                       /\ g = t \o u /\ t \in Seq(V) /\ u \in Seq(V)
    <3> HIDE DEF n
    <3>1. f[i + 1] = f[i] \o s[i + 1]
      BY <1>6, <2>1
    <3>2. f[i] \in Seq(V) /\ s[i + 1] \in Seq(V)
      <4>1. f \in [0..n -> Seq(V)] /\ i \in 0..n
        BY <1>1, <1>6
      <4> QED
        BY <1>2, <2>1, <4>1
    <3> QED
      BY <3>1, <3>2
  <2>3. Begins(f[i + 1])
    <3>1. CASE i = 0
      <4>1. f[i + 1] = s[1]
        <5>1. t = <<>> /\ u = s[1]
          BY <1>6, <2>2, <3>1
        <5> QED
          BY <2>2, <5>1
      <4> QED
        BY <1>1, <1>2, <4>1
    <3>2. CASE i # 0
      <4>1. Begins(t)
        BY <1>8, <2>2, <3>2
      <4>2. /\ Len(g) = Len(t) + Len(u) /\ Len(t) \in Nat /\ Len(u) \in Nat
            /\ \A k \in 1..Len(t) : g[k] = t[k]
        <5>1. t \in Seq(V) /\ u \in Seq(V) /\ g = t \o u
          BY <2>2
        <5> HIDE DEF L, n
        <5> QED
          BY ONLY <5>1
      <4>3. L \in Nat
        BY <1>1, <1>2
      <4> HIDE DEF L
      <4>4. Begins(g)
        BY <4>1, <4>2, <4>3
      <4> HIDE DEF Begins
      <4> QED
        BY <2>2, <4>4
    <3> QED
      BY <3>1, <3>2
  <2> HIDE DEF Begins
  <2> QED
    BY <2>1, <2>3
<1>9. n \in T
  <2>1. \A i \in 0..n : i \in T
    <3> HIDE DEF T, n
    <3> QED
      BY <1>1, <1>7, <1>8, Upwards
  <2> HIDE DEF T
  <2> QED
    BY <1>1, <2>1
<1>10. Begins(f[n])
  <2> HIDE DEF Begins
  <2> QED
    BY <1>1, <1>9
<1>11. s[1] \in Seq(V) /\ f[n] \in Seq(V)
  BY <1>1, <1>2, <1>6
<1>12. SubSeq(f[n], 1, L) = s[1] /\ L \in 0..Len(f[n])
  <2>1. PICK t, u : t = f[n] /\ u = s[1]
    OBVIOUS
  <2>2. t \in Seq(V) /\ u \in Seq(V) /\ Len(u) <= Len(t) /\ \A k \in 1..Len(u) : t[k] = u[k]
    BY <1>10, <1>11, <2>1
  <2>3. SubSeq(t, 1, Len(u)) = u /\ Len(u) \in 0..Len(t)
    BY <2>2
  <2> QED
    BY <2>1, <2>3
<1> QED
  BY <1>6, <1>10, <1>12

\* The evidence of a skill's mentions, one after the other, begins by quoting it.
LEMMA MentionsProve ==
  ASSUME NEW q, IsList(q), 1 \in DOMAIN q, NEW name, \A k \in DOMAIN q : Meant(q[k].evidence, name)
  PROVE  Proof(FlattenSeq([k \in DOMAIN q |-> q[k].evidence]), name)
<1> DEFINE s == [k \in DOMAIN q |-> q[k].evidence]
<1>1. s = [k \in DOMAIN q |-> s[k]] /\ \A k \in DOMAIN q : s[k] = q[k].evidence
  OBVIOUS
<1>2. \A k \in DOMAIN q : Meant(s[k], name)
  BY <1>1
<1> HIDE DEF s
<1>3. IsList(s) /\ DOMAIN s = DOMAIN q
  BY <1>1, MappedList
<1>4. \A k \in DOMAIN s : IsList(s[k])
  BY <1>2, <1>3 DEF Meant
<1>5. PICK flat, L : flat = FlattenSeq(s) /\ L = Len(s[1])
  OBVIOUS
<1>6. Len(flat) \in Nat /\ L \in 0..Len(flat) /\ SubSeq(flat, 1, L) = s[1]
  BY <1>3, <1>4, <1>5, FlattenBegins
<1>7. PICK a \in Aliases : a.name = name /\ Quoted(s[1]) = a.words
  BY <1>2 DEF Meant
<1>8. L # 0
  <2> SUFFICES ASSUME L = 0 PROVE FALSE
    OBVIOUS
  <2>1. IsList(s[1]) /\ Len(s[1]) = 0
    BY <1>3, <1>4, <1>5
  <2>2. s[1] = <<>>
    BY <2>1 DEF IsList
  <2>3. Quoted(<<>>) = <<>>
    <3>1. FlattenSeq([i \in DOMAIN <<>> |-> <<>>[i].excerpt]) = FlattenSeq(<<>>)
      <4>1. [i \in DOMAIN <<>> |-> <<>>[i].excerpt] = <<>>
        OBVIOUS
      <4> QED
        BY <4>1, Zenon
    <3>2. Quoted(<<>>) = Normalized(<<>>).text
      BY <3>1, FlattenNothing, Zenon DEF Quoted
    <3>3. Normalized(<<>>).text = Words(<<>>)
      BY DEF Normalized, Words, Inked
    <3> QED
      BY <3>2, <3>3, WordsOfNothing
  <2>4. a.words # <<>>
    BY AliasesAssumption
  <2> QED
    BY <1>7, <2>2, <2>3, <2>4
<1>9. Quoted(SubSeq(flat, 1, L)) = a.words
  BY <1>6, <1>7
<1>10. L \in 1..Len(flat)
  BY <1>6, <1>8
<1>11. Proof(flat, name)
  BY <1>6, <1>7, <1>9, <1>10 DEF Proof
<1> QED
  BY <1>5, <1>11, Zenon DEF s

\* A found skill's evidence quotes an alias of it.
LEMMA FoundIsMeant ==
  ASSUME NEW m, NEW text, SkillOK(m, text)
  PROVE  Meant(m.evidence, m.name)
  BY DEF SkillOK, Proves, Meant

\* The skills of a profile, from a proven analysis.
SkillsProve(skills) == IsList(skills) /\ \A i \in DOMAIN skills : Proof(skills[i].evidence, skills[i].name)

\* The skills that a profile takes from a proven analysis.
LEMMA ProfileSkillsProve ==
  ASSUME NEW a, NEW text, SkillsOK(a.skills, text), NEW rows
  PROVE  SkillsProve(Skills(a, rows))
<1> DEFINE confirmed == Picked(a.skills, {i \in DOMAIN a.skills : Confirmed(a.normalized, rows, a.skills[i])})
           plain     == Picked(confirmed, {i \in DOMAIN confirmed : confirmed[i].assertion = "mentioned"})
           all(n)    == Picked(plain, {i \in DOMAIN plain : plain[i].name = n})
           proof(n)  == FlattenSeq([k \in DOMAIN all(n) |-> all(n)[k].evidence])
           own       == [i \in DOMAIN plain |-> [name |-> plain[i].name, evidence |-> proof(plain[i].name)]]
<1>1. \E first : Skills(a, rows) = Picked(own, first)
  BY Zenon DEF Skills, Filtered
<1>2. IsList(a.skills) /\ \A i \in DOMAIN a.skills : Meant(a.skills[i].evidence, a.skills[i].name)
  BY FoundIsMeant DEF SkillsOK
<1>3. IsList(confirmed) /\ \A i \in DOMAIN confirmed : Meant(confirmed[i].evidence, confirmed[i].name)
  <2>1. PICK s, places : s = a.skills /\ places = {i \in DOMAIN a.skills : Confirmed(a.normalized, rows, a.skills[i])}
    OBVIOUS
  <2>2. IsList(Picked(s, places)) /\ \A k \in DOMAIN Picked(s, places) : \E i \in DOMAIN s : Picked(s, places)[k] = s[i]
    <3>1. IsList(s)
      BY <1>2, <2>1
    <3> QED
      BY <3>1, PickedList
  <2>3. Picked(s, places) = confirmed
    BY <2>1
  <2> HIDE DEF confirmed
  <2> QED
    BY <1>2, <2>1, <2>2, <2>3
<1> HIDE DEF confirmed
<1>4. IsList(plain) /\ \A i \in DOMAIN plain : Meant(plain[i].evidence, plain[i].name)
  <2>1. PICK places : places = {i \in DOMAIN confirmed : confirmed[i].assertion = "mentioned"}
    OBVIOUS
  <2>2. IsList(Picked(confirmed, places))
        /\ \A k \in DOMAIN Picked(confirmed, places) : \E i \in DOMAIN confirmed : Picked(confirmed, places)[k] = confirmed[i]
    <3>1. IsList(confirmed)
      BY <1>3
    <3> QED
      BY <3>1, PickedList
  <2>3. Picked(confirmed, places) = plain
    BY <2>1
  <2> HIDE DEF plain
  <2> QED
    BY <1>3, <2>2, <2>3
<1> HIDE DEF plain
<1>5. ASSUME NEW i \in DOMAIN plain PROVE Proof(proof(plain[i].name), plain[i].name)
  <2>1. PICK n, places, q : n = plain[i].name /\ places = {k \in DOMAIN plain : plain[k].name = n}
                            /\ q = Picked(plain, places)
    OBVIOUS
  <2>2. /\ IsList(q)
        /\ \A k \in DOMAIN q : \E j \in places \cap DOMAIN plain : q[k] = plain[j]
        /\ \A j \in places \cap DOMAIN plain : \E k \in DOMAIN q : q[k] = plain[j]
    <3>1. IsList(plain)
      BY <1>4
    <3>2. /\ IsList(Picked(plain, places))
          /\ \A k \in DOMAIN Picked(plain, places) : \E j \in places \cap DOMAIN plain : Picked(plain, places)[k] = plain[j]
          /\ \A j \in places \cap DOMAIN plain : \E k \in DOMAIN Picked(plain, places) : Picked(plain, places)[k] = plain[j]
      BY <3>1, PickedList
    <3> QED
      BY <2>1, <3>2
  <2>3. \A k \in DOMAIN q : Meant(q[k].evidence, n)
    BY <1>4, <2>1, <2>2
  <2>4. 1 \in DOMAIN q
    <3>1. DOMAIN q # {}
      BY <2>1, <2>2
    <3> QED
      BY <2>2, <3>1, ListShape
  <2>5. Proof(FlattenSeq([k \in DOMAIN q |-> q[k].evidence]), n)
    BY <2>2, <2>3, <2>4, MentionsProve
  <2>6. q = all(n)
    BY <2>1
  <2> HIDE DEF all
  <2> QED
    BY <2>1, <2>5, <2>6, Zenon
<1> HIDE DEF proof, all
<1>6. own = [i \in DOMAIN plain |-> own[i]] /\ \A i \in DOMAIN plain : Proof(own[i].evidence, own[i].name)
  BY <1>5
<1> HIDE DEF own
<1>7. IsList(own) /\ DOMAIN own = DOMAIN plain
  BY <1>4, <1>6, MappedList
<1>8. PICK first : Skills(a, rows) = Picked(own, first)
  BY <1>1
<1>9. IsList(Picked(own, first)) /\ \A k \in DOMAIN Picked(own, first) : \E i \in DOMAIN own : Picked(own, first)[k] = own[i]
  BY <1>7, PickedList
<1> QED
  BY <1>6, <1>7, <1>8, <1>9 DEF SkillsProve

\* A text with the evidence of the whole text is covered.
LEMMA WholeIsSourced ==
  ASSUME NEW text \in Texts, NEW d, NEW r, r = [document |-> d, version |-> 1, chunk |-> 1, start |-> 0,
                                               end |-> Len(text), excerpt |-> text]
  PROVE  Sourced([text |-> text, evidence |-> <<r>>])
<1> DEFINE ev == <<r>>
           s  == [text |-> text, evidence |-> ev]
<1>1. Len(text) \in Nat
  BY DEF Texts
<1>2. ev = [i \in 1..1 |-> ev[i]] /\ ev[1] = r
  OBVIOUS
<1>3. s.text = text /\ s.evidence = ev
  OBVIOUS
<1> HIDE DEF ev
<1>4. IsList(ev) /\ DOMAIN ev = 1..1
  BY <1>2, ListMade
<1>5. DOMAIN ev = {1}
  BY <1>4
<1>6. r.start = 0 /\ r.end = Len(text)
  OBVIOUS
<1>7. Reference(r)
  BY DEF Reference
<1>8. Covers(ev, text)
  BY <1>1, <1>2, <1>4, <1>5, <1>6 DEF Covers
<1>9. \A i \in DOMAIN ev : Reference(ev[i])
  BY <1>2, <1>5, <1>7
<1>10. Sourced(s)
  <2> HIDE DEF s
  <2> QED
    BY <1>3, <1>8, <1>9 DEF Sourced
<1> QED
  BY <1>10 DEF ev

\* The requirements of a posting, from its description.
Requirement(r) == r = [skill |-> r.skill, required |-> r.required, evidence |-> r.evidence]

\* Requirements, each with evidence that names its skill.
ReqsProve(reqs) ==
  IsList(reqs) /\ \A i \in DOMAIN reqs : Requirement(reqs[i]) /\ Proof(reqs[i].evidence, reqs[i].skill)

\* The requirements of a posting are quoted from it (_extract_requirements).
LEMMA RequirementsProve ==
  ASSUME NEW description \in Texts, NEW job
  PROVE  ReqsProve(Requirements(description, job))
<1> DEFINE src == [text |-> description,
                   evidence |-> <<[document |-> job, version |-> 1, chunk |-> 1, start |-> 0,
                                   end |-> Len(description), excerpt |-> description]>>]
           found    == FindSkills(src, Normalized(description))
           mentions == Picked(found, {i \in DOMAIN found : found[i].assertion # "negated"})
           named    == {mentions[i].name : i \in DOMAIN mentions}
           ranks(n) == {Rank(mentions[i].assertion) : i \in {k \in DOMAIN mentions : mentions[k].name = n}}
           places(n) == {i \in DOMAIN mentions : mentions[i].name = n /\ Rank(mentions[i].assertion) = Max(ranks(n))}
           proof(n) == Picked(mentions, places(n))
           order    == Picked(SkillNames, {i \in DOMAIN SkillNames : SkillNames[i] \in named})
           evidence(n) == FlattenSeq([k \in DOMAIN proof(n) |-> proof(n)[k].evidence])
<1>1. Requirements(description, job) =
        [i \in DOMAIN order |-> [skill |-> order[i], required |-> Max(ranks(order[i])) = 2,
                                 evidence |-> evidence(order[i])]]
  BY Zenon DEF Requirements, Filtered
<1>2. SkillsOK(found, description)
  <2>1. PICK r : r = [document |-> job, version |-> 1, chunk |-> 1, start |-> 0,
                      end |-> Len(description), excerpt |-> description]
    OBVIOUS
  <2>2. Sourced([text |-> description, evidence |-> <<r>>])
    BY <2>1, WholeIsSourced
  <2>3. src = [text |-> description, evidence |-> <<r>>]
    BY <2>1
  <2>4. Sourced(src) /\ src.text = description
    BY <2>2, <2>3
  <2> HIDE DEF src
  <2> QED
    BY <2>4, SkillsAreProven
<1> HIDE DEF src, found
<1>3. IsList(found) /\ \A i \in DOMAIN found : Meant(found[i].evidence, found[i].name)
  BY <1>2, FoundIsMeant DEF SkillsOK
<1>4. IsList(mentions) /\ \A i \in DOMAIN mentions : Meant(mentions[i].evidence, mentions[i].name)
  <2>1. PICK at : at = {i \in DOMAIN found : found[i].assertion # "negated"}
    OBVIOUS
  <2>2. IsList(Picked(found, at)) /\ \A k \in DOMAIN Picked(found, at) : \E i \in DOMAIN found : Picked(found, at)[k] = found[i]
    <3>1. IsList(found)
      BY <1>3
    <3> QED
      BY <3>1, PickedList
  <2>3. Picked(found, at) = mentions
    BY <2>1
  <2> HIDE DEF mentions
  <2> QED
    BY <1>3, <2>2, <2>3
<1> HIDE DEF mentions
<1>5. ASSUME NEW n \in named PROVE Proof(evidence(n), n)
  <2>1. \E i \in places(n) : i \in DOMAIN mentions
    <3>1. PICK R : R = ranks(n)
      OBVIOUS
    <3>2. R \subseteq 1..2 /\ R # {}
      BY <3>1 DEF Rank
    <3>3. Max(R) \in R
      BY <3>2, IntervalMinMax
    <3>4. Max(ranks(n)) \in ranks(n)
      BY <3>1, <3>3, Zenon
    <3>5. PICK x : x = Max(ranks(n))
      OBVIOUS
    <3>6. x \in {Rank(mentions[i].assertion) : i \in {k \in DOMAIN mentions : mentions[k].name = n}}
      BY <3>4, <3>5, Zenon
    <3>7. PICK i \in DOMAIN mentions : mentions[i].name = n /\ Rank(mentions[i].assertion) = x
      BY <3>6, Zenon
    <3>8. i \in places(n)
      BY <3>5, <3>7, Zenon
    <3> QED
      BY <3>7, <3>8, Zenon
  <2>2. places(n) \subseteq {i \in DOMAIN mentions : mentions[i].name = n}
    OBVIOUS
  <2>3. PICK P, q : P = places(n) /\ q = Picked(mentions, P)
    OBVIOUS
  <2>4. /\ IsList(q)
        /\ \A k \in DOMAIN q : \E j \in P \cap DOMAIN mentions : q[k] = mentions[j]
        /\ \A j \in P \cap DOMAIN mentions : \E k \in DOMAIN q : q[k] = mentions[j]
    <3>1. IsList(mentions)
      BY <1>4
    <3>2. /\ IsList(Picked(mentions, P))
          /\ \A k \in DOMAIN Picked(mentions, P) : \E j \in P \cap DOMAIN mentions : Picked(mentions, P)[k] = mentions[j]
          /\ \A j \in P \cap DOMAIN mentions : \E k \in DOMAIN Picked(mentions, P) : Picked(mentions, P)[k] = mentions[j]
      BY <3>1, PickedList
    <3> QED
      BY <2>3, <3>2
  <2> HIDE DEF places
  <2>5. P \subseteq {i \in DOMAIN mentions : mentions[i].name = n} /\ \E i \in P : i \in DOMAIN mentions
    BY <2>1, <2>2, <2>3
  <2>6. \A k \in DOMAIN q : Meant(q[k].evidence, n)
    BY <1>4, <2>4, <2>5
  <2>7. 1 \in DOMAIN q
    <3>1. DOMAIN q # {}
      BY <2>4, <2>5
    <3> QED
      BY <2>4, <3>1, ListShape
  <2>8. Proof(FlattenSeq([k \in DOMAIN q |-> q[k].evidence]), n)
    BY <2>4, <2>6, <2>7, MentionsProve
  <2>9. q = proof(n)
    BY <2>3
  <2> HIDE DEF proof
  <2> QED
    BY <2>8, <2>9, Zenon
<1> HIDE DEF evidence
<1>6. IsList(order) /\ \A i \in DOMAIN order : order[i] \in named
  <2>1. PICK at : at = {i \in DOMAIN SkillNames : SkillNames[i] \in named}
    OBVIOUS
  <2>2. IsList(SkillNames)
    <3>1. Len(SkillNames) \in Nat /\ SkillNames = [i \in 1..Len(SkillNames) |-> SkillNames[i]]
      BY AliasesAssumption
    <3> QED
      BY <3>1, ListMade
  <2>3. IsList(Picked(SkillNames, at)) /\ \A k \in DOMAIN Picked(SkillNames, at) :
           \E i \in at \cap DOMAIN SkillNames : Picked(SkillNames, at)[k] = SkillNames[i]
    BY <2>2, PickedList
  <2>4. Picked(SkillNames, at) = order
    BY <2>1
  <2> HIDE DEF order, named
  <2> QED
    BY <2>1, <2>3, <2>4
<1>7. PICK reqs : reqs = Requirements(description, job)
  OBVIOUS
<1> HIDE DEF order, named, ranks
<1>8. /\ reqs = [i \in DOMAIN order |-> reqs[i]]
      /\ \A i \in DOMAIN order : /\ reqs[i].skill = order[i] /\ reqs[i].evidence = evidence(order[i])
                                  /\ Requirement(reqs[i])
  BY <1>1, <1>7 DEF Requirement
<1>9. IsList(reqs) /\ DOMAIN reqs = DOMAIN order
  BY <1>6, <1>8, MappedList
<1>10. ReqsProve(reqs)
  BY <1>5, <1>6, <1>8, <1>9 DEF ReqsProve
<1> QED
  BY <1>7, <1>10

\* The name of a skill is its own canonical key (AliasesAssumption).
LEMMA NameIsKey ==
  ASSUME NEW a \in Aliases
  PROVE  CanonicalKey(a.name) = a.name
<1>1. PICK known : known = {b \in Aliases : a.name \in {b.words, b.name}}
  OBVIOUS
<1>2. a \in known
  BY <1>1
<1>3. PICK b : b = CHOOSE c \in known : TRUE
  OBVIOUS
<1>4. b \in known
  BY <1>2, <1>3
<1>5. b.name = a.name
  BY <1>1, <1>4, AliasesAssumption
<1>6. CanonicalKey(a.name) = b.name
  BY <1>1, <1>2, <1>3 DEF CanonicalKey
<1> QED
  BY <1>5, <1>6

\* What is proven to be a skill has a name that is its own key.
LEMMA ProofNames ==
  ASSUME NEW evidence, NEW name, Proof(evidence, name)
  PROVE  CanonicalKey(name) = name /\ evidence # <<>>
<1>1. PICK n \in 1..Len(evidence) : \E a \in Aliases : a.name = name
  BY DEF Proof
<1>2. PICK a \in Aliases : a.name = name
  BY <1>1
<1>3. CanonicalKey(a.name) = a.name
  BY NameIsKey
<1>4. Len(evidence) # 0
  BY <1>1 DEF Proof
<1> QED
  BY <1>2, <1>3, <1>4

\* One requirement is left of each skill, with evidence of its own.
OneEach(d, reqs) ==
  /\ IsList(d)
  /\ {d[i].skill : i \in DOMAIN d} = {reqs[i].skill : i \in DOMAIN reqs}
  /\ \A i, k \in DOMAIN d : i # k => d[i].skill # d[k].skill
  /\ \A i \in DOMAIN d : Proof(d[i].evidence, d[i].skill)

\* Of the requirements of one skill one is left (_distinct_requirements).
LEMMA DistinctProve ==
  ASSUME NEW reqs, ReqsProve(reqs)
  PROVE  OneEach(DistinctRequirements(reqs), reqs)
<1> DEFINE n == Len(reqs)
           key(i) == CanonicalKey(reqs[i].skill)
           first == {i \in DOMAIN reqs : \A k \in 1..(i - 1) : key(k) # key(i)}
           t == [i \in DOMAIN reqs |->
                   [reqs[i] EXCEPT !.required =
                      \E k \in DOMAIN reqs : key(k) = key(i) /\ reqs[k].required]]
<1>1. DistinctRequirements(reqs) = Picked(t, first)
  BY Zenon DEF DistinctRequirements
<1>2. n \in Nat /\ DOMAIN reqs = 1..n
  BY ListShape DEF ReqsProve
<1>3. t = [i \in DOMAIN reqs |-> t[i]]
  OBVIOUS
<1>4. \A i \in 1..n : t[i].skill = reqs[i].skill /\ t[i].evidence = reqs[i].evidence
  <2> SUFFICES ASSUME NEW i \in 1..n PROVE t[i].skill = reqs[i].skill /\ t[i].evidence = reqs[i].evidence
    OBVIOUS
  <2>1. PICK r, b : r = reqs[i] /\ b = (\E k \in DOMAIN reqs : key(k) = key(i) /\ reqs[k].required)
    OBVIOUS
  <2>2. t[i] = [r EXCEPT !.required = b]
    BY <1>2, <2>1
  <2>3. Requirement(r)
    BY <1>2, <2>1 DEF ReqsProve
  <2> HIDE DEF t
  <2> QED
    BY <2>1, <2>2, <2>3 DEF Requirement
<1> HIDE DEF t
<1>5. IsList(t) /\ DOMAIN t = 1..n /\ Len(t) = n
  BY <1>2, <1>3, MappedList DEF ReqsProve
<1>6. \A i \in 1..n : key(i) = reqs[i].skill /\ Proof(reqs[i].evidence, reqs[i].skill)
  BY <1>2, ProofNames DEF ReqsProve
<1>7. \A i \in 1..n : i \in first <=> \A k \in 1..(i - 1) : reqs[k].skill # reqs[i].skill
  BY <1>2, <1>6
<1>8. first \subseteq 1..n
  BY <1>2
<1> HIDE DEF first, key
<1>9. PICK m, at : PicksAt(at, m, t, first)
  <2>1. PICK V : V = {t[i] : i \in DOMAIN t}
    OBVIOUS
  <2>2. t \in Seq(V)
    BY <1>5, <2>1 DEF IsList
  <2> QED
    BY <2>2, PickedPlaces
<1>10. PICK d : d = Picked(t, first)
  OBVIOUS
<1>11. /\ m \in 0..n /\ d = [k \in 1..m |-> t[at[k]]]
       /\ \A i \in 1..m : at[i] \in first
       /\ \A i, k \in 1..m : i < k => at[i] < at[k]
       /\ \A p \in first : \E k \in 1..m : at[k] = p
  BY <1>5, <1>8, <1>9, <1>10 DEF PicksAt, Ascends
<1>12. DOMAIN d = 1..m /\ IsList(d)
  <2>1. d = [k \in 1..m |-> d[k]] /\ m \in Nat
    BY <1>11
  <2> QED
    BY <1>11, <2>1, ListMade
<1>13. \A k \in 1..m : /\ at[k] \in 1..n /\ d[k].skill = reqs[at[k]].skill
                       /\ d[k].evidence = reqs[at[k]].evidence
  BY <1>4, <1>8, <1>11
<1>14. \A i, k \in DOMAIN d : i # k => d[i].skill # d[k].skill
  <2>1. \A i, k \in 1..m : i < k => d[i].skill # d[k].skill
    <3> SUFFICES ASSUME NEW i \in 1..m, NEW k \in 1..m, i < k PROVE d[i].skill # d[k].skill
      OBVIOUS
    <3>1. at[i] \in 1..n /\ at[k] \in 1..n /\ at[i] < at[k] /\ at[k] \in first
      BY <1>11, <1>13
    <3>2. at[i] \in 1..(at[k] - 1)
      BY <3>1
    <3>3. reqs[at[i]].skill # reqs[at[k]].skill
      BY <1>7, <3>1, <3>2
    <3> QED
      BY <1>13, <3>3
  <2>2. \A i, k \in 1..m : i # k => i < k \/ k < i
    BY <1>2, <1>11
  <2> QED
    BY <1>12, <2>1, <2>2
<1>15. \A i \in DOMAIN d : Proof(d[i].evidence, d[i].skill)
  BY <1>6, <1>12, <1>13
<1>16. {d[i].skill : i \in DOMAIN d} = {reqs[i].skill : i \in DOMAIN reqs}
  <2>1. ASSUME NEW i \in 1..n PROVE \E k \in 1..m : d[k].skill = reqs[i].skill
    <3> DEFINE S == {p \in 1..n : reqs[p].skill = reqs[i].skill}
    <3>1. S \subseteq 1..n /\ i \in S
      OBVIOUS
    <3> HIDE DEF S
    <3>2. PICK p \in S : \A q \in S : p <= q
      BY <1>2, <3>1, IntervalMinMax
    <3>3. p \in 1..n /\ reqs[p].skill = reqs[i].skill
      BY <3>2 DEF S
    <3>4. ASSUME NEW q \in 1..(p - 1) PROVE reqs[q].skill # reqs[p].skill
      <4>1. q \in 1..n /\ ~(p <= q)
        BY <1>2, <3>3
      <4>2. q \notin S
        BY <3>2, <4>1
      <4> QED
        BY <3>3, <4>1, <4>2 DEF S
    <3>5. p \in first
      BY <1>7, <3>3, <3>4
    <3>6. PICK k \in 1..m : at[k] = p
      BY <1>11, <3>5
    <3> QED
      BY <1>13, <3>3, <3>6
  <2>2. \A i \in DOMAIN reqs : \E k \in DOMAIN d : d[k].skill = reqs[i].skill
    BY <1>2, <1>12, <2>1
  <2>3. \A k \in DOMAIN d : \E i \in DOMAIN reqs : d[k].skill = reqs[i].skill
    BY <1>2, <1>12, <1>13
  <2> QED
    BY <2>2, <2>3
<1>17. OneEach(d, reqs)
  BY <1>12, <1>14, <1>15, <1>16 DEF OneEach
<1> QED
  BY <1>1, <1>10, <1>17

\* The verdicts of a comparison.
Verdicts(cs, reqs) ==
  /\ {cs[i].skill : i \in DOMAIN cs} = {reqs[i].skill : i \in DOMAIN reqs}
  /\ \A i, k \in DOMAIN cs : i # k => cs[i].skill # cs[k].skill
  /\ \A i \in DOMAIN cs : /\ ValidComparison(cs[i]) /\ Proof(cs[i].job, cs[i].skill)
                          /\ cs[i].state = "present" => Proof(cs[i].resume, cs[i].skill)

\* The comparison gives each required skill one proven verdict.
LEMMA ComparedProve ==
  ASSUME NEW profile, SkillsProve(profile.skills), NEW summary, NEW reqs, ReqsProve(reqs)
  PROVE  Verdicts(Compared(profile, summary, reqs), reqs)
<1> DEFINE d == DistinctRequirements(reqs)
           owned(r)   == Owned(profile, r.skill)
           partial(r) == PartialEvidence(profile, summary, r.skill)
           resume(r)  == IF owned(r) # {} THEN profile.skills[Min(owned(r))].evidence ELSE partial(r)
           state(r)   == IF owned(r) # {} THEN "present"
                         ELSE IF partial(r) # <<>> THEN "partial" ELSE "missing"
           cs == [i \in DOMAIN d |->
                    [skill |-> d[i].skill, required |-> d[i].required,
                     state |-> state(d[i]), job |-> d[i].evidence,
                     resume |-> resume(d[i])]]
<1>1. Compared(profile, summary, reqs) = cs
  BY Zenon DEF Compared
<1>2. OneEach(d, reqs)
  BY DistinctProve
<1> HIDE DEF d
<1>3. /\ DOMAIN cs = DOMAIN d
      /\ \A i \in DOMAIN d : /\ cs[i].skill = d[i].skill /\ cs[i].job = d[i].evidence
                             /\ cs[i].state = state(d[i]) /\ cs[i].resume = resume(d[i])
  OBVIOUS
<1> HIDE DEF cs
<1>4. ASSUME NEW i \in DOMAIN d
      PROVE  /\ state(d[i]) = "missing" <=> resume(d[i]) = <<>>
             /\ state(d[i]) = "present" => Proof(resume(d[i]), d[i].skill)
  <2>1. PICK r : r = d[i]
    OBVIOUS
  <2>2. CanonicalKey(r.skill) = r.skill
    BY <1>2, <2>1, ProofNames DEF OneEach
  <2>3. CASE owned(r) # {}
    <3>1. PICK S : S = owned(r)
      OBVIOUS
    <3>2. Len(profile.skills) \in Nat /\ DOMAIN profile.skills = 1..Len(profile.skills)
      BY ListShape DEF SkillsProve
    <3>3. S \subseteq 1..Len(profile.skills) /\ S # {}
      BY <2>3, <3>1, <3>2 DEF Owned
    <3>4. Min(S) \in S
      BY <3>2, <3>3, IntervalMinMax
    <3>5. PICK k : k = Min(S)
      OBVIOUS
    <3>6. k \in DOMAIN profile.skills /\ CanonicalKey(profile.skills[k].name) = CanonicalKey(r.skill)
      BY <3>1, <3>4, <3>5 DEF Owned
    <3>7. Proof(profile.skills[k].evidence, profile.skills[k].name)
      BY <3>6 DEF SkillsProve
    <3>8. profile.skills[k].name = r.skill /\ profile.skills[k].evidence # <<>>
      BY <2>2, <3>6, <3>7, ProofNames
    <3>9. resume(r) = profile.skills[k].evidence /\ state(r) = "present"
      BY <2>3, <3>1, <3>5
    <3> HIDE DEF resume, state
    <3> QED
      BY <2>1, <3>7, <3>8, <3>9
  <2>4. CASE owned(r) = {}
    <3>1. resume(r) = partial(r) /\ state(r) = IF partial(r) # <<>> THEN "partial" ELSE "missing"
      BY <2>4
    <3> HIDE DEF resume, state, partial
    <3> QED
      BY <2>1, <3>1
  <2> QED
    BY <2>3, <2>4
<1>5. ASSUME NEW i \in DOMAIN d
      PROVE  /\ ValidComparison(cs[i]) /\ Proof(cs[i].job, cs[i].skill)
             /\ cs[i].state = "present" => Proof(cs[i].resume, cs[i].skill)
  <2> HIDE DEF state, resume
  <2>1. Proof(d[i].evidence, d[i].skill) /\ d[i].evidence # <<>>
    BY <1>2, ProofNames DEF OneEach
  <2> QED
    BY <1>3, <1>4, <2>1 DEF ValidComparison
<1> HIDE DEF state, resume
<1>6. Verdicts(cs, reqs)
  BY <1>2, <1>3, <1>5 DEF Verdicts, OneEach
<1> QED
  BY <1>1, <1>6

\* The inductive invariant behind VerdictsAreProven, beside RankInv, ResumeInv and EvidenceInv.
ProfileOK  == stage \in {"built", "stored"} => SkillsProve(made.profile.skills)

\* The requirements of the imported postings are quoted from them.
NeedsOK    == \A j \in Jobs : postings[j] # None => ReqsProve(postings[j].reqs)

\* The stored verdicts are about those requirements.
VerdictsOK == \A j \in Jobs : results[j] # None => /\ postings[j] # None
                                                   /\ Verdicts(results[j].compared, postings[j].reqs)

\* The inductive invariant behind VerdictsAreProven, beside those of the resume, of its
\* evidence and of the results.
VerdictInv == ProfileOK /\ NeedsOK /\ VerdictsOK

\* A built profile has proven skills.
LEMMA BuildProves ==
  ASSUME ResumeInv, EvidenceInv, NEW orgLines, Build(orgLines)
  PROVE  ProfileOK'
<1>1. PICK rows, work, projects, schools, skills, profile :
        /\ rows = Rows(source) /\ work = Experiences(source, rows, orgLines)
        /\ projects = Projects(source, rows) /\ schools = Schools(source, rows, orgLines)
        /\ skills = Skills(analysis, rows)
        /\ profile = ProfileOf(source, work.jobs, schools, projects.projects, skills, Now)
  OBVIOUS
<1>2. /\ stage = "analysed"
      /\ made' = [profile |-> profile, summary |-> Summary(profile),
                  warnings |-> Warnings(profile, work.undated, projects.bare)]
  BY <1>1, Zenon DEF Build
<1>3. SkillsOK(analysis.skills, source.text)
  BY <1>2 DEF EvidenceInv, AnalysedOK
<1>4. SkillsProve(skills)
  BY <1>1, <1>3, ProfileSkillsProve
<1>5. profile.skills = skills
  BY <1>1 DEF ProfileOf
<1>6. made'.profile = profile
  BY <1>2
<1> QED
  BY <1>4, <1>5, <1>6 DEF ProfileOK

\* An imported posting has proven requirements, and no result is about it yet.
LEMMA ImportProves ==
  ASSUME RankInv, VerdictInv, NEW j \in Jobs, NEW page \in PagesOf[j], Import(j, page)
  PROVE  VerdictInv'
<1>1. PICK n : n = Normalised(page)
  OBVIOUS
<1> DEFINE new == [title |-> n.title, company |-> n.company, description |-> n.description,
                   reqs |-> Requirements(n.description, j)]
<1>2. /\ postings[j] = None /\ postings' = [postings EXCEPT ![j] = new]
      /\ UNCHANGED <<stage, made, results>>
  BY <1>1, Zenon DEF Import, resumeVars
<1>3. page \in Pages
  BY JobsAreNumbered
<1>4. n.description \in Texts
  BY <1>1, <1>3, NormalisedType
<1>5. new.reqs = Requirements(n.description, j)
  OBVIOUS
<1>6. ReqsProve(new.reqs)
  BY <1>4, <1>5, RequirementsProve
<1> HIDE DEF new
<1>7. postings = [k \in Jobs |-> postings[k]]
  BY DEF RankInv, PostingsOK
<1>8. \A k \in Jobs : postings'[k] = IF k = j THEN new ELSE postings[k]
  BY <1>2, <1>7
<1>9. ProfileOK'
  BY <1>2 DEF VerdictInv, ProfileOK
<1>10. NeedsOK'
  BY <1>6, <1>8 DEF VerdictInv, NeedsOK
<1>11. VerdictsOK'
  <2> SUFFICES ASSUME NEW k \in Jobs, results[k] # None
               PROVE  postings'[k] # None /\ Verdicts(results[k].compared, postings'[k].reqs)
    BY <1>2 DEF VerdictsOK
  <2>1. postings[k] # None /\ Verdicts(results[k].compared, postings[k].reqs)
    BY DEF VerdictInv, VerdictsOK
  <2>2. postings'[k] = postings[k]
    BY <1>2, <1>8, <2>1
  <2> QED
    BY <2>1, <2>2
<1> QED
  BY <1>9, <1>10, <1>11 DEF VerdictInv

\* A new result has proven verdicts.
LEMMA ScoreProves ==
  ASSUME RankInv, VerdictInv, NEW j \in Jobs, NEW s, Score(j, s)
  PROVE  VerdictInv'
<1>1. PICK profile, summary, reqs : /\ profile = made.profile /\ summary = made.summary
                                    /\ reqs = postings[j].reqs
  OBVIOUS
<1>2. results' = [results EXCEPT ![j] = PairResult(profile, summary, j, reqs, s)]
  BY <1>1, Zenon DEF Score
<1>3. stage = "stored" /\ postings[j] # None /\ UNCHANGED <<stage, made, postings>>
  BY DEF Score, resumeVars
<1>4. SkillsProve(profile.skills) /\ ReqsProve(reqs)
  BY <1>1, <1>3 DEF VerdictInv, ProfileOK, NeedsOK
<1>5. Verdicts(Compared(profile, summary, reqs), reqs)
  BY <1>4, ComparedProve
<1>6. PICK r : r = PairResult(profile, summary, j, reqs, s)
  OBVIOUS
<1>7. r.compared = Compared(profile, summary, reqs)
  BY <1>6 DEF PairResult
<1>8. results = [k \in Jobs |-> results[k]]
  BY DEF RankInv, ResultsOK
<1>9. \A k \in Jobs : results'[k] = IF k = j THEN r ELSE results[k]
  BY <1>2, <1>6, <1>8
<1>10. VerdictsOK'
  BY <1>1, <1>3, <1>5, <1>7, <1>9 DEF VerdictInv, VerdictsOK
<1>11. ProfileOK' /\ NeedsOK'
  BY <1>3 DEF VerdictInv, ProfileOK, NeedsOK
<1> QED
  BY <1>10, <1>11 DEF VerdictInv

\* Every step keeps the invariant of the verdicts.
LEMMA VerdictNext == RankInv /\ ResumeInv /\ EvidenceInv /\ VerdictInv /\ [Next]_vars => VerdictInv'
<1> SUFFICES ASSUME RankInv, ResumeInv, EvidenceInv, VerdictInv, [Next]_vars PROVE VerdictInv'
  OBVIOUS
<1>1. CASE UNCHANGED <<postings, results>> /\ ProfileOK'
  BY <1>1 DEF VerdictInv, NeedsOK, VerdictsOK
<1>2. CASE UNCHANGED <<postings, results>> /\ stage' \notin {"built", "stored"}
  BY <1>1, <1>2 DEF ProfileOK
<1>3. CASE UNCHANGED <<postings, results, stage, made>>
  BY <1>1, <1>3 DEF VerdictInv, ProfileOK
<1>4. ASSUME NEW p \in Paragraphs, Write(p) PROVE VerdictInv'
  BY <1>3, <1>4 DEF Write, matchVars
<1>5. ASSUME NEW u, NEW cut, NEW faults, Extract(u, cut, faults) PROVE VerdictInv'
  <2>1. stage' \in {"failed", "text"} /\ UNCHANGED <<postings, results>>
    BY <1>5, Zenon DEF Extract, Fail, matchVars
  <2> QED
    BY <1>2, <2>1
<1>6. ASSUME NEW language \in Languages, Analyse(language) PROVE VerdictInv'
  <2>1. stage' \in {"failed", "analysed"} /\ UNCHANGED <<postings, results>>
    BY <1>6, Zenon DEF Analyse, Fail, matchVars
  <2> QED
    BY <1>2, <2>1
<1>7. ASSUME NEW orgLines, Build(orgLines) PROVE VerdictInv'
  <2>1. UNCHANGED <<postings, results>>
    BY <1>7, Zenon DEF Build, matchVars
  <2> QED
    BY <1>1, <1>7, <2>1, BuildProves
<1>8. CASE Keep
  <2>1. stage = "built" /\ UNCHANGED <<postings, results, made>>
    BY <1>8, Zenon DEF Keep
  <2> QED
    BY <1>1, <2>1 DEF VerdictInv, ProfileOK
<1>9. ASSUME NEW j \in Jobs, NEW page \in PagesOf[j], Import(j, page) PROVE VerdictInv'
  BY <1>9, ImportProves
<1>10. ASSUME NEW b, Deploy(b) PROVE VerdictInv'
  BY <1>3, <1>10 DEF Deploy, resumeVars
<1>11. CASE Rebuild
  BY <1>3, <1>11 DEF Rebuild, resumeVars
<1>12. ASSUME NEW j \in Jobs, NEW s \in Similarities, Score(j, s) PROVE VerdictInv'
  BY <1>12, ScoreProves
<1>13. CASE Publish
  BY <1>2, <1>13 DEF Publish
<1>14. ASSUME NEW coarse, NEW tfidf, NEW pool, Rerank(coarse, tfidf, pool) PROVE VerdictInv'
  BY <1>2, <1>14 DEF Rerank
<1>15. ASSUME NEW similarity, NEW limit, Search(similarity, limit) PROVE VerdictInv'
  BY <1>2, <1>15 DEF Search
<1>16. CASE UNCHANGED vars
  BY <1>3, <1>16 DEF vars, resumeVars, matchVars
<1> QED
  BY <1>4, <1>5, <1>6, <1>7, <1>8, <1>9, <1>10, <1>11, <1>12, <1>13, <1>14, <1>15, <1>16 DEF Next

\* Each skill that a scored posting names has one verdict that its contract accepts, and
\* "present" is proved on both sides by words that mean that skill, whatever the documents
\* say (VerdictsAreProven: matching/skills.py, jobs/normalize.py, resume/profile.py, nlp/skills.py).
THEOREM VerdictsAreRight == Spec => []VerdictsAreProven
<1>1. Init => VerdictInv
  BY DEF Init, VerdictInv, ProfileOK, NeedsOK, VerdictsOK
<1>2. VerdictInv => VerdictsAreProven
  <2> SUFFICES ASSUME VerdictInv PROVE VerdictsAreProven
    OBVIOUS
  <2> DEFINE Means(evidence, name) ==
        \E n \in 1..Len(evidence) : \E a \in Aliases : a.name = name /\ Quoted(SubSeq(evidence, 1, n)) = a.words
  <2>1. ASSUME NEW evidence, NEW name, Proof(evidence, name) PROVE Means(evidence, name)
    BY <2>1 DEF Proof
  <2> HIDE DEF Means
  <2>2. ASSUME NEW j \in Jobs, results[j] # None
        PROVE  LET cs == results[j].compared
               IN /\ {cs[i].skill : i \in DOMAIN cs} = {postings[j].reqs[i].skill : i \in DOMAIN postings[j].reqs}
                  /\ \A i, k \in DOMAIN cs : i # k => cs[i].skill # cs[k].skill
                  /\ \A i \in DOMAIN cs :
                       /\ ValidComparison(cs[i])
                       /\ Means(cs[i].job, cs[i].skill)
                       /\ cs[i].state = "present" => Means(cs[i].resume, cs[i].skill)
    BY <2>1, <2>2 DEF VerdictInv, VerdictsOK, Verdicts
  <2> QED
    BY <2>2, Zenon DEF VerdictsAreProven, Means
<1> QED
  BY <1>1, <1>2, VerdictNext, EvidenceNext, ResumeInit, ResumeNext, RankInit, RankNext, EvidenceInit, PTL DEF Spec

-----------------------------------------------------------------------------
(* Confirmed skills are claimed *)

\* Only line breaks lie outside of the chunks of a text.
Spaced(ev, text) ==
  \A p \in 1..Len(text) :
    text[p] = "nl" \/ \E i \in DOMAIN ev : ev[i].start < p /\ p <= ev[i].end

\* They do in a text that extraction assembled.
LEMMA SourceIsSpaced ==
  ASSUME NEW s, SourceOK(s)
  PROVE  Spaced(s.evidence, s.text)
<1>1. PICK parts : /\ Chunks(parts) /\ parts # <<>> /\ s = SourceOf(parts)
  BY DEF SourceOK
<1>2. s = SourceFrom(parts, Resume, 1)
  BY <1>1 DEF SourceOf
<1>3. PICK text, ev, S : text = s.text /\ ev = s.evidence /\ S = Starts(parts)
  OBVIOUS
<1>4. Laid(S, parts, text, Len(parts))
  <2>1. text = Joined(parts, <<"nl", "nl">>)
    BY <1>2, <1>3 DEF SourceFrom
  <2> QED
    BY <1>1, <1>3, <2>1, ChunksAreLaid
<1>5. Cites(ev, S, parts, Resume, 1)
  BY <1>1, <1>2, <1>3, SourceCites
<1>6. DOMAIN ev = 1..Len(parts) /\ \A i \in 1..Len(parts) : ev[i].start = S[i] /\ ev[i].end = S[i] + Len(parts[i])
  BY <1>5 DEF Cites
<1>7. \A p \in 1..Len(text) : text[p] = "nl" \/ \E i \in 1..Len(parts) : S[i] < p /\ p <= S[i] + Len(parts[i])
  BY <1>4 DEF Laid
<1>8. Spaced(ev, text)
  BY <1>6, <1>7 DEF Spaced
<1> QED
  BY <1>3, <1>8

\* The pieces that clipping leaves of some evidence lie in the span and leave
\* nothing of it out.
Pieces(q, ev, lo, hi) ==
  /\ IsList(q)
  /\ \A k \in DOMAIN q : q[k].start \in Int /\ q[k].end \in Int /\ lo <= q[k].start /\ q[k].end <= hi
  /\ \A p \in (lo + 1)..hi : \A i \in DOMAIN ev :
       ev[i].start < p /\ p <= ev[i].end => \E k \in DOMAIN q : q[k].start < p /\ p <= q[k].end

\* Clipping leaves such pieces.
LEMMA ClippedPieces ==
  ASSUME NEW text \in Texts, NEW src, NEW ev,
         Covers(ev, text), \A i \in DOMAIN ev : Reference(ev[i]),
         NEW lo \in 0..Len(text), NEW hi \in lo..Len(text)
  PROVE  src.text = text /\ src.evidence = ev => Pieces(Clipped(src, lo, hi), ev, lo, hi)
<1> DEFINE n == Len(ev)
           all == [i \in DOMAIN ev |->
                     [ev[i] EXCEPT !.start = Max({lo, ev[i].start}), !.end = Min({hi, ev[i].end}),
                        !.excerpt = Slice(text, Max({lo, ev[i].start}), Min({hi, ev[i].end}))]]
           places == {i \in DOMAIN ev : Max({lo, ev[i].start}) < Min({hi, ev[i].end})}
           q == Picked(all, places)
<1>1. src.text = text /\ src.evidence = ev => Clipped(src, lo, hi) = q
  BY Zenon DEF Clipped
<1>2. n \in Nat /\ DOMAIN ev = 1..n /\ Len(text) \in Nat /\ lo \in Int /\ hi \in Int
  BY ListShape DEF Covers, Texts
<1>3. ASSUME NEW i \in DOMAIN ev
      PROVE  /\ Max({lo, ev[i].start}) = LoOf(ev, i, lo)
             /\ Min({hi, ev[i].end}) = HiOf(ev, i, hi)
  <2>1. ev[i].start \in Int /\ ev[i].end \in Int
    BY <1>2, <1>3 DEF Covers
  <2> QED
    BY <1>2, <2>1, MaxMinOfTwo DEF LoOf, HiOf
<1>4. ASSUME NEW i \in DOMAIN ev
      PROVE  all[i].start = LoOf(ev, i, lo) /\ all[i].end = HiOf(ev, i, hi)
  <2>1. PICK a, b, e : a = LoOf(ev, i, lo) /\ b = HiOf(ev, i, hi) /\ e = Slice(text, a, b)
    OBVIOUS
  <2>2. all[i] = [ev[i] EXCEPT !.start = a, !.end = b, !.excerpt = e]
    BY <1>3, <2>1
  <2>3. Reference(ev[i])
    OBVIOUS
  <2> HIDE DEF all
  <2>4. all[i].start = a /\ all[i].end = b
    BY <2>2, <2>3 DEF Reference
  <2> QED
    BY <2>1, <2>4
<1>5. places \subseteq 1..n /\ \A i \in 1..n : i \in places <=> LoOf(ev, i, lo) < HiOf(ev, i, hi)
  BY <1>2, <1>3
<1>6. IsList(all) /\ Len(all) = n /\ DOMAIN all = 1..n
  <2>1. all = [i \in DOMAIN ev |-> all[i]] /\ IsList(ev)
    BY DEF Covers
  <2> HIDE DEF all
  <2> QED
    BY <1>2, <2>1, MappedList
<1> HIDE DEF all, places
<1>7. /\ IsList(q)
      /\ \A k \in DOMAIN q : \E i \in places \cap DOMAIN all : q[k] = all[i]
      /\ \A i \in places \cap DOMAIN all : \E k \in DOMAIN q : q[k] = all[i]
  BY <1>6, PickedList
<1> HIDE DEF q
<1>8. \A i \in 1..n : ev[i].start \in Int /\ ev[i].end \in Int
  BY <1>2 DEF Covers
<1>9. ASSUME NEW k \in DOMAIN q
      PROVE  q[k].start \in Int /\ q[k].end \in Int /\ lo <= q[k].start /\ q[k].end <= hi
  <2>1. PICK i \in 1..n : q[k] = all[i]
    BY <1>6, <1>7
  <2>2. q[k].start = LoOf(ev, i, lo) /\ q[k].end = HiOf(ev, i, hi)
    BY <1>2, <1>4, <2>1
  <2> QED
    BY <1>2, <1>8, <2>2 DEF LoOf, HiOf, MaxTwo, MinTwo
<1>10. ASSUME NEW p \in (lo + 1)..hi, NEW i \in DOMAIN ev, ev[i].start < p, p <= ev[i].end
       PROVE  \E k \in DOMAIN q : q[k].start < p /\ p <= q[k].end
  <2>1. LoOf(ev, i, lo) < p /\ p <= HiOf(ev, i, hi) /\ LoOf(ev, i, lo) < HiOf(ev, i, hi)
    BY <1>2, <1>8, <1>10 DEF LoOf, HiOf, MaxTwo, MinTwo
  <2>2. i \in places \cap DOMAIN all
    BY <1>2, <1>5, <1>6, <2>1
  <2>3. PICK k \in DOMAIN q : q[k] = all[i]
    BY <1>7, <2>2
  <2> QED
    BY <1>4, <2>1, <2>3
<1> QED
  BY <1>1, <1>7, <1>9, <1>10 DEF Pieces

\* A row and a reference have a place in common.
Touches(row, ref) == row.start < ref.end /\ row.end > ref.start

\* The evidence of a mention touches only rows that the mention itself touches,
\* and one of them if there is any.
Claims(ev, rows, a, b) ==
  /\ IsList(ev)
  /\ \A k \in DOMAIN ev : \A n \in DOMAIN rows :
       Touches(rows[n], ev[k]) => rows[n].start < b /\ rows[n].end > a
  /\ \A n \in DOMAIN rows : rows[n].start < b /\ rows[n].end > a =>
       \E k \in DOMAIN ev : Touches(rows[n], ev[k])

\* evidence_for leaves such evidence of a mention.
LEMMA MentionClaims ==
  ASSUME NEW s, SourceOK(s), NEW rows, \A n \in DOMAIN rows : Within(rows[n], s.text),
         NEW a \in Nat, NEW b \in Nat, a < b, b <= Len(Words(s.text)),
         NEW span, span = SourceSpan(Normalized(s.text), a, b)
  PROVE  Claims(EvidenceFor(s, Normalized(s.text), a, b), rows, span.start, span.end)
<1>1. PICK text, ev, q : text = s.text /\ ev = s.evidence /\ q = EvidenceFor(s, Normalized(s.text), a, b)
  OBVIOUS
<1>2. Sourced(s) /\ text \in Texts
  BY <1>1, SourceIsAccepted, SourceText
<1>3. SpanFits(span, text, a, b)
  BY <1>1, <1>2, SpanOfWords
<1>4. PICK lo, hi : lo = span.start /\ hi = span.end
  OBVIOUS
<1>5. lo \in 0..Len(text) /\ hi \in lo..Len(text) /\ lo < hi
  BY <1>3, <1>4 DEF SpanFits
<1>6. Covers(ev, text) /\ \A i \in DOMAIN ev : Reference(ev[i])
  BY <1>1, <1>2 DEF Sourced
<1>7. q = Clipped(s, lo, hi)
  BY <1>1, <1>4 DEF EvidenceFor
<1>8. Pieces(q, ev, lo, hi)
  BY <1>1, <1>2, <1>5, <1>6, <1>7, ClippedPieces
<1>9. Spaced(ev, text)
  BY <1>1, SourceIsSpaced
<1>10. Len(text) \in Nat
  BY <1>2 DEF Texts
<1>11. ASSUME NEW k \in DOMAIN q, NEW n \in DOMAIN rows, Touches(rows[n], q[k])
       PROVE  rows[n].start < hi /\ rows[n].end > lo
  <2>1. Within(rows[n], text)
    BY <1>1
  <2> QED
    BY <1>5, <1>8, <1>10, <1>11, <2>1 DEF Touches, Within, Pieces
<1>12. ASSUME NEW n \in DOMAIN rows, rows[n].start < hi, rows[n].end > lo
       PROVE  \E k \in DOMAIN q : Touches(rows[n], q[k])
  <2>1. Within(rows[n], text)
    BY <1>1
  <2>2. PICK x, y : x = rows[n].start /\ y = rows[n].end
    OBVIOUS
  <2>3. x \in Nat /\ y \in Nat /\ x < y /\ y <= Len(text) /\ x < hi /\ y > lo
    BY <1>12, <2>1, <2>2 DEF Within
  <2>4. PICK p \in 1..Len(text) : p \in (lo + 1)..hi /\ p \in (x + 1)..y
    <3>1. CASE y <= hi
      BY <1>5, <1>10, <2>3, <3>1
    <3>2. CASE hi < y
      BY <1>5, <1>10, <2>3, <3>2
    <3> QED
      BY <1>5, <2>3, <3>1, <3>2
  <2>5. text[p] # "nl"
    BY <2>1, <2>2, <2>4 DEF Within
  <2>6. PICK i \in DOMAIN ev : ev[i].start < p /\ p <= ev[i].end
    BY <1>9, <2>5 DEF Spaced
  <2>7. PICK k \in DOMAIN q : q[k].start < p /\ p <= q[k].end
    BY <1>8, <2>4, <2>6 DEF Pieces
  <2>8. q[k].start \in Int /\ q[k].end \in Int
    BY <1>8 DEF Pieces
  <2>9. x < q[k].end /\ y > q[k].start
    BY <1>5, <2>3, <2>4, <2>7, <2>8
  <2> QED
    BY <2>2, <2>9 DEF Touches
<1>13. Claims(q, rows, lo, hi)
  BY <1>8, <1>11, <1>12 DEF Claims, Pieces
<1> QED
  BY <1>1, <1>4, <1>13

\* Evidence that touches rows, and rows of supported sections alone.
Mine(evidence, rows) ==
  /\ IsList(evidence)
  /\ \E n \in DOMAIN rows : \E k \in DOMAIN evidence : Touches(rows[n], evidence[k])
  /\ \A n \in DOMAIN rows : \A k \in DOMAIN evidence :
       Touches(rows[n], evidence[k]) => rows[n].section \in Supported

\* Such evidence of several mentions is such evidence.
LEMMA MentionsAreMine ==
  ASSUME NEW q, IsList(q), 1 \in DOMAIN q, NEW rows, \A k \in DOMAIN q : Mine(q[k].evidence, rows)
  PROVE  Mine(FlattenSeq([k \in DOMAIN q |-> q[k].evidence]), rows)
<1> DEFINE s == [k \in DOMAIN q |-> q[k].evidence]
<1>1. s = [k \in DOMAIN q |-> s[k]] /\ \A k \in DOMAIN q : s[k] = q[k].evidence
  OBVIOUS
<1>2. \A k \in DOMAIN q : Mine(s[k], rows)
  BY <1>1
<1>3. PICK e : e = FlattenSeq(s)
  OBVIOUS
<1> HIDE DEF s
<1>4. IsList(s) /\ DOMAIN s = DOMAIN q
  BY <1>1, MappedList
<1>5. Len(s) \in Nat /\ DOMAIN s = 1..Len(s)
  BY <1>4, ListShape
<1>6. \A k \in DOMAIN s : Mine(s[k], rows) /\ IsList(s[k])
  BY <1>2, <1>4 DEF Mine
<1> DEFINE U == UNION {{s[k][i] : i \in DOMAIN s[k]} : k \in DOMAIN s}
           V == {r \in U : \A n \in DOMAIN rows : Touches(rows[n], r) => rows[n].section \in Supported}
<1>7. s \in Seq(Seq(V))
  <2>1. ASSUME NEW k \in DOMAIN s PROVE s[k] \in Seq(V)
    <3>1. IsList(s[k])
      BY <1>6
    <3>2. Len(s[k]) \in Nat /\ DOMAIN s[k] = 1..Len(s[k])
      BY <3>1, ListShape
    <3>3. \A i \in 1..Len(s[k]) : s[k][i] \in U
      BY <3>2
    <3> HIDE DEF U
    <3>4. \A i \in 1..Len(s[k]) : s[k][i] \in V
      BY <1>6, <3>2, <3>3 DEF Mine
    <3>5. s[k] = [i \in 1..Len(s[k]) |-> s[k][i]]
      BY <3>1, <3>2 DEF IsList
    <3> HIDE DEF V
    <3> QED
      BY <3>2, <3>4, <3>5
  <2>2. s = [k \in 1..Len(s) |-> s[k]]
    BY <1>4, <1>5 DEF IsList
  <2> HIDE DEF V
  <2> QED
    BY <1>5, <2>1, <2>2
<1>8. e \in Seq(V)
  <2> HIDE DEF V
  <2> QED
    BY <1>3, <1>7, FlattenType
<1>9. \A r \in V : \A n \in DOMAIN rows : Touches(rows[n], r) => rows[n].section \in Supported
  <2> HIDE DEF U
  <2> QED
    OBVIOUS
<1> HIDE DEF V
<1>10. IsList(e) /\ \A k \in DOMAIN e : e[k] \in V
  <2>1. Len(e) \in Nat /\ DOMAIN e = 1..Len(e) /\ e = [i \in 1..Len(e) |-> e[i]]
    BY <1>8
  <2>2. IsList(e)
    BY <2>1, ListMade
  <2> QED
    BY <1>8, <2>1, <2>2
<1>11. \E n \in DOMAIN rows : \E k \in DOMAIN e : Touches(rows[n], e[k])
  <2>1. 1 \in DOMAIN s
    BY <1>4
  <2>2. Len(e) \in Nat /\ Len(s[1]) \in 0..Len(e) /\ SubSeq(e, 1, Len(s[1])) = s[1]
    BY <1>3, <1>4, <1>6, <2>1, FlattenBegins
  <2>3. PICK t : t = s[1]
    OBVIOUS
  <2>4. Mine(t, rows)
    BY <1>6, <2>1, <2>3
  <2>5. PICK n \in DOMAIN rows, k \in DOMAIN t : Touches(rows[n], t[k])
    BY <2>4 DEF Mine
  <2>6. Len(t) \in Nat /\ DOMAIN t = 1..Len(t) /\ DOMAIN e = 1..Len(e)
    BY <1>10, <2>4, ListShape DEF Mine
  <2>7. k \in DOMAIN e /\ e[k] = t[k]
    <3>1. k \in 1..Len(t) /\ Len(t) <= Len(e)
      BY <2>2, <2>3, <2>5, <2>6
    <3>2. SubSeq(e, 1, Len(t))[k] = t[k]
      BY <2>2, <2>3
    <3>3. SubSeq(e, 1, Len(t))[k] = e[k]
      BY <1>8, <2>2, <2>6, <3>1
    <3> QED
      BY <2>2, <2>6, <3>1, <3>2, <3>3
  <2> QED
    BY <2>5, <2>7
<1> QED
  BY <1>3, <1>9, <1>10, <1>11 DEF Mine, s

\* A confirmed mention has such evidence.
LEMMA ConfirmedIsMine ==
  ASSUME NEW s, SourceOK(s), NEW rows, \A n \in DOMAIN rows : Within(rows[n], s.text),
         NEW i \in DOMAIN FindSkills(s, Normalized(s.text)),
         Confirmed(Normalized(s.text), rows, FindSkills(s, Normalized(s.text))[i])
  PROVE  Mine(FindSkills(s, Normalized(s.text))[i].evidence, rows)
<1>1. PICK normalized, found, skills, m, c :
        /\ normalized = Normalized(s.text) /\ found = Chosen(normalized.text)
        /\ skills = FindSkills(s, normalized) /\ m = skills[i] /\ c = found[i]
  OBVIOUS
<1>2. Sourced(s)
  BY SourceIsAccepted
<1>3. normalized.text = Words(s.text) /\ Words(s.text) \in Texts
  <2>1. PICK f : Grows(f, s.text)
    BY <1>2, WordsGrow DEF Sourced
  <2> QED
    BY <1>1, <1>2, <2>1, WordsArePlaced, WordsType DEF Sourced
<1>4. /\ DOMAIN skills = DOMAIN found
      /\ \A k \in DOMAIN found :
           /\ skills[k].start = found[k].start /\ skills[k].end = found[k].end
           /\ skills[k].evidence = EvidenceFor(s, normalized, found[k].start, found[k].end)
  BY <1>1 DEF FindSkills
<1>5. i \in DOMAIN found /\ Stands(c, Words(s.text))
  BY <1>1, <1>3, <1>4, ChosenMention
<1>6. PICK lo, hi, span : lo = c.start /\ hi = c.end /\ span = SourceSpan(normalized, lo, hi)
  OBVIOUS
<1>7. lo \in Nat /\ hi \in Nat /\ lo < hi /\ hi <= Len(Words(s.text))
  BY <1>5, <1>6 DEF Stands
<1>8. m.start = lo /\ m.end = hi /\ m.evidence = EvidenceFor(s, normalized, lo, hi)
  BY <1>1, <1>4, <1>5, <1>6
<1>9. Claims(m.evidence, rows, span.start, span.end)
  BY <1>1, <1>6, <1>7, <1>8, MentionClaims
<1>10. Confirmed(normalized, rows, m)
  BY <1>1
<1>11. PICK at : at = {n \in DOMAIN rows : rows[n].start < span.end /\ rows[n].end > span.start}
  OBVIOUS
<1>12. at # {} /\ \A n \in at : rows[n].section \in Supported
  BY <1>6, <1>8, <1>10, <1>11, Zenon DEF Confirmed
<1>13. Mine(m.evidence, rows)
  BY <1>9, <1>11, <1>12 DEF Claims, Mine
<1> QED
  BY <1>1, <1>13

\* No confirmed mention denies a skill.
Undenied(name, a, rows) ==
  \A k \in DOMAIN a.skills :
    a.skills[k].name = name /\ a.skills[k].assertion = "negated" => ~Confirmed(a.normalized, rows, a.skills[k])

\* The skills of a profile: claimed by their evidence, denied nowhere.
Claimed(skills, a, rows) ==
  IsList(skills) /\ \A i \in DOMAIN skills : Mine(skills[i].evidence, rows) /\ Undenied(skills[i].name, a, rows)

\* _skills takes over only what is claimed and not denied.
LEMMA SkillsClaim ==
  ASSUME NEW a, IsList(a.skills), NEW rows,
         \A i \in DOMAIN a.skills :
           Confirmed(a.normalized, rows, a.skills[i]) => Mine(a.skills[i].evidence, rows)
  PROVE  Claimed(Skills(a, rows), a, rows)
<1> DEFINE confirmed == Picked(a.skills, {i \in DOMAIN a.skills : Confirmed(a.normalized, rows, a.skills[i])})
           plain     == Picked(confirmed, {i \in DOMAIN confirmed : confirmed[i].assertion = "mentioned"})
           denied    == {confirmed[i].name :
                           i \in {k \in DOMAIN confirmed : confirmed[k].assertion = "negated"}}
           first     == {i \in DOMAIN plain : /\ plain[i].name \notin denied
                                              /\ \A k \in 1..(i - 1) : plain[k].name # plain[i].name}
           all(n)    == Picked(plain, {i \in DOMAIN plain : plain[i].name = n})
           proof(n)  == FlattenSeq([k \in DOMAIN all(n) |-> all(n)[k].evidence])
           own       == [i \in DOMAIN plain |-> [name |-> plain[i].name, evidence |-> proof(plain[i].name)]]
<1>1. Skills(a, rows) = Picked(own, first)
  BY Zenon DEF Skills, Filtered
<1>2. \A i \in first : plain[i].name \notin denied
  OBVIOUS
<1> HIDE DEF first
<1>3. /\ IsList(confirmed) /\ \A i \in DOMAIN confirmed : Mine(confirmed[i].evidence, rows)
      /\ \A k \in DOMAIN a.skills : Confirmed(a.normalized, rows, a.skills[k]) =>
           \E i \in DOMAIN confirmed : confirmed[i] = a.skills[k]
  <2>1. PICK s, places : s = a.skills /\ places = {i \in DOMAIN a.skills : Confirmed(a.normalized, rows, a.skills[i])}
    OBVIOUS
  <2>2. /\ IsList(Picked(s, places))
        /\ \A k \in DOMAIN Picked(s, places) : \E i \in places \cap DOMAIN s : Picked(s, places)[k] = s[i]
        /\ \A i \in places \cap DOMAIN s : \E k \in DOMAIN Picked(s, places) : Picked(s, places)[k] = s[i]
    <3>1. IsList(s)
      BY <2>1
    <3> QED
      BY <3>1, PickedList
  <2>3. Picked(s, places) = confirmed
    BY <2>1
  <2> HIDE DEF confirmed
  <2>4. \A i \in places : i \in DOMAIN s /\ Mine(s[i].evidence, rows)
    BY <2>1
  <2>5. \A k \in DOMAIN a.skills : Confirmed(a.normalized, rows, a.skills[k]) => k \in places \cap DOMAIN s
    BY <2>1
  <2> QED
    BY <2>1, <2>2, <2>3, <2>4, <2>5
<1> HIDE DEF confirmed
<1>4. \A name : name \notin denied => Undenied(name, a, rows)
  <2> SUFFICES ASSUME NEW name, name \notin denied,
                      NEW k \in DOMAIN a.skills, a.skills[k].name = name, a.skills[k].assertion = "negated",
                      Confirmed(a.normalized, rows, a.skills[k])
               PROVE  FALSE
    BY DEF Undenied
  <2>1. PICK i \in DOMAIN confirmed : confirmed[i] = a.skills[k]
    BY <1>3
  <2> QED
    BY <2>1
<1> HIDE DEF denied
<1>5. IsList(plain) /\ \A i \in DOMAIN plain : Mine(plain[i].evidence, rows)
  <2>1. PICK places : places = {i \in DOMAIN confirmed : confirmed[i].assertion = "mentioned"}
    OBVIOUS
  <2>2. IsList(Picked(confirmed, places))
        /\ \A k \in DOMAIN Picked(confirmed, places) : \E i \in DOMAIN confirmed : Picked(confirmed, places)[k] = confirmed[i]
    <3>1. IsList(confirmed)
      BY <1>3
    <3> QED
      BY <3>1, PickedList
  <2>3. Picked(confirmed, places) = plain
    BY <2>1
  <2> HIDE DEF plain
  <2> QED
    BY <1>3, <2>2, <2>3
<1> HIDE DEF plain
<1>6. ASSUME NEW i \in DOMAIN plain PROVE Mine(proof(plain[i].name), rows)
  <2>1. PICK n, places, q : n = plain[i].name /\ places = {k \in DOMAIN plain : plain[k].name = n}
                            /\ q = Picked(plain, places)
    OBVIOUS
  <2>2. /\ IsList(q)
        /\ \A k \in DOMAIN q : \E j \in places \cap DOMAIN plain : q[k] = plain[j]
        /\ \A j \in places \cap DOMAIN plain : \E k \in DOMAIN q : q[k] = plain[j]
    <3>1. IsList(plain)
      BY <1>5
    <3>2. /\ IsList(Picked(plain, places))
          /\ \A k \in DOMAIN Picked(plain, places) : \E j \in places \cap DOMAIN plain : Picked(plain, places)[k] = plain[j]
          /\ \A j \in places \cap DOMAIN plain : \E k \in DOMAIN Picked(plain, places) : Picked(plain, places)[k] = plain[j]
      BY <3>1, PickedList
    <3> QED
      BY <2>1, <3>2
  <2>3. \A k \in DOMAIN q : Mine(q[k].evidence, rows)
    BY <1>5, <2>2
  <2>4. 1 \in DOMAIN q
    <3>1. DOMAIN q # {}
      BY <2>1, <2>2
    <3> QED
      BY <2>2, <3>1, ListShape
  <2>5. Mine(FlattenSeq([k \in DOMAIN q |-> q[k].evidence]), rows)
    BY <2>2, <2>3, <2>4, MentionsAreMine
  <2>6. q = all(n)
    BY <2>1
  <2> HIDE DEF all
  <2> QED
    BY <2>1, <2>5, <2>6, Zenon
<1> HIDE DEF proof, all
<1>7. /\ own = [i \in DOMAIN plain |-> own[i]]
      /\ \A i \in DOMAIN plain : own[i].name = plain[i].name /\ Mine(own[i].evidence, rows)
  BY <1>6
<1> HIDE DEF own
<1>8. IsList(own) /\ DOMAIN own = DOMAIN plain
  BY <1>5, <1>7, MappedList
<1>9. IsList(Picked(own, first))
      /\ \A k \in DOMAIN Picked(own, first) : \E i \in first \cap DOMAIN own : Picked(own, first)[k] = own[i]
  BY <1>8, PickedList
<1>10. PICK skills : skills = Picked(own, first)
  OBVIOUS
<1>11. ASSUME NEW k \in DOMAIN skills
       PROVE  Mine(skills[k].evidence, rows) /\ Undenied(skills[k].name, a, rows)
  <2>1. PICK i \in first \cap DOMAIN own : skills[k] = own[i]
    BY <1>9, <1>10
  <2>2. Mine(own[i].evidence, rows) /\ own[i].name = plain[i].name
    BY <1>7, <1>8
  <2>3. Undenied(plain[i].name, a, rows)
    BY <1>2, <1>4
  <2> QED
    BY <2>1, <2>2, <2>3
<1> QED
  BY <1>1, <1>9, <1>10, <1>11 DEF Claimed

\* What was analysed is what find_skills makes of the source.
FoundOK   == stage = "analysed" => /\ analysis.normalized = Normalized(source.text)
                                   /\ analysis.skills = FindSkills(source, analysis.normalized)

\* The skills of a built profile, against the rows that they were read off.
ClaimedOK == stage = "built" => Claimed(made.profile.skills, analysis, Rows(source))

\* The inductive invariant behind SkillsAreClaimed, beside those of the resume and of its evidence.
ClaimInv  == FoundOK /\ ClaimedOK

\* A built profile has claimed skills.
LEMMA BuildClaims ==
  ASSUME ResumeInv, EvidenceInv, ClaimInv, NEW orgLines, Build(orgLines)
  PROVE  ClaimedOK'
<1>1. PICK rows, work, projects, schools, skills, profile :
        /\ rows = Rows(source) /\ work = Experiences(source, rows, orgLines)
        /\ projects = Projects(source, rows) /\ schools = Schools(source, rows, orgLines)
        /\ skills = Skills(analysis, rows)
        /\ profile = ProfileOf(source, work.jobs, schools, projects.projects, skills, Now)
  OBVIOUS
<1>2. /\ stage = "analysed"
      /\ made' = [profile |-> profile, summary |-> Summary(profile),
                  warnings |-> Warnings(profile, work.undated, projects.bare)]
      /\ source' = source /\ analysis' = analysis
  BY <1>1, Zenon DEF Build
<1>3. SourceOK(source)
  BY <1>2 DEF ResumeInv, TextOK
<1>4. analysis.normalized = Normalized(source.text) /\ analysis.skills = FindSkills(source, analysis.normalized)
  BY <1>2 DEF ClaimInv, FoundOK
<1>5. IsList(analysis.skills)
  BY <1>2 DEF EvidenceInv, AnalysedOK, SkillsOK
<1>6. \A n \in DOMAIN rows : Within(rows[n], source.text)
  BY <1>1, <1>3, SourceText, RowsAreListed
<1>7. ASSUME NEW i \in DOMAIN analysis.skills, Confirmed(analysis.normalized, rows, analysis.skills[i])
      PROVE  Mine(analysis.skills[i].evidence, rows)
  BY <1>3, <1>4, <1>6, <1>7, ConfirmedIsMine
<1>8. Claimed(skills, analysis, rows)
  BY <1>1, <1>5, <1>7, SkillsClaim
<1>9. profile.skills = skills
  BY <1>1 DEF ProfileOf
<1>10. made'.profile = profile
  BY <1>2
<1>11. Claimed(made'.profile.skills, analysis', Rows(source'))
  BY <1>1, <1>2, <1>8, <1>9, <1>10
<1> QED
  BY <1>11 DEF ClaimedOK

\* Analysis finds the skills of the source, or fails.
LEMMA AnalyseFinds ==
  ASSUME NEW language, Analyse(language)
  PROVE  stage' = "failed" \/ (stage' = "analysed" /\ FoundOK')
<1>1. PICK a : a = Analysed(source, language, Resume, 1)
  OBVIOUS
<1>2. /\ source' = source
      /\ \/ stage' = "failed"
         \/ a.error = "" /\ stage' = "analysed" /\ analysis' = a
  BY <1>1, Zenon DEF Analyse, Fail
<1>3. a.normalized = Normalized(source.text)
      /\ (a.error = "" => a.skills = FindSkills(source, a.normalized))
  <2>1. PICK e, n : /\ n = Normalized(source.text)
                    /\ a = [error |-> e, normalized |-> n,
                            skills |-> IF e = "" THEN FindSkills(source, n) ELSE <<>>]
    BY <1>1 DEF Analysed
  <2> QED
    BY <2>1
<1> QED
  BY <1>2, <1>3 DEF FoundOK

\* Every step keeps the invariant of the claims.
LEMMA ClaimNext == ResumeInv /\ EvidenceInv /\ ClaimInv /\ [Next]_vars => ClaimInv'
<1> SUFFICES ASSUME ResumeInv, EvidenceInv, ClaimInv, [Next]_vars PROVE ClaimInv'
  OBVIOUS
<1>1. CASE stage' \notin {"analysed", "built"}
  BY <1>1 DEF ClaimInv, FoundOK, ClaimedOK
<1>2. CASE UNCHANGED <<stage, source, analysis, made>>
  BY <1>2 DEF ClaimInv, FoundOK, ClaimedOK
<1>3. ASSUME NEW p \in Paragraphs, Write(p) PROVE ClaimInv'
  BY <1>2, <1>3 DEF Write
<1>4. ASSUME NEW u, NEW cut, NEW faults, Extract(u, cut, faults) PROVE ClaimInv'
  <2>1. stage' \in {"failed", "text"}
    BY <1>4, Zenon DEF Extract, Fail
  <2> QED
    BY <1>1, <2>1
<1>5. ASSUME NEW language \in Languages, Analyse(language) PROVE ClaimInv'
  <2>1. CASE stage' = "failed"
    BY <1>1, <2>1
  <2>2. CASE stage' = "analysed" /\ FoundOK'
    BY <2>2 DEF ClaimInv, ClaimedOK
  <2> QED
    BY <1>5, <2>1, <2>2, AnalyseFinds
<1>6. ASSUME NEW orgLines, Build(orgLines) PROVE ClaimInv'
  <2>1. stage' \in {"built", "failed"}
    BY <1>6, Zenon DEF Build, Fail
  <2> QED
    BY <1>6, <2>1, BuildClaims DEF ClaimInv, FoundOK
<1>7. CASE Keep
  <2>1. stage' \in {"stored", "failed"}
    BY <1>7, Zenon DEF Keep, Fail
  <2> QED
    BY <1>1, <2>1
<1>8. ASSUME NEW j \in Jobs, NEW page \in PagesOf[j], Import(j, page) PROVE ClaimInv'
  BY <1>2, <1>8 DEF Import, resumeVars
<1>9. ASSUME NEW b, Deploy(b) PROVE ClaimInv'
  BY <1>2, <1>9 DEF Deploy, resumeVars
<1>10. CASE Rebuild
  BY <1>2, <1>10 DEF Rebuild, resumeVars
<1>11. ASSUME NEW j \in Jobs, NEW s \in Similarities, Score(j, s) PROVE ClaimInv'
  BY <1>2, <1>11 DEF Score, resumeVars
<1>12. CASE Publish
  BY <1>1, <1>12 DEF Publish
<1>13. ASSUME NEW coarse, NEW tfidf, NEW pool, Rerank(coarse, tfidf, pool) PROVE ClaimInv'
  BY <1>1, <1>13 DEF Rerank
<1>14. ASSUME NEW similarity, NEW limit, Search(similarity, limit) PROVE ClaimInv'
  BY <1>1, <1>14 DEF Search
<1>15. CASE UNCHANGED vars
  BY <1>2, <1>15 DEF vars, resumeVars
<1> QED
  BY <1>3, <1>4, <1>5, <1>6, <1>7, <1>8, <1>9, <1>10, <1>11, <1>12, <1>13, <1>14, <1>15 DEF Next

\* The evidence of every skill of a built profile touches rows of the resume, all of them
\* in supported sections, and no confirmed mention denies the skill (SkillsAreClaimed:
\* resume/profile.py, profile_sections.py, nlp/skills.py, nlp/text.py).
THEOREM SkillsAreSound == Spec => []SkillsAreClaimed
<1>1. Init => ClaimInv
  BY DEF Init, ClaimInv, FoundOK, ClaimedOK
<1>2. ClaimInv => SkillsAreClaimed
  <2> SUFFICES ASSUME ClaimInv, stage = "built" PROVE SkillsAreClaimed
    BY DEF SkillsAreClaimed
  <2>1. PICK rows, skills : rows = Rows(source) /\ skills = made.profile.skills
    OBVIOUS
  <2>2. Claimed(skills, analysis, rows)
    BY <2>1 DEF ClaimInv, ClaimedOK
  <2> DEFINE meets(row, ref) == row.start < ref.end /\ row.end > ref.start
             touched(s) == {n \in DOMAIN rows : \E k \in DOMAIN s.evidence : meets(rows[n], s.evidence[k])}
  <2>3. ASSUME NEW i \in DOMAIN skills
        PROVE  /\ touched(skills[i]) # {} /\ \A n \in touched(skills[i]) : rows[n].section \in Supported
               /\ \A k \in DOMAIN analysis.skills :
                    analysis.skills[k].name = skills[i].name /\ analysis.skills[k].assertion = "negated" =>
                      ~Confirmed(analysis.normalized, rows, analysis.skills[k])
    BY <2>2 DEF Claimed, Mine, Touches, Undenied
  <2> QED
    BY <2>1, <2>3, Zenon DEF SkillsAreClaimed
<1> QED
  BY <1>1, <1>2, ClaimNext, EvidenceNext, EvidenceInit, ResumeInit, ResumeNext, PTL DEF Spec

=============================================================================
