------------------------- MODULE DocumentTextProofs --------------------------
(***************************************************************************)
(* Proofs about DocumentText, for every document and any limits: what the  *)
(* operators on lists and texts return, that the evidence of an assembled  *)
(* text covers it, and that references quote the words they are made for.  *)
(* MatchPipelineProofs turns these lemmas into theorems of the pipeline.   *)
(***************************************************************************)
EXTENDS DocumentText, FiniteSetTheorems, SequenceTheorems, TLAPS

-----------------------------------------------------------------------------
(* Induction over places, selections and concatenations *)

\* Induction up to a bound, with what is proved of a number as a set.
LEMMA Upwards ==
  ASSUME NEW n \in Nat, NEW T, 0 \in T, \A k \in 0..(n - 1) : k \in T => k + 1 \in T
  PROVE  \A k \in 0..n : k \in T
<1> DEFINE Bad == {k \in 0..n : k \notin T}
<1>1. SUFFICES ASSUME Bad # {} PROVE FALSE
  OBVIOUS
<1>2. PICK k \in Bad : \A j \in Bad : ~(<<j, k>> \in OpToRel(<, Nat))
  <2>1. IsWellFoundedOn(OpToRel(<, Nat), Nat)
    BY NatLessThanWellFounded
  <2>2. Bad \subseteq Nat
    OBVIOUS
  <2> HIDE DEF Bad
  <2> QED
    BY <1>1, <2>1, <2>2, WFMin
<1>3. k \in Nat /\ k \in 0..n /\ k # 0 /\ k - 1 \in 0..(n - 1) /\ k - 1 \in 0..n
  OBVIOUS
<1>4. <<k - 1, k>> \in OpToRel(<, Nat)
  BY <1>3 DEF OpToRel
<1>5. k - 1 \in T
  BY <1>2, <1>3, <1>4
<1> QED
  BY <1>3, <1>5

\* A function on 0..n that is defined by recursion.
Recursion(f, n, V, base, step) ==
  /\ f \in [0..n -> V]
  /\ f[0] = base
  /\ \A i \in 1..n : f[i] = step[<<i, f[i - 1]>>]

\* There is one.
LEMMA NatRecursion ==
  ASSUME NEW V, NEW n \in Nat, NEW base \in V, NEW step \in [(1..n) \X V -> V]
  PROVE  \E f : Recursion(f, n, V, base, step)
<1> DEFINE Good(k) == \E f : Recursion(f, k, V, base, step)
           T == {k \in 0..n : Good(k)}
<1>1. 0 \in T
  <2>1. [i \in 0..0 |-> base] \in [0..0 -> V] /\ [i \in 0..0 |-> base][0] = base
    OBVIOUS
  <2>2. \A i \in 1..0 : FALSE
    OBVIOUS
  <2>3. Good(0)
    BY <2>1, <2>2, Zenon DEF Recursion
  <2> QED
    BY <2>3
<1>2. ASSUME NEW k \in 0..(n - 1), k \in T PROVE k + 1 \in T
  <2>1. PICK f : Recursion(f, k, V, base, step)
    BY <1>2
  <2>2. f \in [0..k -> V] /\ f[0] = base /\ \A i \in 1..k : f[i] = step[<<i, f[i - 1]>>]
    BY <2>1 DEF Recursion
  <2> DEFINE g == [i \in 0..(k + 1) |-> IF i <= k THEN f[i] ELSE step[<<k + 1, f[k]>>]]
  <2>3. f[k] \in V /\ step[<<k + 1, f[k]>>] \in V
    BY <2>2
  <2>4. g \in [0..(k + 1) -> V]
    BY <2>2, <2>3
  <2>5. g[0] = base
    BY <2>2
  <2>6. ASSUME NEW i \in 1..(k + 1) PROVE g[i] = step[<<i, g[i - 1]>>]
    <3>1. CASE i <= k
      <4>1. i \in 1..k /\ i \in 0..(k + 1) /\ i - 1 \in 0..(k + 1) /\ i - 1 <= k
        BY <3>1
      <4> QED
        BY <2>2, <3>1, <4>1
    <3>2. CASE ~(i <= k)
      <4>1. i = k + 1 /\ i \in 0..(k + 1) /\ i - 1 = k /\ k \in 0..(k + 1) /\ k <= k
        BY <3>2
      <4> QED
        BY <3>2, <4>1
    <3> QED
      BY <3>1, <3>2
  <2>7. Good(k + 1)
    <3> HIDE DEF g
    <3> QED
      BY <2>4, <2>5, <2>6 DEF Recursion
  <2>8. k + 1 \in 0..n
    OBVIOUS
  <2> QED
    BY <2>7, <2>8
<1>3. \A k \in 0..n : k \in T
  <2> HIDE DEF T
  <2> QED
    BY <1>1, <1>2, Upwards
<1>4. n \in T
  <2> HIDE DEF T
  <2> QED
    BY <1>3
<1>5. Good(n)
  BY <1>4
<1> QED
  BY <1>5

\* A sequence of places, each after the one before, that visits a set.
Ascends(at, m, P) ==
  /\ at \in [1..m -> P]
  /\ \A i, k \in 1..m : i < k => at[i] < at[k]
  /\ \A p \in P : \E k \in 1..m : at[k] = p

\* Picked goes through the sequence step by step.
Picks(f, V, seq, places) ==
  /\ f \in [0..Len(seq) -> Seq(V)]
  /\ f[0] = <<>>
  /\ \A i \in 1..Len(seq) :
       f[i] = IF i \in places THEN Append(f[i - 1], seq[i]) ELSE f[i - 1]
  /\ Picked(seq, places) = f[Len(seq)]

\* Picked is a recursive function of the place it has come to.
LEMMA PickedSteps ==
  ASSUME NEW V, NEW seq \in Seq(V), NEW places
  PROVE  \E f : Picks(f, V, seq, places)
<1> DEFINE n == Len(seq)
           E(g) == g = [i \in 0..n |->
                          IF i = 0 THEN <<>>
                          ELSE IF i \in places THEN Append(g[i - 1], seq[i]) ELSE g[i - 1]]
           step == [p \in (1..n) \X Seq(V) |->
                      IF p[1] \in places THEN Append(p[2], seq[p[1]]) ELSE p[2]]
<1>1. n \in Nat /\ <<>> \in Seq(V)
  OBVIOUS
<1>2. step \in [(1..n) \X Seq(V) -> Seq(V)]
  OBVIOUS
<1>3. PICK f \in [0..n -> Seq(V)] : f[0] = <<>> /\ \A i \in 1..n : f[i] = step[<<i, f[i - 1]>>]
  <2> HIDE DEF step, n
  <2>1. \E f : Recursion(f, n, Seq(V), <<>>, step)
    BY <1>1, <1>2, NatRecursion
  <2> QED
    BY <2>1 DEF Recursion
<1>4. ASSUME NEW i \in 1..n
      PROVE  f[i] = IF i \in places THEN Append(f[i - 1], seq[i]) ELSE f[i - 1]
  <2>1. i - 1 \in 0..n
    OBVIOUS
  <2>2. <<i, f[i - 1]>> \in (1..n) \X Seq(V)
    <3> HIDE DEF n
    <3> QED
      BY <2>1
  <2> QED
    BY <1>3, <2>2
<1>5. E(f)
  <2> HIDE DEF step
  <2>1. \A i \in 0..n : i # 0 => i \in 1..n
    OBVIOUS
  <2> QED
    BY <1>3, <1>4, <2>1
<1> DEFINE u == CHOOSE g : E(g)
<1>6. E(u)
  BY <1>5
<1>7. \A i \in 0..n : u[i] = f[i]
  <2> DEFINE T == {i \in 0..n : u[i] = f[i]}
  <2>1. 0 \in T
    <3> HIDE DEF u
    <3>1. 0 \in 0..n
      BY <1>1
    <3> QED
      BY <1>3, <1>6, <3>1
  <2>2. ASSUME NEW k \in 0..(n - 1), k \in T PROVE k + 1 \in T
    <3>1. k + 1 \in 0..n /\ k + 1 \in 1..n /\ k + 1 # 0 /\ (k + 1) - 1 = k /\ u[k] = f[k]
      BY <2>2
    <3> HIDE DEF u
    <3>2. u[k + 1] = IF k + 1 \in places THEN Append(u[k], seq[k + 1]) ELSE u[k]
      BY <1>6, <3>1
    <3> QED
      BY <1>4, <3>1, <3>2
  <2>3. \A k \in 0..n : k \in T
    <3> HIDE DEF T, u
    <3> QED
      BY <1>1, <2>1, <2>2, Upwards
  <2> QED
    BY <2>3
<1>8. Picked(seq, places) = u[n]
  BY Zenon DEF Picked
<1> QED
  <2> HIDE DEF u, step
  <2> QED
    BY <1>1, <1>3, <1>4, <1>7, <1>8 DEF Picks

\* One place more.
LEMMA AscendsFurther ==
  ASSUME NEW m \in Nat, NEW P \in SUBSET Nat, NEW at, Ascends(at, m, P),
         NEW p \in Nat, \A q \in P : q < p
  PROVE  Ascends([k \in 1..(m + 1) |-> IF k <= m THEN at[k] ELSE p], m + 1, P \cup {p})
<1> DEFINE b == [k \in 1..(m + 1) |-> IF k <= m THEN at[k] ELSE p]
<1>1. \A k \in 1..m : at[k] \in P /\ at[k] < p
  BY DEF Ascends
<1>2. \A k \in 1..m : k \in 1..(m + 1) /\ b[k] = at[k]
  OBVIOUS
<1>3. m + 1 \in 1..(m + 1) /\ b[m + 1] = p /\ \A k \in 1..(m + 1) : k \in 1..m \/ k = m + 1
  OBVIOUS
<1>4. b \in [1..(m + 1) -> P \cup {p}]
  BY <1>1
<1> HIDE DEF b
<1>5. \A i, k \in 1..(m + 1) : i < k => b[i] < b[k]
  <2> SUFFICES ASSUME NEW i \in 1..(m + 1), NEW k \in 1..(m + 1), i < k PROVE b[i] < b[k]
    OBVIOUS
  <2>1. i \in 1..m
    OBVIOUS
  <2> QED
    BY <1>1, <1>2, <1>3, <2>1 DEF Ascends
<1>6. \A q \in P \cup {p} : \E k \in 1..(m + 1) : b[k] = q
  BY <1>2, <1>3 DEF Ascends
<1>7. Ascends(b, m + 1, P \cup {p})
  BY <1>4, <1>5, <1>6 DEF Ascends
<1> QED
  BY <1>7 DEF b

\* What is picked: the members at the places of the set, in order.
PicksAt(at, m, seq, places) ==
  /\ m \in 0..Len(seq)
  /\ Ascends(at, m, places \cap (1..Len(seq)))
  /\ Picked(seq, places) = [k \in 1..m |-> seq[at[k]]]

\* Picked(seq, places) is seq at a rising sequence of places that visits all of them.
LEMMA PickedPlaces ==
  ASSUME NEW V, NEW seq \in Seq(V), NEW places
  PROVE  \E m, at : PicksAt(at, m, seq, places)
<1> DEFINE n == Len(seq)
           Is(t, i) == \E m \in 0..i : \E at : /\ Ascends(at, m, places \cap (1..i))
                                             /\ t = [k \in 1..m |-> seq[at[k]]]
<1>1. PICK f \in [0..n -> Seq(V)] :
        /\ f[0] = <<>>
        /\ \A i \in 1..n : f[i] = IF i \in places THEN Append(f[i - 1], seq[i]) ELSE f[i - 1]
        /\ Picked(seq, places) = f[n]
  <2>1. PICK f : Picks(f, V, seq, places)
    BY PickedSteps
  <2> QED
    BY <2>1 DEF Picks
<1> DEFINE T == {i \in 0..n : Is(f[i], i)}
<1>2. n \in Nat
  OBVIOUS
<1>3. 0 \in T
  <2>1. Ascends(<<>>, 0, places \cap (1..0)) /\ f[0] = [k \in 1..0 |-> seq[<<>>[k]]]
    BY <1>1 DEF Ascends
  <2>2. Is(f[0], 0)
    BY <2>1
  <2> QED
    BY <2>2
<1>4. ASSUME NEW i \in 0..(n - 1), i \in T PROVE i + 1 \in T
  <2>1. PICK m \in 0..i : \E at : /\ Ascends(at, m, places \cap (1..i))
                                  /\ f[i] = [k \in 1..m |-> seq[at[k]]]
    BY <1>4
  <2>2. PICK at : Ascends(at, m, places \cap (1..i)) /\ f[i] = [k \in 1..m |-> seq[at[k]]]
    BY <2>1
  <2>3. i + 1 \in 1..n /\ i + 1 \in 0..n /\ (i + 1) - 1 = i /\ m \in Nat /\ i \in 0..n
    OBVIOUS
  <2>4. f[i + 1] = IF i + 1 \in places THEN Append(f[i], seq[i + 1]) ELSE f[i]
    BY <1>1, <2>3
  <2>5. Is(f[i + 1], i + 1)
    <3>1. CASE i + 1 \notin places
      <4>1. places \cap (1..(i + 1)) = places \cap (1..i) /\ m \in 0..(i + 1)
        BY <3>1
      <4> QED
        BY <2>2, <2>4, <3>1, <4>1
    <3>2. CASE i + 1 \in places
      <4> DEFINE b == [k \in 1..(m + 1) |-> IF k <= m THEN at[k] ELSE i + 1]
      <4>1. Ascends(b, m + 1, (places \cap (1..i)) \cup {i + 1})
        <5>1. places \cap (1..i) \in SUBSET Nat /\ i + 1 \in Nat
              /\ \A q \in places \cap (1..i) : q < i + 1
          OBVIOUS
        <5> QED
          BY <2>2, <2>3, <5>1, AscendsFurther
      <4>2. (places \cap (1..i)) \cup {i + 1} = places \cap (1..(i + 1))
        BY <3>2
      <4>3. f[i] \in Seq(V) /\ seq[i + 1] \in V /\ Len(f[i]) = m
        BY <2>2, <2>3
      <4> DEFINE g == [k \in 1..(m + 1) |-> seq[b[k]]]
      <4>4. \A k \in 1..m : b[k] = at[k] /\ at[k] \in 1..n
        BY <2>2 DEF Ascends
      <4>5. b[m + 1] = i + 1
        BY <2>3
      <4>6. Append(f[i], seq[i + 1]) = g
        <5>1. Append(f[i], seq[i + 1]) \in Seq(V) /\ Len(Append(f[i], seq[i + 1])) = m + 1
              /\ (\A k \in 1..m : Append(f[i], seq[i + 1])[k] = f[i][k])
              /\ Append(f[i], seq[i + 1])[m + 1] = seq[i + 1]
          BY <4>3, AppendProperties
        <5>2. \A k \in 1..(m + 1) : g[k] = Append(f[i], seq[i + 1])[k]
          <6> SUFFICES ASSUME NEW k \in 1..(m + 1) PROVE g[k] = Append(f[i], seq[i + 1])[k]
            OBVIOUS
          <6>1. CASE k \in 1..m
            <7>1. g[k] = seq[at[k]] /\ f[i][k] = seq[at[k]]
              BY <2>2, <4>4, <6>1
            <7> QED
              BY <5>1, <6>1, <7>1
          <6>2. CASE k = m + 1
            <7> HIDE DEF b
            <7> QED
              BY <4>5, <5>1, <6>2
          <6>3. k \in 1..m \/ k = m + 1
            BY <2>3
          <6> HIDE DEF g
          <6> QED
            BY <6>1, <6>2, <6>3
        <5>3. Append(f[i], seq[i + 1]) = [k \in 1..(m + 1) |-> Append(f[i], seq[i + 1])[k]]
          <6> DEFINE a == Append(f[i], seq[i + 1])
          <6> HIDE DEF a
          <6>1. a \in [1..(m + 1) -> V]
            BY <5>1, LenProperties DEF a
          <6>2. a = [k \in 1..(m + 1) |-> a[k]]
            BY <6>1
          <6> QED
            BY <6>2 DEF a
        <5> HIDE DEF g
        <5>4. [k \in 1..(m + 1) |-> Append(f[i], seq[i + 1])[k]] = [k \in 1..(m + 1) |-> g[k]]
          BY <5>2
        <5>5. g = [k \in 1..(m + 1) |-> g[k]]
          BY DEF g
        <5> QED
          BY <5>3, <5>4, <5>5
      <4>7. m + 1 \in 0..(i + 1)
        OBVIOUS
      <4> HIDE DEF b
      <4> QED
        BY <2>4, <3>2, <4>1, <4>2, <4>6, <4>7
    <3> QED
      BY <3>1, <3>2
  <2> QED
    BY <2>3, <2>5
<1>5. \A i \in 0..n : i \in T
  <2> HIDE DEF T, n
  <2> QED
    BY <1>2, <1>3, <1>4, Upwards
<1>6. n \in T
  <2> HIDE DEF T
  <2> QED
    BY <1>2, <1>5
<1>7. Is(f[n], n)
  BY <1>6
<1> HIDE DEF T
<1>8. PICK m \in 0..n : \E at : /\ Ascends(at, m, places \cap (1..n))
                                /\ f[n] = [k \in 1..m |-> seq[at[k]]]
  BY <1>7, Zenon
<1>9. PICK at : Ascends(at, m, places \cap (1..n)) /\ f[n] = [k \in 1..m |-> seq[at[k]]]
  BY <1>8
<1>10. PicksAt(at, m, seq, places)
  BY <1>1, <1>9 DEF PicksAt
<1> QED
  BY <1>10

\* Picked(seq, places) has the members of seq at those places, and no others.
LEMMA PickedMembers ==
  ASSUME NEW V, NEW seq \in Seq(V), NEW places
  PROVE  /\ Picked(seq, places) \in Seq(V)
         /\ Len(Picked(seq, places)) \in 0..Len(seq)
         /\ \A k \in 1..Len(Picked(seq, places)) :
              \E i \in places \cap (1..Len(seq)) : Picked(seq, places)[k] = seq[i]
         /\ \A i \in places \cap (1..Len(seq)) :
              \E k \in 1..Len(Picked(seq, places)) : Picked(seq, places)[k] = seq[i]
<1>1. PICK m, at :
        /\ m \in 0..Len(seq) /\ Ascends(at, m, places \cap (1..Len(seq)))
        /\ Picked(seq, places) = [k \in 1..m |-> seq[at[k]]]
  <2>1. PICK m, at : PicksAt(at, m, seq, places)
    BY PickedPlaces
  <2> QED
    BY <2>1 DEF PicksAt
<1> DEFINE r == [k \in 1..m |-> seq[at[k]]]
<1>2. \A k \in 1..m : at[k] \in places \cap (1..Len(seq)) /\ seq[at[k]] \in V
  BY <1>1 DEF Ascends
<1>3. m \in Nat /\ r \in Seq(V) /\ Len(r) = m
  BY <1>1, <1>2
<1>4. \A k \in 1..m : r[k] = seq[at[k]]
  OBVIOUS
<1> HIDE DEF r
<1>5. \A i \in places \cap (1..Len(seq)) : \E k \in 1..m : r[k] = seq[i]
  BY <1>1, <1>4 DEF Ascends
<1>6. Picked(seq, places) = r
  BY <1>1 DEF r
<1> QED
  BY <1>1, <1>2, <1>3, <1>4, <1>5, <1>6

\* FlattenSeq goes through the sequences step by step.
Flattens(f, V, seqs) ==
  /\ f \in [0..Len(seqs) -> Seq(V)]
  /\ f[0] = <<>>
  /\ \A i \in 1..Len(seqs) : f[i] = f[i - 1] \o seqs[i]
  /\ FlattenSeq(seqs) = f[Len(seqs)]

\* FlattenSeq of the community modules is a recursive function too.
LEMMA FlattenSteps ==
  ASSUME NEW V, NEW seqs \in Seq(Seq(V))
  PROVE  \E f : Flattens(f, V, seqs)
<1> DEFINE n == Len(seqs)
           step == [p \in (1..n) \X Seq(V) |-> p[2] \o seqs[p[1]]]
           E(g) == g = [i \in 1..n |-> IF i = 1 THEN seqs[i] ELSE g[i - 1] \o seqs[i]]
           u == CHOOSE g : E(g)
<1>1. n \in Nat /\ <<>> \in Seq(V) /\ \A i \in 1..n : seqs[i] \in Seq(V)
  OBVIOUS
<1>2. step \in [(1..n) \X Seq(V) -> Seq(V)]
  OBVIOUS
<1>3. PICK f \in [0..n -> Seq(V)] : f[0] = <<>> /\ \A i \in 1..n : f[i] = step[<<i, f[i - 1]>>]
  <2> HIDE DEF step, n
  <2>1. \E f : Recursion(f, n, Seq(V), <<>>, step)
    BY <1>1, <1>2, NatRecursion
  <2> QED
    BY <2>1 DEF Recursion
<1>4. ASSUME NEW i \in 1..n PROVE f[i] = f[i - 1] \o seqs[i]
  <2>1. i - 1 \in 0..n
    OBVIOUS
  <2>2. <<i, f[i - 1]>> \in (1..n) \X Seq(V)
    <3> HIDE DEF n
    <3> QED
      BY <2>1
  <2> QED
    BY <1>3, <2>2
<1> HIDE DEF step
<1>5. n # 0 => f[1] = seqs[1]
  <2> SUFFICES ASSUME n # 0 PROVE f[1] = seqs[1]
    OBVIOUS
  <2>1. 1 \in 1..n /\ 1 - 1 = 0
    BY <1>1
  <2>2. f[1] = <<>> \o seqs[1] /\ seqs[1] \in Seq(V)
    BY <1>1, <1>3, <1>4, <2>1
  <2> QED
    BY <2>2, ConcatEmptySeq
<1>6. E([i \in 1..n |-> f[i]])
  <2> DEFINE g == [i \in 1..n |-> f[i]]
  <2>1. \A i \in 1..n : f[i] = IF i = 1 THEN seqs[i] ELSE g[i - 1] \o seqs[i]
    <3> SUFFICES ASSUME NEW i \in 1..n PROVE f[i] = IF i = 1 THEN seqs[i] ELSE g[i - 1] \o seqs[i]
      OBVIOUS
    <3>1. CASE i = 1
      BY <1>1, <1>5, <3>1
    <3>2. CASE i # 1
      <4>1. i - 1 \in 1..n
        BY <1>1, <3>2
      <4> QED
        BY <1>4, <3>2, <4>1
    <3> QED
      BY <3>1, <3>2
  <2> QED
    BY <2>1
<1>7. E(u)
  BY <1>6
<1>8. n # 0 => FlattenSeq(seqs) = u[n]
  BY Zenon DEF FlattenSeq
<1>9. n = 0 => FlattenSeq(seqs) = <<>>
  <2> SUFFICES ASSUME n = 0 PROVE FlattenSeq(seqs) = <<>>
    OBVIOUS
  <2>1. seqs = <<>>
    BY EmptySeq
  <2>2. FlattenSeq(seqs) = seqs
    BY Zenon DEF FlattenSeq
  <2> QED
    BY <2>1, <2>2
<1> HIDE DEF u
<1>10. \A i \in 0..n : i = 0 \/ u[i] = f[i]
  <2> DEFINE T == {i \in 0..n : i = 0 \/ u[i] = f[i]}
  <2>1. 0 \in T
    BY <1>1
  <2>2. ASSUME NEW k \in 0..(n - 1), k \in T PROVE k + 1 \in T
    <3>1. k + 1 \in 0..n /\ k + 1 \in 1..n /\ (k + 1) - 1 = k /\ (k = 0 \/ u[k] = f[k])
      BY <1>1, <2>2
    <3>2. u[k + 1] = IF k + 1 = 1 THEN seqs[k + 1] ELSE u[k] \o seqs[k + 1]
      BY <1>7, <3>1
    <3>3. u[k + 1] = f[k + 1]
      <4>1. CASE k = 0
        BY <1>5, <3>1, <3>2, <4>1
      <4>2. CASE k # 0
        <5>1. k + 1 # 1
          BY <4>2
        <5> QED
          BY <1>4, <3>1, <3>2, <4>2, <5>1
      <4> QED
        BY <4>1, <4>2
    <3> QED
      BY <3>1, <3>3
  <2>3. \A k \in 0..n : k \in T
    <3> HIDE DEF T
    <3> QED
      BY <1>1, <2>1, <2>2, Upwards
  <2> QED
    BY <2>3
<1>11. FlattenSeq(seqs) = f[n]
  <2>1. CASE n = 0
    BY <1>3, <1>9, <2>1
  <2>2. CASE n # 0
    BY <1>1, <1>8, <1>10, <2>2
  <2> QED
    BY <2>1, <2>2
<1> QED
  BY <1>1, <1>3, <1>4, <1>11 DEF Flattens

\* A concatenation of sequences over a set is a sequence over it.
LEMMA FlattenType ==
  ASSUME NEW V, NEW seqs \in Seq(Seq(V))
  PROVE  FlattenSeq(seqs) \in Seq(V)
<1>1. PICK f : Flattens(f, V, seqs)
  BY FlattenSteps
<1> QED
  BY <1>1 DEF Flattens

\* A function on the subsets of 1..n that takes the greatest member off.
SetRecursion(it, n, V, base, step) ==
  /\ it \in [SUBSET (1..n) -> V]
  /\ it[{}] = base
  /\ \A s \in SUBSET (1..n) : s # {} => it[s] = step[<<Max(s), it[s \ {Max(s)}]>>]

\* The largest of a set of indices that has the last one.
LEMMA MaxUpTo ==
  ASSUME NEW n \in Nat, NEW s \in SUBSET (1..n), n \in s
  PROVE  Max(s) = n
<1>1. n \in s /\ s \subseteq Nat /\ \A y \in s : n >= y
  OBVIOUS
<1>2. Max(s) \in s /\ \A y \in s : Max(s) >= y
  BY <1>1 DEF Max
<1>3. Max(s) \in Nat /\ n >= Max(s) /\ Max(s) >= n
  BY <1>1, <1>2
<1> HIDE DEF Max
<1> QED
  BY <1>3

\* The fold of the community modules over the indices 1..n goes down from n: the
\* function that MapThenFoldSet is defined by exists.
LEMMA FoldRecursion ==
  ASSUME NEW V, NEW n \in Nat, NEW base \in V, NEW step \in [(1..n) \X V -> V]
  PROVE  \E it : SetRecursion(it, n, V, base, step)
<1> DEFINE T == {k \in 0..n : \E it : SetRecursion(it, k, V, base, step)}
<1>1. 0 \in T
  <2> DEFINE it == [s \in SUBSET (1..0) |-> base]
  <2>1. \A s \in SUBSET (1..0) : s = {}
    OBVIOUS
  <2>2. SetRecursion(it, 0, V, base, step)
    BY <2>1 DEF SetRecursion
  <2> QED
    BY <2>2
<1>2. ASSUME NEW k \in 0..(n - 1), k \in T PROVE k + 1 \in T
  <2>1. PICK it : SetRecursion(it, k, V, base, step)
    BY <1>2
  <2> DEFINE S == SUBSET (1..(k + 1))
             up == [s \in S |-> IF k + 1 \in s THEN step[<<k + 1, it[s \ {k + 1}]>>] ELSE it[s]]
  <2>2. \A s \in S : s \ {k + 1} \in SUBSET (1..k)
    OBVIOUS
  <2>3. \A s \in S : k + 1 \notin s => s \in SUBSET (1..k)
    OBVIOUS
  <2>4. k + 1 \in 1..n
    OBVIOUS
  <2>5. up \in [S -> V]
    BY <2>1, <2>2, <2>3, <2>4 DEF SetRecursion
  <2>6. up[{}] = base
    BY <2>1 DEF SetRecursion
  <2>7. ASSUME NEW s \in S, s # {} PROVE up[s] = step[<<Max(s), up[s \ {Max(s)}]>>]
    <3>1. CASE k + 1 \in s
      <4>1. Max(s) = k + 1
        BY <3>1, MaxUpTo
      <4>2. s \ {k + 1} \in S /\ k + 1 \notin s \ {k + 1}
        OBVIOUS
      <4>3. up[s \ {k + 1}] = it[s \ {k + 1}]
        BY <4>2
      <4> QED
        BY <3>1, <4>1, <4>3
    <3>2. CASE k + 1 \notin s
      <4>1. s \in SUBSET (1..k) /\ s \ {Max(s)} \in S /\ k + 1 \notin s \ {Max(s)}
        BY <2>3, <3>2
      <4>2. up[s \ {Max(s)}] = it[s \ {Max(s)}] /\ up[s] = it[s]
        BY <3>2, <4>1
      <4> QED
        BY <2>1, <2>7, <4>1, <4>2 DEF SetRecursion
    <3> QED
      BY <3>1, <3>2
  <2>8. SetRecursion(up, k + 1, V, base, step)
    <3> HIDE DEF up
    <3> QED
      BY <2>5, <2>6, <2>7 DEF SetRecursion
  <2>9. k + 1 \in 0..n
    OBVIOUS
  <2> QED
    BY <2>8, <2>9
<1>3. \A k \in 0..n : k \in T
  <2> HIDE DEF T
  <2> QED
    BY <1>1, <1>2, Upwards
<1>4. n \in T
  <2> HIDE DEF T
  <2> QED
    BY <1>3
<1> QED
  BY <1>4

\* A strict order of all the members of a set.
Orders(R, S) ==
  /\ \A x \in S : <<x, x>> \notin R
  /\ \A x, y, z \in S : <<x, y>> \in R /\ <<y, z>> \in R => <<x, z>> \in R
  /\ \A x, y \in S : x = y \/ <<x, y>> \in R \/ <<y, x>> \in R

\* What R puts before x.
Below(R, S, x) == {y \in S : <<y, x>> \in R}

\* Every member has as many below it as its place says.
LEMMA Ranks ==
  ASSUME NEW S, IsFiniteSet(S), NEW R, Orders(R, S)
  PROVE  /\ \A x \in S : Cardinality(Below(R, S, x)) \in 0..(Cardinality(S) - 1)
         /\ \A x, z \in S : <<x, z>> \in R =>
              Cardinality(Below(R, S, x)) < Cardinality(Below(R, S, z))
         /\ \A k \in 0..(Cardinality(S) - 1) : \E x \in S : Cardinality(Below(R, S, x)) = k
<1> DEFINE n == Cardinality(S)
           rank == [x \in S |-> Cardinality(Below(R, S, x))]
<1>1. n \in Nat
  BY FS_CardinalityType
<1>2. \A x \in S : Below(R, S, x) \in SUBSET S /\ IsFiniteSet(Below(R, S, x))
                   /\ Cardinality(Below(R, S, x)) \in Nat
  <2> SUFFICES ASSUME NEW x \in S
               PROVE  Below(R, S, x) \in SUBSET S /\ IsFiniteSet(Below(R, S, x))
                      /\ Cardinality(Below(R, S, x)) \in Nat
    OBVIOUS
  <2>1. Below(R, S, x) \in SUBSET S
    BY DEF Below
  <2> QED
    BY <2>1, FS_Subset, FS_CardinalityType
<1>3. ASSUME NEW x \in S, NEW z \in S, <<x, z>> \in R
      PROVE  Cardinality(Below(R, S, x)) < Cardinality(Below(R, S, z))
  <2>1. Below(R, S, x) \in SUBSET Below(R, S, z)
    BY <1>3 DEF Below, Orders
  <2>2. x \in Below(R, S, z) /\ x \notin Below(R, S, x)
    BY <1>3 DEF Below, Orders
  <2>3. Below(R, S, x) # Below(R, S, z)
    BY <2>2
  <2>4. /\ Cardinality(Below(R, S, x)) <= Cardinality(Below(R, S, z))
        /\ Cardinality(Below(R, S, z)) # Cardinality(Below(R, S, x))
    BY <1>2, <2>1, <2>3, FS_Subset
  <2> QED
    BY <1>2, <2>4
<1>4. ASSUME NEW x \in S PROVE Cardinality(Below(R, S, x)) \in 0..(n - 1)
  <2>1. x \notin Below(R, S, x)
    BY DEF Below, Orders
  <2>2. Below(R, S, x) # S
    BY <2>1
  <2>3. Cardinality(Below(R, S, x)) <= n /\ n # Cardinality(Below(R, S, x))
    BY <1>2, <2>2, FS_Subset
  <2> QED
    BY <1>1, <1>2, <2>3
<1>5. rank \in [S -> 0..(n - 1)]
  BY <1>4
<1>6. \A x, y \in S : x # y => rank[x] # rank[y]
  <2> SUFFICES ASSUME NEW x \in S, NEW y \in S, x # y PROVE rank[x] # rank[y]
    OBVIOUS
  <2>1. <<x, y>> \in R \/ <<y, x>> \in R
    BY DEF Orders
  <2>2. rank[x] < rank[y] \/ rank[y] < rank[x]
    BY <1>3, <2>1
  <2>3. rank[x] \in Nat /\ rank[y] \in Nat
    BY <1>2
  <2> HIDE DEF rank
  <2> QED
    BY <2>2, <2>3
<1>7. rank \in Injection(S, 0..(n - 1))
  <2> HIDE DEF rank
  <2> QED
    BY <1>5, <1>6 DEF Injection, IsInjective
<1>8. IsFiniteSet(0..(n - 1)) /\ Cardinality(0..(n - 1)) = n
  BY <1>1, FS_Interval
<1>9. rank \in Surjection(S, 0..(n - 1))
  <2> HIDE DEF rank
  <2> QED
    BY <1>7, <1>8, FS_Injection
<1>10. \A k \in 0..(n - 1) : \E x \in S : rank[x] = k
  <2> HIDE DEF rank
  <2> QED
    BY <1>9 DEF Surjection
<1> QED
  BY <1>3, <1>4, <1>10

\* A list that has every member at the place that its rank gives it.
Enumerates(list, S, R) ==
  /\ list \in [1..Cardinality(S) -> S]
  /\ \A i, k \in 1..Cardinality(S) : i < k => <<list[i], list[k]>> \in R
  /\ \A x \in S : \E i \in 1..Cardinality(S) : list[i] = x

\* A list that has at place n a member with n - 1 others before it enumerates the set in order.
LEMMA RanksGiveOrder ==
  ASSUME NEW S, IsFiniteSet(S), NEW R, Orders(R, S), NEW list,
         list = [n \in 1..Cardinality(S) |-> list[n]],
         \A n \in 1..Cardinality(S) :
           (\E x \in S : Cardinality(Below(R, S, x)) = n - 1) =>
             list[n] \in S /\ Cardinality(Below(R, S, list[n])) = n - 1
  PROVE  Enumerates(list, S, R)
<1> DEFINE n == Cardinality(S)
<1>1. n \in Nat
  BY FS_CardinalityType
<1>2. ASSUME NEW k \in 1..n PROVE list[k] \in S /\ Cardinality(Below(R, S, list[k])) = k - 1
  <2>1. k - 1 \in 0..(n - 1)
    BY <1>1
  <2>2. \E x \in S : Cardinality(Below(R, S, x)) = k - 1
    BY <2>1, Ranks
  <2> QED
    BY <2>2
<1>3. list \in [1..n -> S]
  BY <1>2
<1>4. ASSUME NEW i \in 1..n, NEW k \in 1..n, i < k PROVE <<list[i], list[k]>> \in R
  <2>1. list[i] \in S /\ list[k] \in S
    BY <1>2
  <2>2. list[i] # list[k]
    BY <1>1, <1>2, <1>4
  <2>3. ~(<<list[k], list[i]>> \in R)
    <3> SUFFICES ASSUME <<list[k], list[i]>> \in R PROVE FALSE
      OBVIOUS
    <3>1. Cardinality(Below(R, S, list[k])) < Cardinality(Below(R, S, list[i]))
      BY <2>1, Ranks
    <3> QED
      BY <1>1, <1>2, <1>4, <3>1
  <2> QED
    BY <2>1, <2>2, <2>3 DEF Orders
<1>5. ASSUME NEW x \in S PROVE \E i \in 1..n : list[i] = x
  <2> DEFINE i == Cardinality(Below(R, S, x)) + 1
  <2>1. Cardinality(Below(R, S, x)) \in 0..(n - 1)
    BY Ranks
  <2>2. i \in 1..n /\ i - 1 = Cardinality(Below(R, S, x))
    BY <1>1, <2>1
  <2>3. list[i] \in S /\ Cardinality(Below(R, S, list[i])) = Cardinality(Below(R, S, x))
    BY <1>2, <2>2
  <2>4. ~(<<x, list[i]>> \in R) /\ ~(<<list[i], x>> \in R)
    <3>1. \A y, z \in S : <<y, z>> \in R =>
            Cardinality(Below(R, S, y)) < Cardinality(Below(R, S, z))
      BY Ranks
    <3> DEFINE c == Cardinality(Below(R, S, x))
    <3>2. ~(c < c)
      BY <2>1
    <3> HIDE DEF i
    <3>3. ASSUME NEW z \in S, Cardinality(Below(R, S, z)) = c
          PROVE  ~(<<x, z>> \in R) /\ ~(<<z, x>> \in R)
      BY <3>1, <3>2, <3>3
    <3> QED
      BY <2>3, <3>3
  <2>5. list[i] = x
    BY <2>3, <2>4 DEF Orders
  <2> QED
    BY <2>2, <2>5
<1> QED
  BY <1>3, <1>4, <1>5 DEF Enumerates

\* Min and Max of a set of indices are its own first and last.
LEMMA IntervalMinMax ==
  ASSUME NEW n \in Nat, NEW S \in SUBSET (1..n), S # {}
  PROVE  /\ Min(S) \in S /\ \A y \in S : Min(S) <= y
         /\ Max(S) \in S /\ \A y \in S : y <= Max(S)
<1>1. \E x \in S : \A y \in S : x <= y
  <2> DEFINE T == {k \in 0..n : \A y \in S : k <= y}
  <2>1. SUFFICES ASSUME ~(\E x \in S : \A y \in S : x <= y) PROVE FALSE
    OBVIOUS
  <2>2. 0 \in T
    OBVIOUS
  <2>3. ASSUME NEW k \in 0..(n - 1), k \in T PROVE k + 1 \in T
    <3>1. k \notin S
      BY <2>1, <2>3
    <3>2. \A y \in S : y \in Nat /\ k <= y /\ y # k
      BY <2>3, <3>1
    <3>3. \A y \in S : k + 1 <= y
      BY <3>2
    <3> QED
      BY <3>3
  <2>4. \A k \in 0..n : k \in T
    <3> HIDE DEF T
    <3> QED
      BY <2>2, <2>3, Upwards
  <2>5. n \in T
    <3> HIDE DEF T
    <3> QED
      BY <2>4
  <2>6. \A y \in S : n <= y
    BY <2>5
  <2>7. PICK y \in S : TRUE
    OBVIOUS
  <2>8. \A x \in S : y <= x
    BY <2>6
  <2> QED
    BY <2>1, <2>7, <2>8
<1>2. \E x \in S : \A y \in S : x >= y
  <2> DEFINE T == {k \in 0..n : \A y \in S : y <= n - k}
  <2>1. SUFFICES ASSUME ~(\E x \in S : \A y \in S : x >= y) PROVE FALSE
    OBVIOUS
  <2>2. 0 \in T
    OBVIOUS
  <2>3. ASSUME NEW k \in 0..(n - 1), k \in T PROVE k + 1 \in T
    <3>1. n - k \notin S
      BY <2>1, <2>3
    <3>2. \A y \in S : y \in Nat /\ y <= n - k /\ y # n - k
      BY <2>3, <3>1
    <3>3. \A y \in S : y <= n - (k + 1)
      BY <3>2
    <3> QED
      BY <3>3
  <2>4. \A k \in 0..n : k \in T
    <3> HIDE DEF T
    <3> QED
      BY <2>2, <2>3, Upwards
  <2>5. n \in T
    <3> HIDE DEF T
    <3> QED
      BY <2>4
  <2>6. \A y \in S : y <= n - n
    BY <2>5
  <2>7. PICK y \in S : TRUE
    OBVIOUS
  <2> QED
    BY <2>6, <2>7
<1>3. Min(S) \in S /\ \A y \in S : Min(S) <= y
  BY <1>1 DEF Min
<1>4. Max(S) \in S /\ \A y \in S : Max(S) >= y
  BY <1>2 DEF Max
<1> QED
  BY <1>3, <1>4

-----------------------------------------------------------------------------
(* Folds over sequences *)

\* A function that takes the greatest member off a set, step by step.
TakesOff(it, n, V, base, step) ==
  /\ it = [s \in SUBSET (1..n) |-> it[s]]
  /\ it[{}] = base
  /\ \A s \in SUBSET (1..n) : s # {} =>
       /\ Max(s) \in 1..n /\ it[s \ {Max(s)}] \in V
       /\ it[s] = step[<<Max(s), it[s \ {Max(s)}]>>]

\* FoldLeft over 1..n exists as the function its definition chooses.
LEMMA FoldExists ==
  ASSUME NEW V, NEW n \in Nat, NEW base \in V, NEW step \in [(1..n) \X V -> V]
  PROVE  \E it : TakesOff(it, n, V, base, step)
<1>1. PICK it : SetRecursion(it, n, V, base, step)
  BY FoldRecursion
<1>2. ASSUME NEW s \in SUBSET (1..n), s # {}
      PROVE  Max(s) \in 1..n /\ it[s \ {Max(s)}] \in V
  <2>1. PICK x : x = Max(s) /\ x \in 1..n
    BY <1>2, IntervalMinMax
  <2>2. s \ {x} \in SUBSET (1..n)
    OBVIOUS
  <2> QED
    BY <1>1, <2>1, <2>2 DEF SetRecursion
<1>3. TakesOff(it, n, V, base, step)
  BY <1>1, <1>2 DEF SetRecursion, TakesOff
<1> QED
  BY <1>3

\* A recursion f, up to n, that agrees with the sequence fold u on 1..n.
FoldedBy(f, u, n, V, base, step) == Recursion(f, n, V, base, step) /\ f[n] = u[1..n]

\* What a fold makes of the first members, when u takes the members of a set
\* off one by one wherever that stays in V.
LEMMA FoldSteps ==
  ASSUME NEW V, NEW n \in Nat, NEW base \in V, NEW step \in [(1..n) \X V -> V], NEW u,
         u[{}] = base,
         \A s \in SUBSET (1..n) : s # {} /\ u[s \ {Max(s)}] \in V =>
           u[s] = step[<<Max(s), u[s \ {Max(s)}]>>]
  PROVE  \E f : FoldedBy(f, u, n, V, base, step)
<1>1. ASSUME NEW k \in 1..n, u[1..(k - 1)] \in V
      PROVE  u[1..k] = step[<<k, u[1..(k - 1)]>>]
  <2>1. PICK s : s = 1..k
    OBVIOUS
  <2>2. s \in SUBSET (1..n) /\ s # {} /\ k \in s /\ s \in SUBSET (1..k)
    <3>1. 1..k \in SUBSET (1..n) /\ k \in 1..k /\ 1..k \in SUBSET (1..k)
      OBVIOUS
    <3> QED
      BY <2>1, <3>1
  <2>3. Max(s) = k
    BY <2>2, MaxUpTo
  <2>4. s \ {k} = 1..(k - 1)
    BY <2>1
  <2> QED
    BY <1>1, <2>1, <2>2, <2>3, <2>4
<1> DEFINE f == [k \in 0..n |-> u[1..k]]
           T == {k \in 0..n : u[1..k] \in V}
<1>2. 0 \in T
  <2>1. 1..0 = {}
    OBVIOUS
  <2> QED
    BY <2>1
<1>3. ASSUME NEW k \in 0..(n - 1), k \in T PROVE k + 1 \in T
  <2>1. k + 1 \in 1..n /\ k + 1 \in 0..n /\ (k + 1) - 1 = k /\ u[1..k] \in V
    BY <1>3
  <2>2. u[1..(k + 1)] = step[<<k + 1, u[1..k]>>]
    BY <1>1, <2>1
  <2>3. <<k + 1, u[1..k]>> \in (1..n) \X V
    BY <2>1
  <2>4. u[1..(k + 1)] \in V
    BY <2>2, <2>3
  <2> QED
    BY <2>1, <2>4
<1>4. \A k \in 0..n : k \in T
  <2> HIDE DEF T
  <2> QED
    BY <1>2, <1>3, Upwards
<1>5. f \in [0..n -> V]
  BY <1>4
<1>6. f[0] = base
  <2>1. 1..0 = {}
    OBVIOUS
  <2> QED
    BY <2>1
<1>7. \A i \in 1..n : f[i] = step[<<i, f[i - 1]>>]
  <2> SUFFICES ASSUME NEW i \in 1..n PROVE f[i] = step[<<i, f[i - 1]>>]
    OBVIOUS
  <2>1. i \in 0..n /\ i - 1 \in 0..n
    OBVIOUS
  <2>2. u[1..(i - 1)] \in V
    BY <1>4, <2>1
  <2> QED
    BY <1>1, <2>1, <2>2
<1>8. f[n] = u[1..n]
  OBVIOUS
<1> HIDE DEF f
<1>9. Recursion(f, n, V, base, step)
  BY <1>5, <1>6, <1>7 DEF Recursion
<1> QED
  BY <1>8, <1>9 DEF FoldedBy

-----------------------------------------------------------------------------
(* Sequences of any members *)

\* A sequence, whatever its members are.
IsList(s) == s \in Seq({s[i] : i \in DOMAIN s})

\* A function written over 1..n is a sequence of n members.
LEMMA ListMade ==
  ASSUME NEW n \in Nat, NEW s, s = [i \in 1..n |-> s[i]]
  PROVE  IsList(s) /\ Len(s) = n /\ DOMAIN s = 1..n
<1>1. DOMAIN s = 1..n
  OBVIOUS
<1>2. s \in [1..n -> {s[i] : i \in DOMAIN s}]
  BY <1>1
<1>3. s \in Seq({s[i] : i \in DOMAIN s})
  <2> DEFINE V == {s[i] : i \in DOMAIN s}
  <2>1. s \in [1..n -> V]
    BY <1>2
  <2> HIDE DEF V
  <2>2. s \in Seq(V)
    BY <2>1
  <2> QED
    BY <2>2 DEF V
<1>4. Len(s) = n
  <2> DEFINE V == {s[i] : i \in DOMAIN s}
  <2>1. s \in Seq(V)
    BY <1>3
  <2> HIDE DEF V
  <2> QED
    BY <1>1, <2>1
<1> QED
  BY <1>1, <1>3, <1>4 DEF IsList

\* A sequence has a length, and its places are the numbers up to it.
LEMMA ListShape ==
  ASSUME NEW s, IsList(s)
  PROVE  Len(s) \in Nat /\ DOMAIN s = 1..Len(s)
<1> DEFINE V == {s[i] : i \in DOMAIN s}
<1>1. s \in Seq(V)
  BY DEF IsList
<1> HIDE DEF V
<1> QED
  BY <1>1

\* A sequence mapped place by place is one of the same length.
LEMMA MappedList ==
  ASSUME NEW s, IsList(s), NEW t, t = [i \in DOMAIN s |-> t[i]]
  PROVE  IsList(t) /\ Len(t) = Len(s) /\ DOMAIN t = DOMAIN s
<1>1. Len(s) \in Nat /\ DOMAIN s = 1..Len(s)
  BY ListShape
<1>2. t = [i \in 1..Len(s) |-> t[i]]
  BY <1>1
<1> QED
  BY <1>1, <1>2, ListMade

\* Picked of any sequence is a sequence of its members at the places.
LEMMA PickedList ==
  ASSUME NEW s, IsList(s), NEW places
  PROVE  /\ IsList(Picked(s, places))
         /\ \A k \in DOMAIN Picked(s, places) :
              \E i \in places \cap DOMAIN s : Picked(s, places)[k] = s[i]
         /\ \A i \in places \cap DOMAIN s :
              \E k \in DOMAIN Picked(s, places) : Picked(s, places)[k] = s[i]
<1> DEFINE V == {s[i] : i \in DOMAIN s}
           p == Picked(s, places)
<1>1. s \in Seq(V) /\ DOMAIN s = 1..Len(s)
  BY ListShape DEF IsList
<1> HIDE DEF V
<1>2. /\ p \in Seq(V)
      /\ \A k \in 1..Len(p) : \E i \in places \cap (1..Len(s)) : p[k] = s[i]
      /\ \A i \in places \cap (1..Len(s)) : \E k \in 1..Len(p) : p[k] = s[i]
  <2>1. s \in Seq(V)
    BY <1>1
  <2>2. p \in Seq(V)
    BY <2>1, PickedMembers
  <2>3. \A k \in 1..Len(p) : \E i \in places \cap (1..Len(s)) : p[k] = s[i]
    BY <2>1, PickedMembers
  <2>4. \A i \in places \cap (1..Len(s)) : \E k \in 1..Len(p) : p[k] = s[i]
    BY <2>1, PickedMembers
  <2> QED
    BY <2>2, <2>3, <2>4
<1> HIDE DEF p
<1>3. Len(p) \in Nat /\ p = [i \in 1..Len(p) |-> p[i]]
  BY <1>2
<1>4. IsList(p) /\ DOMAIN p = 1..Len(p)
  BY <1>3, ListMade
<1>5. IsList(p) /\ (\A k \in DOMAIN p : \E i \in places \cap DOMAIN s : p[k] = s[i])
      /\ (\A i \in places \cap DOMAIN s : \E k \in DOMAIN p : p[k] = s[i])
  BY <1>1, <1>2, <1>4
<1> QED
  BY <1>5 DEF p

\* The smaller of two integers is one of them and exceeds neither.
LEMMA MinOfTwo ==
  ASSUME NEW a \in Int, NEW b \in Int
  PROVE  Min({a, b}) \in {a, b} /\ Min({a, b}) <= a /\ Min({a, b}) <= b
<1>1. \E x \in {a, b} : \A y \in {a, b} : x <= y
  OBVIOUS
<1> QED
  BY <1>1 DEF Min

\* The larger of two integers.
LEMMA MaxOfTwo ==
  ASSUME NEW a \in Int, NEW b \in Int
  PROVE  Max({a, b}) = IF a < b THEN b ELSE a
<1>1. \E x \in {a, b} : \A y \in {a, b} : x >= y
  OBVIOUS
<1>2. Max({a, b}) \in {a, b} /\ \A y \in {a, b} : Max({a, b}) >= y
  BY <1>1 DEF Max
<1> DEFINE m == Max({a, b})
<1>3. m \in {a, b} /\ m >= a /\ m >= b
  BY <1>2
<1> HIDE DEF m
<1>4. m = IF a < b THEN b ELSE a
  BY <1>3
<1> QED
  BY <1>4 DEF m

-----------------------------------------------------------------------------
(* Texts and what assembly makes of the blocks *)

\* The texts that the program itself writes are texts.
(* Types *)

LEMMA WrittenTexts ==
  /\ <<"nl">> \in Texts /\ <<"untitled">> \in Texts /\ <<"unknown">> \in Texts
  /\ <<"(no description)">> \in Texts /\ <<"nl", "nl">> \in Texts /\ <<>> \in Texts
  BY DEF Texts, Vocabulary, Written

\* A part of a sequence.
LEMMA SubSeqType ==
  ASSUME NEW V, NEW s \in Seq(V), NEW m \in Nat \ {0}, NEW n \in 0..Len(s)
  PROVE  /\ SubSeq(s, m, n) \in Seq(V)
         /\ Len(SubSeq(s, m, n)) = IF m <= n THEN n - m + 1 ELSE 0
         /\ \A i \in 1..Len(SubSeq(s, m, n)) : SubSeq(s, m, n)[i] = s[m + i - 1]
<1>1. \A i \in m..n : s[i] \in V
  OBVIOUS
<1>2. m \in Int /\ n \in Int
  OBVIOUS
<1>3. /\ SubSeq(s, m, n) \in Seq(V)
      /\ Len(SubSeq(s, m, n)) = IF m <= n THEN n - m + 1 ELSE 0
      /\ \A i \in 1..(n - m + 1) : SubSeq(s, m, n)[i] = s[m + i - 1]
  BY <1>1, <1>2, SubSeqProperties
<1>4. \A i \in 1..Len(SubSeq(s, m, n)) : i \in 1..(n - m + 1)
  BY <1>2, <1>3
<1> QED
  BY <1>3, <1>4

\* strip() of a text is a text.
LEMMA StripType ==
  ASSUME NEW t \in Texts
  PROVE  Strip(t) \in Texts
<1> DEFINE ink == {i \in DOMAIN t : t[i] \notin Gaps}
<1>1. CASE ink = {}
  BY <1>1 DEF Strip, Texts
<1>2. CASE ink # {}
  <2>1. Len(t) \in Nat /\ DOMAIN t = 1..Len(t)
    BY DEF Texts
  <2>2. ink \in SUBSET (1..Len(t))
    BY <2>1
  <2>3. Min(ink) \in ink /\ Max(ink) \in ink
    <3> HIDE DEF ink
    <3> QED
      BY <1>2, <2>1, <2>2, IntervalMinMax
  <2>4. Min(ink) \in Nat \ {0} /\ Max(ink) \in 0..Len(t)
    <3> HIDE DEF ink
    <3>1. \A x \in 1..Len(t) : x \in Nat \ {0} /\ x \in 0..Len(t)
      BY <2>1
    <3>2. Min(ink) \in 1..Len(t) /\ Max(ink) \in 1..Len(t)
      BY <2>2, <2>3
    <3> QED
      BY <3>1, <3>2
  <2>5. SubSeq(t, Min(ink), Max(ink)) \in Texts
    <3> HIDE DEF ink
    <3> QED
      BY <2>4, SubSeqType DEF Texts
  <2>6. Strip(t) = SubSeq(t, Min(ink), Max(ink))
    BY <1>2 DEF Strip
  <2> QED
    BY <2>5, <2>6
<1> QED
  BY <1>1, <1>2

\* What Joined does part by part.
Joins(f, V, parts, gap) ==
  /\ f \in [0..Len(parts) -> Seq(V)]
  /\ f[0] = <<>>
  /\ \A i \in 1..Len(parts) : f[i] = IF f[i - 1] = <<>> THEN parts[i] ELSE f[i - 1] \o gap \o parts[i]
  /\ Joined(parts, gap) = f[Len(parts)]

\* Joined is the recursion of Joins.
LEMMA JoinSteps ==
  ASSUME NEW V, NEW parts \in Seq(Seq(V)), NEW gap \in Seq(V)
  PROVE  \E f : Joins(f, V, parts, gap)
<1> DEFINE n == Len(parts)
           W == Seq(V)
           step == [p \in (1..n) \X W |->
                      IF p[2] = <<>> THEN parts[p[1]] ELSE p[2] \o gap \o parts[p[1]]]
           E(it) == it = [s \in SUBSET DOMAIN parts |->
                            IF s = {} THEN <<>>
                            ELSE IF it[s \ {Max(s)}] = <<>> THEN parts[Max(s)]
                                 ELSE it[s \ {Max(s)}] \o gap \o parts[Max(s)]]
           u == CHOOSE it : E(it)
<1>1. n \in Nat /\ DOMAIN parts = 1..n /\ \A i \in 1..n : parts[i] \in W
  BY ElementOfSeq
<1>2. <<>> \in W /\ step \in [(1..n) \X W -> W]
  BY <1>1, ConcatProperties
<1>3. \A i \in 1..n, a \in W :
        step[<<i, a>>] = IF a = <<>> THEN parts[i] ELSE a \o gap \o parts[i]
  OBVIOUS
<1>4. Joined(parts, gap) = u[DOMAIN parts]
  BY Zenon DEF Joined, FoldLeft, MapThenFoldSet
<1> HIDE DEF n, W, step
<1>5. \E it : E(it)
  <2>1. PICK it : TakesOff(it, n, W, <<>>, step)
    BY <1>1, <1>2, FoldExists
  <2>2. \A s \in SUBSET (1..n) :
          it[s] = IF s = {} THEN <<>>
                  ELSE IF it[s \ {Max(s)}] = <<>> THEN parts[Max(s)]
                       ELSE it[s \ {Max(s)}] \o gap \o parts[Max(s)]
    BY <1>3, <2>1 DEF TakesOff
  <2>3. it = [s \in SUBSET (1..n) |-> it[s]]
    BY <2>1 DEF TakesOff
  <2>4. E(it)
    BY <1>1, <2>2, <2>3, Zenon
  <2> QED
    BY <2>4
<1>6. E(u)
  BY <1>5
<1> HIDE DEF u
<1>7. u[{}] = <<>>
  BY <1>6
<1>8. ASSUME NEW s \in SUBSET (1..n), s # {}, u[s \ {Max(s)}] \in W
      PROVE  u[s] = step[<<Max(s), u[s \ {Max(s)}]>>]
  <2>1. Max(s) \in 1..n
    BY <1>1, <1>8, IntervalMinMax
  <2> QED
    BY <1>1, <1>3, <1>6, <1>8, <2>1
<1>9. PICK f : FoldedBy(f, u, n, W, <<>>, step)
  <2> HIDE DEF E
  <2> QED
    BY <1>1, <1>2, <1>7, <1>8, FoldSteps
<1>10. f \in [0..n -> W] /\ f[0] = <<>> /\ \A i \in 1..n : f[i] = step[<<i, f[i - 1]>>]
  BY <1>9 DEF FoldedBy, Recursion
<1>11. \A i \in 1..n : f[i] = IF f[i - 1] = <<>> THEN parts[i] ELSE f[i - 1] \o gap \o parts[i]
  <2>1. \A i \in 1..n : i - 1 \in 0..n
    BY <1>1
  <2>2. \A i \in 1..n : f[i - 1] \in W
    BY <1>10, <2>1
  <2> QED
    BY <1>3, <1>10, <2>2
<1>12. Joins(f, V, parts, gap)
  BY <1>1, <1>4, <1>9, <1>10, <1>11 DEF Joins, FoldedBy, W, n
<1> QED
  BY <1>12

\* The first check that fails decides.
LEMMA FirstFaultFound ==
  ASSUME NEW n \in Nat, NEW checks, DOMAIN checks = 1..n
  PROVE  \/ FirstFault(checks) = "" /\ \A i \in 1..n : ~checks[i][1]
         \/ \E i \in 1..n : /\ checks[i][1] /\ FirstFault(checks) = checks[i][2]
                            /\ \A k \in 1..(i - 1) : ~checks[k][1]
<1> DEFINE failed == {i \in DOMAIN checks : checks[i][1]}
<1>1. CASE failed = {}
  BY <1>1 DEF FirstFault
<1>2. CASE failed # {}
  <2>1. PICK m : m = Min(failed)
    OBVIOUS
  <2>2. m \in failed /\ \A y \in failed : m <= y
    <3>1. failed \in SUBSET (1..n)
      OBVIOUS
    <3> HIDE DEF failed
    <3> QED
      BY <1>2, <2>1, <3>1, IntervalMinMax
  <2>3. FirstFault(checks) = checks[m][2]
    BY <1>2, <2>1 DEF FirstFault
  <2>4. m \in 1..n /\ checks[m][1]
    BY <2>2
  <2>5. \A k \in 1..(m - 1) : ~checks[k][1]
    <3> SUFFICES ASSUME NEW k \in 1..(m - 1), checks[k][1] PROVE FALSE
      OBVIOUS
    <3>1. k \in 1..n
      BY <2>4
    <3>2. k \in failed
      BY <3>1
    <3> QED
      BY <2>2, <2>4, <3>2
  <2> QED
    BY <2>3, <2>4, <2>5
<1> QED
  BY <1>1, <1>2

\* The code of two checks in a row, as extract_resume and assemble_text make them.
LEMMA TwoChecks ==
  ASSUME NEW a \in BOOLEAN, NEW b \in BOOLEAN, NEW x, NEW y
  PROVE  LET code == FirstFault(<< <<a, x>>, <<b, y>> >>)
         IN (a => code = x) /\ (~a /\ b => code = y) /\ (~a /\ ~b => code = "")
<1> DEFINE checks == << <<a, x>>, <<b, y>> >>
<1>1. DOMAIN checks = 1..2 /\ checks[1] = <<a, x>> /\ checks[2] = <<b, y>>
  OBVIOUS
<1>2. \/ FirstFault(checks) = "" /\ \A i \in 1..2 : ~checks[i][1]
      \/ \E i \in 1..2 : /\ checks[i][1] /\ FirstFault(checks) = checks[i][2]
                         /\ \A k \in 1..(i - 1) : ~checks[k][1]
  <2> HIDE DEF checks
  <2> QED
    BY <1>1, FirstFaultFound
<1> HIDE DEF checks
<1>3. 1 \in 1..2 /\ 2 \in 1..2 /\ 1 \in 1..(2 - 1) /\ \A i \in 1..2 : i = 1 \/ i = 2
  OBVIOUS
<1>4. (checks[1][1] <=> a) /\ (checks[2][1] <=> b) /\ checks[1][2] = x /\ checks[2][2] = y
  BY <1>1
<1>5. /\ a => FirstFault(checks) = x
      /\ ~a /\ b => FirstFault(checks) = y
      /\ ~a /\ ~b => FirstFault(checks) = ""
  BY <1>2, <1>3, <1>4
<1> QED
  BY <1>5 DEF checks

\* When no part gives a code, no part has one.
LEMMA NoFault ==
  ASSUME NEW n \in Nat, NEW checks, DOMAIN checks = 1..n,
         \A i \in 1..n : checks[i][1] <=> checks[i][2] # ""
  PROVE  FirstFault(checks) = "" => \A i \in 1..n : checks[i][2] = ""
<1>1. \/ FirstFault(checks) = "" /\ \A i \in 1..n : ~checks[i][1]
      \/ \E i \in 1..n : checks[i][1] /\ FirstFault(checks) = checks[i][2]
  BY FirstFaultFound
<1> QED
  BY <1>1

\* The text of a paragraph's runs is a text (docx.py).
LEMMA ParagraphTextType ==
  ASSUME NEW runs \in Seq(Runs)
  PROVE  ParagraphText(runs) \in Texts
<1> DEFINE parts == [i \in DOMAIN runs |-> IF runs[i].tag = "t" THEN runs[i].text ELSE <<>>]
<1>1. \A i \in 1..Len(runs) : runs[i] \in Runs
  BY ElementOfSeq
<1>2. \A i \in 1..Len(runs) : runs[i].text \in Texts /\ <<>> \in Texts
  BY <1>1 DEF Runs, Texts
<1>3. parts \in Seq(Texts)
  BY <1>2
<1> HIDE DEF parts
<1>4. FlattenSeq(parts) \in Texts
  BY <1>3, FlattenType DEF Texts
<1> QED
  BY <1>4 DEF ParagraphText, parts

\* The blocks of a document's nodes are texts.
LEMMA BlocksType ==
  ASSUME NEW nodes \in Seq(Nodes)
  PROVE  BlocksOf(nodes) \in Seq(Texts)
<1> DEFINE of(node) == CASE node.tag = "p"   -> <<ParagraphText(node.runs)>>
                         [] node.tag = "tbl" -> [c \in DOMAIN node.cells |-> ParagraphText(node.cells[c])]
                         [] OTHER            -> <<>>
           parts == [i \in DOMAIN nodes |-> of(nodes[i])]
<1>1. ASSUME NEW node \in Nodes PROVE of(node) \in Seq(Texts)
  <2>1. CASE node.tag = "p"
    <3>1. node.runs \in Seq(Runs)
      BY <2>1 DEF Nodes
    <3>2. ParagraphText(node.runs) \in Texts
      BY <3>1, ParagraphTextType
    <3> QED
      BY <2>1, <3>2
  <2>2. CASE node.tag = "tbl"
    <3>1. node.cells \in Seq(Seq(Runs))
      BY <2>2 DEF Nodes
    <3>2. \A c \in 1..Len(node.cells) : ParagraphText(node.cells[c]) \in Texts
      BY <3>1, ParagraphTextType, ElementOfSeq
    <3>3. Len(node.cells) \in Nat /\ DOMAIN node.cells = 1..Len(node.cells)
      BY <3>1
    <3>4. [c \in DOMAIN node.cells |-> ParagraphText(node.cells[c])] \in Seq(Texts)
      BY <3>2, <3>3
    <3> QED
      BY <2>2, <3>4
  <2>3. node.tag = "p" \/ node.tag = "tbl"
    BY DEF Nodes
  <2> HIDE DEF of
  <2> QED
    BY <2>1, <2>2, <2>3
<1>2. \A i \in 1..Len(nodes) : nodes[i] \in Nodes
  BY ElementOfSeq
<1>3. parts \in Seq(Seq(Texts))
  <2> HIDE DEF of
  <2>1. Len(nodes) \in Nat /\ DOMAIN nodes = 1..Len(nodes)
    OBVIOUS
  <2>2. \A i \in 1..Len(nodes) : of(nodes[i]) \in Seq(Texts)
    BY <1>1, <1>2
  <2> QED
    BY <2>1, <2>2
<1>4. BlocksOf(nodes) = FlattenSeq(parts)
  BY DEF BlocksOf
<1> HIDE DEF parts
<1> QED
  BY <1>3, <1>4, FlattenType

\* Joined parts are a text.
LEMMA JoinedType ==
  ASSUME NEW parts \in Seq(Texts), NEW gap \in Texts
  PROVE  Joined(parts, gap) \in Texts
<1>1. PICK f : Joins(f, Vocabulary, parts, gap)
  BY JoinSteps DEF Texts
<1> QED
  BY <1>1 DEF Joins, Texts

\* The blocks of a parsed document are texts (extract_pdf, extract_docx).
LEMMA ParsedType ==
  ASSUME NEW kind, NEW doc, doc.headers \in Seq(Nodes), doc.body \in Seq(Nodes),
         doc.footers \in Seq(Nodes), doc.pages \in Seq(Seq(Nodes))
  PROVE  Parsed(kind, doc).blocks \in Seq(Texts)
<1>1. DocxBlocks(doc) \in Seq(Texts)
  <2>1. BlocksOf(doc.headers) \in Seq(Texts) /\ BlocksOf(doc.body) \in Seq(Texts) /\ BlocksOf(doc.footers) \in Seq(Texts)
    BY BlocksType
  <2> QED
    BY <2>1, ConcatProperties DEF DocxBlocks
<1>2. PdfBlocks(doc) \in Seq(Texts)
  <2>1. \A p \in 1..Len(doc.pages) : doc.pages[p] \in Seq(Nodes)
    BY ElementOfSeq
  <2>2. \A p \in 1..Len(doc.pages) : Joined(BlocksOf(doc.pages[p]), <<"nl">>) \in Texts
    BY <2>1, BlocksType, JoinedType, WrittenTexts
  <2>3. Len(doc.pages) \in Nat /\ DOMAIN doc.pages = 1..Len(doc.pages)
    OBVIOUS
  <2>4. PdfBlocks(doc) = [p \in DOMAIN doc.pages |-> Joined(BlocksOf(doc.pages[p]), <<"nl">>)]
    BY DEF PdfBlocks
  <2> QED
    BY <2>2, <2>3, <2>4
<1>3. Parsed(kind, doc).blocks \in {PdfBlocks(doc), DocxBlocks(doc), <<>>}
  BY DEF Parsed
<1>4. <<>> \in Seq(Texts)
  OBVIOUS
<1> QED
  BY <1>1, <1>2, <1>3, <1>4

\* A cleaned block is a text.
LEMMA CleanedType ==
  ASSUME NEW block \in Texts
  PROVE  Cleaned(block) \in Texts
<1> DEFINE places == {i \in DOMAIN block : block[i] # "ctl"}
<1>1. Picked(block, places) \in Texts
  <2> HIDE DEF places
  <2> QED
    BY PickedMembers DEF Texts
<1>2. Cleaned(block) = Strip(Picked(block, places))
  BY DEF Cleaned, Filtered
<1> HIDE DEF places
<1> QED
  BY <1>1, <1>2, StripType

\* The blocks that have text, cleaned.
Chunks(parts) == parts \in Seq(Texts) /\ \A i \in 1..Len(parts) : parts[i] # <<>>

\* The source that chunks make, and what the limits say of it.
SourceFrom(parts, document, version) ==
  [text |-> Joined(parts, <<"nl", "nl">>),
   evidence |-> [i \in DOMAIN parts |->
     [document |-> document, version |-> version, chunk |-> i,
      start |-> Starts(parts)[i], end |-> Starts(parts)[i] + Len(parts[i]),
      excerpt |-> parts[i]]]]

\* The code that assemble_text returns for its parts.
LimitCode(parts) ==
  FirstFault(<< <<Len(Joined(parts, <<"nl", "nl">>)) > MaxTextChars, "EXTRACTION_LIMIT_EXCEEDED">>,
                <<parts = <<>>, "NO_EXTRACTABLE_TEXT">> >>)

\* assemble_text keeps the parts that are not empty, and makes source and code of them.
LEMMA AssembledParts ==
  ASSUME NEW blocks \in Seq(Texts), NEW document, NEW version
  PROVE  \E parts : /\ Chunks(parts)
                    /\ Assembled(blocks, document, version) =
                         [error |-> LimitCode(parts), source |-> SourceFrom(parts, document, version)]
<1> DEFINE cleaned == [b \in DOMAIN blocks |-> Cleaned(blocks[b])]
           places == {i \in DOMAIN cleaned : cleaned[i] # <<>>}
           parts == Picked(cleaned, places)
<1>1. cleaned \in Seq(Texts)
  BY CleanedType, ElementOfSeq
<1>2. Chunks(parts)
  <2> HIDE DEF cleaned
  <2>1. DOMAIN cleaned = 1..Len(cleaned)
    BY <1>1
  <2>2. \A i \in places : cleaned[i] # <<>>
    OBVIOUS
  <2> HIDE DEF places
  <2>3. /\ parts \in Seq(Texts)
        /\ \A k \in 1..Len(parts) : \E i \in places \cap (1..Len(cleaned)) : parts[k] = cleaned[i]
    BY <1>1, PickedMembers
  <2> HIDE DEF parts
  <2> QED
    BY <2>2, <2>3 DEF Chunks
<1>3. parts = Filtered(cleaned, LAMBDA t : t # <<>>)
  BY DEF Filtered
<1> HIDE DEF parts, cleaned
<1>4. Assembled(blocks, document, version) =
        [error |-> LimitCode(parts), source |-> SourceFrom(parts, document, version)]
  BY <1>3 DEF Assembled, cleaned, LimitCode, SourceFrom
<1> QED
  BY <1>2, <1>4

\* A text of at least one chunk is not empty.
LEMMA JoinedLength ==
  ASSUME NEW parts, Chunks(parts), parts # <<>>
  PROVE  Joined(parts, <<"nl", "nl">>) \in Texts /\ Len(Joined(parts, <<"nl", "nl">>)) \in Nat \ {0}
<1> DEFINE gap == <<"nl", "nl">>
           n == Len(parts)
<1>1. PICK f : Joins(f, Vocabulary, parts, gap)
  BY JoinSteps, WrittenTexts DEF Texts, Chunks
<1>2. n \in Nat \ {0} /\ \A i \in 1..n : parts[i] \in Seq(Vocabulary) /\ parts[i] # <<>>
  BY ElementOfSeq DEF Chunks, Texts
<1>3. gap \in Seq(Vocabulary) /\ gap # <<>>
  BY WrittenTexts DEF Texts
<1> HIDE DEF gap, n
<1>4. \A i \in 1..n : f[i] \in Seq(Vocabulary) /\ f[i - 1] \in Seq(Vocabulary) /\ f[i] # <<>>
  <2>1. \A i \in 1..n : i \in 0..n /\ i - 1 \in 0..n
    BY <1>2
  <2>2. \A i \in 1..n : f[i] \in Seq(Vocabulary) /\ f[i - 1] \in Seq(Vocabulary)
    BY <1>1, <2>1 DEF Joins, n
  <2>3. \A i \in 1..n : f[i] = IF f[i - 1] = <<>> THEN parts[i] ELSE f[i - 1] \o gap \o parts[i]
    BY <1>1 DEF Joins, n
  <2>4. ASSUME NEW i \in 1..n PROVE f[i] # <<>>
    <3>1. PICK a, b : a = f[i - 1] /\ b = parts[i]
      OBVIOUS
    <3>2. a \in Seq(Vocabulary) /\ b \in Seq(Vocabulary) /\ b # <<>>
      BY <1>2, <2>2, <3>1
    <3>3. Len(b) > 0
      BY <3>2
    <3>4. Len(a \o gap \o b) = Len(a) + Len(gap) + Len(b)
      BY <1>3, <3>2
    <3>5. a \o gap \o b # <<>>
      BY <1>3, <3>2, <3>3, <3>4
    <3> QED
      BY <2>3, <3>1, <3>2, <3>5
  <2> QED
    BY <2>2, <2>4
<1>5. n \in 1..n /\ Joined(parts, gap) = f[n]
  BY <1>1, <1>2 DEF Joins, n
<1>6. Joined(parts, gap) \in Seq(Vocabulary) /\ Joined(parts, gap) # <<>>
  BY <1>4, <1>5
<1>7. PICK t : t = Joined(parts, gap)
  OBVIOUS
<1>8. t \in Texts /\ Len(t) \in Nat \ {0}
  BY <1>6, <1>7 DEF Texts
<1> QED
  BY <1>7, <1>8 DEF gap

\* A source that assemble_text lets through has parts and is within the limit.
LEMMA LimitsHold ==
  ASSUME NEW parts, Chunks(parts)
  PROVE  LimitCode(parts) = "" => parts # <<>> /\ Len(Joined(parts, <<"nl", "nl">>)) <= MaxTextChars
<1>1. PICK text, size : text = Joined(parts, <<"nl", "nl">>) /\ size = Len(text)
  OBVIOUS
<1>2. text \in Texts
  BY <1>1, JoinedType, WrittenTexts DEF Chunks
<1>3. size \in Nat
  <2>1. size = Len(text)
    BY <1>1
  <2> QED
    BY <1>2, <2>1 DEF Texts
<1>4. /\ (size > MaxTextChars) \in BOOLEAN
      /\ (parts = <<>>) \in BOOLEAN
  <2>1. (size > MaxTextChars) \in BOOLEAN
    BY <1>3, LimitsAssumption
  <2>2. (parts = <<>>) \in BOOLEAN
    BY Zenon
  <2> QED
    BY <2>1, <2>2
<1>5. \/ LimitCode(parts) = "EXTRACTION_LIMIT_EXCEEDED" \/ LimitCode(parts) = "NO_EXTRACTABLE_TEXT"
      \/ ~(size > MaxTextChars) /\ parts # <<>>
  <2>1. LimitCode(parts) = FirstFault(<< <<size > MaxTextChars, "EXTRACTION_LIMIT_EXCEEDED">>,
                                         <<parts = <<>>, "NO_EXTRACTABLE_TEXT">> >>)
    BY <1>1, Zenon DEF LimitCode
  <2>2. PICK long \in BOOLEAN, none \in BOOLEAN : long = (size > MaxTextChars) /\ none = (parts = <<>>)
    BY <1>4, Zenon
  <2>3. LimitCode(parts) = FirstFault(<< <<long, "EXTRACTION_LIMIT_EXCEEDED">>, <<none, "NO_EXTRACTABLE_TEXT">> >>)
    BY <2>1, <2>2, Zenon
  <2>4. PICK x, y : x = "EXTRACTION_LIMIT_EXCEEDED" /\ y = "NO_EXTRACTABLE_TEXT"
    OBVIOUS
  <2>5. PICK code : code = FirstFault(<< <<long, x>>, <<none, y>> >>)
    OBVIOUS
  <2>6. (long => code = x) /\ (~long /\ none => code = y) /\ (~long /\ ~none => code = "")
    BY <2>5, TwoChecks
  <2>7. code = LimitCode(parts)
    BY <2>3, <2>4, <2>5, Zenon
  <2> QED
    BY <2>2, <2>4, <2>6, <2>7, Zenon
<1>6. "EXTRACTION_LIMIT_EXCEEDED" # "" /\ "NO_EXTRACTABLE_TEXT" # ""
  OBVIOUS
<1>7. ~(size > MaxTextChars) => size <= MaxTextChars
  BY <1>3, LimitsAssumption
<1> QED
  BY <1>1, <1>5, <1>7, <1>6, Zenon

-----------------------------------------------------------------------------
(* The words of a text and where they stand *)

\* The words of a text that are no white space and no control characters.
Inked(text) == {i \in DOMAIN text : text[i] \notin Blank}

\* The words of a text, without the white space that normalize_text folds.
Words(text) == Picked(text, Inked(text))

\* The words up to each place of a text.
Grows(f, text) ==
  /\ f \in [0..Len(text) -> Texts]
  /\ f[0] = <<>>
  /\ \A i \in 1..Len(text) : f[i] = IF text[i] \notin Blank THEN Append(f[i - 1], text[i]) ELSE f[i - 1]
  /\ Words(text) = f[Len(text)]

\* The words are a recursion over the text.
LEMMA WordsGrow ==
  ASSUME NEW text \in Texts
  PROVE  \E f : Grows(f, text)
<1>1. PICK f : Picks(f, Vocabulary, text, Inked(text))
  BY PickedSteps DEF Texts
<1>2. \A i \in 1..Len(text) : i \in Inked(text) <=> text[i] \notin Blank
  BY DEF Inked, Texts
<1>3. Grows(f, text)
  <2>1. f \in [0..Len(text) -> Texts] /\ f[0] = <<>> /\ Words(text) = f[Len(text)]
    BY <1>1 DEF Picks, Texts, Words
  <2>2. \A i \in 1..Len(text) :
          f[i] = IF i \in Inked(text) THEN Append(f[i - 1], text[i]) ELSE f[i - 1]
    BY <1>1 DEF Picks
  <2>3. \A i \in 1..Len(text) :
          f[i] = IF text[i] \notin Blank THEN Append(f[i - 1], text[i]) ELSE f[i - 1]
    BY <1>2, <2>2
  <2> QED
    BY <2>1, <2>3 DEF Grows
<1> QED
  BY <1>3

\* The words of a text are a text.
LEMMA WordsType ==
  ASSUME NEW text \in Texts
  PROVE  Words(text) \in Texts
<1>1. PICK f : Grows(f, text)
  BY WordsGrow
<1>2. Len(text) \in Nat
  BY DEF Texts
<1> QED
  BY <1>1, <1>2 DEF Grows

\* An empty text has no words.
LEMMA WordsOfNothing == Words(<<>>) = <<>>
<1>1. <<>> \in Texts /\ Len(<<>>) = 0
  BY WrittenTexts
<1>2. PICK f : Grows(f, <<>>)
  BY <1>1, WordsGrow
<1> QED
  BY <1>1, <1>2 DEF Grows

\* The words of a beginning of a text are those that have grown up to its end.
LEMMA WordsOfBeginning ==
  ASSUME NEW text \in Texts, NEW f, Grows(f, text), NEW p \in 0..Len(text), NEW s \in Texts,
         Len(s) = p, \A i \in 1..p : s[i] = text[i]
  PROVE  Words(s) = f[p]
<1>1. PICK g : Grows(g, s)
  BY WordsGrow
<1> DEFINE T == {i \in 0..p : g[i] = f[i]}
<1>2. p \in Nat /\ Len(text) \in Nat
  BY DEF Texts
<1>3. 0 \in T
  BY <1>1, <1>2 DEF Grows
<1>4. ASSUME NEW k \in 0..(p - 1), k \in T PROVE k + 1 \in T
  <2>1. k + 1 \in 1..p /\ k + 1 \in 1..Len(text) /\ (k + 1) - 1 = k /\ k + 1 \in 0..p
    BY <1>2
  <2>2. g[k] = f[k] /\ s[k + 1] = text[k + 1]
    BY <1>4, <2>1
  <2>3. g[k + 1] = IF s[k + 1] \notin Blank THEN Append(g[k], s[k + 1]) ELSE g[k]
    BY <1>1, <2>1 DEF Grows
  <2>4. f[k + 1] = IF text[k + 1] \notin Blank THEN Append(f[k], text[k + 1]) ELSE f[k]
    BY <2>1 DEF Grows
  <2> QED
    BY <2>1, <2>2, <2>3, <2>4
<1> HIDE DEF T
<1>5. \A k \in 0..p : k \in T
  BY <1>2, <1>3, <1>4, Upwards
<1> QED
  BY <1>1, <1>2, <1>5 DEF Grows, T

\* Append goes into the last part of a concatenation.
LEMMA AppendLast ==
  ASSUME NEW a \in Texts, NEW b \in Texts, NEW x \in Vocabulary
  PROVE  Append(a \o b, x) = a \o Append(b, x)
<1>1. a \o b \in Seq(Vocabulary) /\ <<x>> \in Seq(Vocabulary)
  BY DEF Texts
<1>2. Append(a \o b, x) = (a \o b) \o <<x>> /\ Append(b, x) = b \o <<x>>
  BY <1>1, AppendIsConcat DEF Texts
<1>3. (a \o b) \o <<x>> = a \o (b \o <<x>>)
  BY <1>1, ConcatAssociative DEF Texts
<1> QED
  BY <1>2, <1>3, Zenon

\* The words of two texts, one after the other.
LEMMA WordsOfTwo ==
  ASSUME NEW s \in Texts, NEW t \in Texts
  PROVE  s \o t \in Texts /\ Words(s \o t) = Words(s) \o Words(t)
<1>1. PICK u : u = s \o t
  OBVIOUS
<1> DEFINE m == Len(s)
           n == Len(t)
<1>2. u \in Texts /\ m \in Nat /\ n \in Nat /\ Len(u) = m + n
  BY <1>1 DEF Texts
<1>3. (\A i \in 1..m : u[i] = s[i]) /\ (\A i \in 1..n : u[m + i] = t[i])
  BY <1>1, <1>2 DEF Texts
<1>4. PICK f : Grows(f, u)
  BY <1>2, WordsGrow
<1>5. PICK g : Grows(g, t)
  BY WordsGrow
<1> HIDE DEF m, n
<1>6. Words(s) = f[m]
  <2>1. m \in 0..Len(u) /\ Len(s) = m
    BY <1>2 DEF m
  <2> QED
    BY <1>2, <1>3, <1>4, <2>1, WordsOfBeginning
<1> DEFINE T == {k \in 0..n : f[m + k] = Words(s) \o g[k]}
<1>7. Words(s) \in Texts
  BY WordsType
<1>8. 0 \in T
  <2>1. g[0] = <<>> /\ m + 0 = m /\ 0 \in 0..n
    BY <1>2, <1>5 DEF Grows
  <2>2. Words(s) \o <<>> = Words(s)
    BY <1>7 DEF Texts
  <2> QED
    BY <1>6, <2>1, <2>2
<1>9. ASSUME NEW k \in 0..(n - 1), k \in T PROVE k + 1 \in T
  <2>1. /\ k + 1 \in 1..n /\ m + (k + 1) \in 1..Len(u) /\ (k + 1) - 1 = k /\ (m + (k + 1)) - 1 = m + k
        /\ k \in 0..n /\ k + 1 \in 0..n
    BY <1>2
  <2>2. f[m + k] = Words(s) \o g[k] /\ u[m + (k + 1)] = t[k + 1]
    BY <1>3, <1>9, <2>1
  <2>3. g[k + 1] = IF t[k + 1] \notin Blank THEN Append(g[k], t[k + 1]) ELSE g[k]
    BY <1>5, <2>1 DEF Grows, n
  <2>4. f[m + (k + 1)] = IF u[m + (k + 1)] \notin Blank THEN Append(f[m + k], u[m + (k + 1)]) ELSE f[m + k]
    BY <1>4, <2>1 DEF Grows
  <2>5. g[k] \in Texts /\ t[k + 1] \in Vocabulary
    BY <1>5, <2>1, ElementOfSeq DEF Grows, n, Texts
  <2>6. PICK a, b, x : a = Words(s) /\ b = g[k] /\ x = t[k + 1]
    OBVIOUS
  <2>7. Append(a \o b, x) = a \o Append(b, x)
    <3>1. a \in Texts /\ b \in Texts /\ x \in Vocabulary
      BY <1>7, <2>5, <2>6
    <3> QED
      BY <3>1, AppendLast
  <2>8. f[m + (k + 1)] = Words(s) \o g[k + 1]
    BY <2>2, <2>3, <2>4, <2>6, <2>7
  <2> QED
    BY <2>1, <2>8
<1> HIDE DEF T
<1>10. \A k \in 0..n : k \in T
  BY <1>2, <1>8, <1>9, Upwards
<1>11. f[m + n] = Words(s) \o g[n]
  BY <1>2, <1>10 DEF T
<1>12. Words(u) = Words(s) \o Words(t)
  BY <1>2, <1>4, <1>5, <1>11 DEF Grows, n
<1> QED
  BY <1>1, <1>2, <1>12

\* A slice within a text is a text of that length.
LEMMA SliceType ==
  ASSUME NEW text \in Texts, NEW p \in 0..Len(text), NEW q \in p..Len(text)
  PROVE  /\ Slice(text, p, q) \in Texts /\ Len(Slice(text, p, q)) = q - p
         /\ \A i \in 1..(q - p) : Slice(text, p, q)[i] = text[p + i]
<1>1. Len(text) \in Nat /\ p + 1 \in Nat \ {0} /\ q \in 0..Len(text) /\ p \in Nat /\ q \in Nat /\ p <= q
  BY DEF Texts
<1>2. text \in Seq(Vocabulary)
  BY DEF Texts
<1>3. PICK s : s = SubSeq(text, p + 1, q)
  OBVIOUS
<1>4. /\ s \in Seq(Vocabulary)
      /\ Len(s) = IF p + 1 <= q THEN q - (p + 1) + 1 ELSE 0
      /\ \A i \in 1..Len(s) : s[i] = text[(p + 1) + i - 1]
  BY <1>1, <1>2, <1>3, SubSeqType
<1>5. Len(s) = q - p /\ \A i \in 1..(q - p) : (p + 1) + i - 1 = p + i
  BY <1>1, <1>4
<1> QED
  BY <1>3, <1>4, <1>5 DEF Slice, Texts

\* What grows between two places are the words between them.
LEMMA WordsBetween ==
  ASSUME NEW text \in Texts, NEW f, Grows(f, text), NEW p \in 0..Len(text), NEW q \in p..Len(text)
  PROVE  f[q] = f[p] \o Words(Slice(text, p, q))
<1>1. Len(text) \in Nat /\ p \in Nat /\ q \in Nat /\ p <= q /\ q <= Len(text) /\ q \in 0..Len(text)
      /\ 0 \in 0..Len(text) /\ p \in 0..Len(text) /\ p \in 0..Len(text) /\ q \in 0..Len(text)
  BY DEF Texts
<1>2. PICK a, b, c : a = Slice(text, 0, p) /\ b = Slice(text, p, q) /\ c = Slice(text, 0, q)
  OBVIOUS
<1>3. /\ a \in Texts /\ Len(a) = p - 0 /\ \A i \in 1..(p - 0) : a[i] = text[0 + i]
  BY <1>1, <1>2, SliceType
<1>4. /\ c \in Texts /\ Len(c) = q - 0 /\ \A i \in 1..(q - 0) : c[i] = text[0 + i]
  BY <1>1, <1>2, SliceType
<1>5. b \in Texts
  BY <1>1, <1>2, SliceType
<1>6. a \o b = c
  <2>1. a = SubSeq(text, 1, p) /\ b = SubSeq(text, p + 1, q) /\ c = SubSeq(text, 1, q)
    BY <1>2 DEF Slice
  <2>2. 1 \in 1..(Len(text) + 1) /\ p \in (1 - 1)..Len(text) /\ q \in p..Len(text)
    BY <1>1
  <2>3. text \in Seq(Vocabulary)
    BY DEF Texts
  <2>4. SubSeq(text, 1, p) \o SubSeq(text, p + 1, q) = SubSeq(text, 1, q)
    BY <2>2, <2>3, ConcatAdjacentSubSeq
  <2> QED
    BY <2>1, <2>4
<1>7. Words(a) = f[p]
  <2>1. Len(a) = p /\ \A i \in 1..p : a[i] = text[i]
    BY <1>1, <1>3
  <2> QED
    BY <1>3, <2>1, WordsOfBeginning
<1>8. Words(c) = f[q]
  <2>1. Len(c) = q /\ \A i \in 1..q : c[i] = text[i]
    BY <1>1, <1>4
  <2> QED
    BY <1>1, <1>4, <2>1, WordsOfBeginning
<1>9. Words(a \o b) = Words(a) \o Words(b)
  BY <1>3, <1>5, WordsOfTwo
<1> QED
  BY <1>2, <1>6, <1>7, <1>8, <1>9, Zenon

\* Nothing grows where all is blank.
LEMMA BlanksGrowNothing ==
  ASSUME NEW text \in Texts, NEW f, Grows(f, text), NEW p \in 0..Len(text), NEW q \in p..Len(text),
         \A i \in (p + 1)..q : text[i] \in Blank
  PROVE  f[q] = f[p]
<1> DEFINE T == {k \in 0..(q - p) : f[p + k] = f[p]}
<1>1. Len(text) \in Nat /\ p \in Nat /\ q \in Nat /\ q - p \in Nat /\ q <= Len(text)
  BY DEF Texts
<1>2. 0 \in T
  BY <1>1
<1>3. ASSUME NEW k \in 0..((q - p) - 1), k \in T PROVE k + 1 \in T
  <2>1. k + 1 \in 0..(q - p) /\ p + (k + 1) \in 1..Len(text) /\ p + (k + 1) \in (p + 1)..q
        /\ (p + (k + 1)) - 1 = p + k
    BY <1>1
  <2>2. f[p + (k + 1)] = IF text[p + (k + 1)] \notin Blank THEN Append(f[p + k], text[p + (k + 1)]) ELSE f[p + k]
    BY <2>1 DEF Grows
  <2>3. f[p + (k + 1)] = f[p + k]
    BY <2>1, <2>2
  <2> QED
    BY <1>3, <2>1, <2>3
<1> HIDE DEF T
<1>4. \A k \in 0..(q - p) : k \in T
  BY <1>1, <1>2, <1>3, Upwards
<1>5. q - p \in T /\ p + (q - p) = q
  BY <1>1, <1>4
<1> QED
  BY <1>5 DEF T

\* The words of a part of a text stand together in the words of the text.
LEMMA MiddlePart ==
  ASSUME NEW x \in Texts, NEW y \in Texts, NEW z \in Texts
  PROVE  Slice((x \o y) \o z, Len(x), Len(x) + Len(y)) = y
<1>1. PICK w : w = (x \o y) \o z
  OBVIOUS
<1>2. /\ Len(x) \in Nat /\ Len(y) \in Nat /\ Len(z) \in Nat
      /\ w \in Texts /\ Len(w) = Len(x) + Len(y) + Len(z)
  BY <1>1 DEF Texts
<1>3. \A i \in 1..Len(y) : w[Len(x) + i] = y[i]
  <2>1. PICK v : v = x \o y
    OBVIOUS
  <2>2. v \in Texts /\ Len(v) = Len(x) + Len(y) /\ w = v \o z
    BY <1>1, <2>1 DEF Texts
  <2>3. \A i \in 1..Len(y) : v[Len(x) + i] = y[i]
    BY <1>2, <2>1 DEF Texts
  <2>4. \A i \in 1..Len(y) : w[Len(x) + i] = v[Len(x) + i]
    BY <1>2, <2>2 DEF Texts
  <2> QED
    BY <2>3, <2>4
<1>4. PICK lo, hi, s : lo = Len(x) /\ hi = Len(x) + Len(y) /\ s = Slice(w, lo, hi)
  OBVIOUS
<1>5. s \in Texts /\ Len(s) = hi - lo /\ \A i \in 1..(hi - lo) : s[i] = w[lo + i]
  <2>1. lo \in 0..Len(w) /\ hi \in lo..Len(w)
    BY <1>2, <1>4
  <2> QED
    BY <1>2, <1>4, <2>1, SliceType
<1>6. Len(s) = Len(y) /\ \A i \in 1..Len(s) : s[i] = y[i]
  BY <1>2, <1>3, <1>4, <1>5
<1>7. s = y
  BY <1>5, <1>6, SeqEqual DEF Texts
<1> QED
  BY <1>1, <1>4, <1>7

\* The place of each word.
Placed(offsets, f, text) ==
  /\ IsList(offsets) /\ Len(offsets) = Len(Words(text))
  /\ \A k \in 1..Len(offsets) : \E p \in 1..Len(text) :
       /\ offsets[k] = [start |-> p - 1, end |-> p]
       /\ Len(f[p - 1]) = k - 1 /\ Len(f[p]) = k

\* normalize_text keeps, for each word, the place it came from.
LEMMA WordsArePlaced ==
  ASSUME NEW text \in Texts, NEW f, Grows(f, text)
  PROVE  Normalized(text).text = Words(text) /\ Placed(Normalized(text).offsets, f, text)
<1> DEFINE n == Len(text)
           all == [i \in DOMAIN text |-> [start |-> i - 1, end |-> i]]
           V == [start : Int, end : Int]
           offsets == Picked(all, Inked(text))
<1>1. n \in Nat /\ DOMAIN text = 1..n
  BY DEF Texts
<1>2. all \in Seq(V) /\ Len(all) = n /\ \A i \in 1..n : all[i] = [start |-> i - 1, end |-> i]
  BY <1>1
<1>3. Normalized(text).text = Words(text) /\ Normalized(text).offsets = offsets
  BY DEF Normalized, Words, Inked
<1> HIDE DEF all, V, offsets, n
<1>4. PICK g : Picks(g, V, all, Inked(text))
  BY <1>2, PickedSteps
<1>5. /\ g \in [0..n -> Seq(V)] /\ g[0] = <<>> /\ offsets = g[n]
      /\ \A i \in 1..n : g[i] = IF text[i] \notin Blank THEN Append(g[i - 1], all[i]) ELSE g[i - 1]
  <2>1. \A i \in 1..n : i \in Inked(text) <=> text[i] \notin Blank
    BY <1>1 DEF Inked
  <2>2. \A i \in 1..n : g[i] = IF i \in Inked(text) THEN Append(g[i - 1], all[i]) ELSE g[i - 1]
    BY <1>2, <1>4 DEF Picks
  <2>3. g \in [0..n -> Seq(V)] /\ g[0] = <<>> /\ offsets = g[n]
    BY <1>2, <1>4 DEF Picks, offsets
  <2>4. \A i \in 1..n : g[i] = IF text[i] \notin Blank THEN Append(g[i - 1], all[i]) ELSE g[i - 1]
    BY <2>1, <2>2
  <2> QED
    BY <2>3, <2>4
<1>6. /\ f \in [0..n -> Texts] /\ f[0] = <<>> /\ Words(text) = f[n]
      /\ \A i \in 1..n : f[i] = IF text[i] \notin Blank THEN Append(f[i - 1], text[i]) ELSE f[i - 1]
  BY DEF Grows, n
<1> DEFINE At(k, p) == /\ Len(f[p - 1]) = k - 1 /\ Len(f[p]) = k
           T == {i \in 0..n : /\ Len(g[i]) = Len(f[i])
                              /\ \A k \in 1..Len(g[i]) : \E p \in 1..i :
                                   g[i][k] = all[p] /\ At(k, p)}
<1>7. 0 \in T
  <2>1. Len(g[0]) = 0 /\ Len(f[0]) = 0 /\ 0 \in 0..n
    BY <1>1, <1>5, <1>6
  <2> QED
    BY <2>1
<1>8. ASSUME NEW i \in 0..(n - 1), i \in T PROVE i + 1 \in T
  <2>1. i + 1 \in 1..n /\ i + 1 \in 0..n /\ (i + 1) - 1 = i /\ i \in 0..n /\ i \in Nat
        /\ \A p \in 1..i : p \in 1..(i + 1)
    BY <1>1
  <2>2. Len(g[i]) = Len(f[i]) /\ \A k \in 1..Len(g[i]) : \E p \in 1..i : g[i][k] = all[p] /\ At(k, p)
    BY <1>8
  <2>3. g[i] \in Seq(V) /\ f[i] \in Seq(Vocabulary) /\ all[i + 1] \in V /\ text[i + 1] \in Vocabulary
    <3>1. text \in Seq(Vocabulary) /\ i + 1 \in 1..Len(text) /\ i + 1 \in 1..Len(all)
      BY <1>2, <2>1 DEF Texts, n
    <3>2. all[i + 1] \in V /\ text[i + 1] \in Vocabulary
      BY <1>2, <3>1, ElementOfSeq
    <3> QED
      BY <1>5, <1>6, <2>1, <3>2 DEF Texts
  <2>4. CASE text[i + 1] \in Blank
    <3>1. g[i + 1] = g[i] /\ f[i + 1] = f[i]
      BY <1>5, <1>6, <2>1, <2>4
    <3> HIDE DEF At
    <3> QED
      BY <2>1, <2>2, <3>1
  <2>5. CASE text[i + 1] \notin Blank
    <3>1. PICK G, F : G = g[i] /\ F = f[i]
      OBVIOUS
    <3>2. g[i + 1] = Append(G, all[i + 1]) /\ f[i + 1] = Append(F, text[i + 1])
      BY <1>5, <1>6, <2>1, <2>5, <3>1
    <3>3. /\ Len(g[i + 1]) = Len(G) + 1 /\ Len(f[i + 1]) = Len(F) + 1 /\ Len(G) \in Nat /\ Len(F) = Len(G)
          /\ g[i + 1][Len(G) + 1] = all[i + 1]
          /\ \A k \in 1..Len(G) : g[i + 1][k] = G[k]
      BY <2>2, <2>3, <3>1, <3>2
    <3>4. At(Len(G) + 1, i + 1)
      BY <2>1, <3>1, <3>3
    <3> HIDE DEF At
    <3>5. ASSUME NEW k \in 1..Len(g[i + 1])
          PROVE  \E p \in 1..(i + 1) : g[i + 1][k] = all[p] /\ At(k, p)
      <4>1. CASE k = Len(G) + 1
        <5>1. i + 1 \in 1..(i + 1)
          BY <2>1
        <5> QED
          BY <3>3, <3>4, <4>1, <5>1
      <4>2. CASE k # Len(G) + 1
        <5>1. k \in 1..Len(G)
          BY <3>3, <4>2
        <5> QED
          BY <2>1, <2>2, <3>1, <3>3, <5>1
      <4> QED
        BY <4>1, <4>2
    <3>6. Len(g[i + 1]) = Len(f[i + 1])
      BY <3>3
    <3> QED
      BY <2>1, <3>5, <3>6
  <2> QED
    BY <2>4, <2>5
<1> HIDE DEF T, At
<1>9. \A i \in 0..n : i \in T
  BY <1>1, <1>7, <1>8, Upwards
<1>10. /\ Len(offsets) = Len(Words(text))
       /\ \A k \in 1..Len(offsets) : \E p \in 1..n : offsets[k] = all[p] /\ At(k, p)
  <2>1. n \in T
    BY <1>1, <1>9
  <2> QED
    BY <1>5, <1>6, <2>1 DEF T
<1>11. IsList(offsets)
  <2>1. offsets \in Seq(V)
    BY <1>1, <1>5
  <2>2. Len(offsets) \in Nat /\ offsets = [k \in 1..Len(offsets) |-> offsets[k]]
    BY <2>1
  <2> QED
    BY <2>2, ListMade
<1>12. \A k \in 1..Len(offsets) : \E p \in 1..n :
         /\ offsets[k] = [start |-> p - 1, end |-> p]
         /\ Len(f[p - 1]) = k - 1 /\ Len(f[p]) = k
  BY <1>2, <1>10 DEF At
<1> QED
  BY <1>3, <1>10, <1>11, <1>12 DEF Placed, n

-----------------------------------------------------------------------------
(* Evidence quotes words *)

\* Some words of a text, and the span of the source that they come from.
SpanFits(span, text, a, b) ==
  /\ span.start \in 0..Len(text) /\ span.end \in span.start..Len(text) /\ span.start < span.end
  /\ Words(Slice(text, span.start, span.end)) = Slice(Words(text), a, b)

\* The source span of some words begins at the first and ends with the last of them.
LEMMA SpanOfWords ==
  ASSUME NEW text \in Texts, NEW a \in Nat, NEW b \in Nat, a < b, b <= Len(Words(text))
  PROVE  SpanFits(SourceSpan(Normalized(text), a, b), text, a, b)
<1>1. PICK f : Grows(f, text)
  BY WordsGrow
<1>2. PICK offsets : offsets = Normalized(text).offsets
  OBVIOUS
<1>3. Placed(offsets, f, text)
  BY <1>1, <1>2, WordsArePlaced
<1>4. Len(text) \in Nat /\ Len(Words(text)) \in Nat
  BY WordsType DEF Texts
<1>5. Len(offsets) = Len(Words(text)) /\ a + 1 \in 1..Len(offsets) /\ b \in 1..Len(offsets)
  BY <1>3, <1>4 DEF Placed
<1>6. PICK p \in 1..Len(text) : /\ offsets[a + 1] = [start |-> p - 1, end |-> p]
                                /\ Len(f[p - 1]) = (a + 1) - 1
  BY <1>3, <1>5 DEF Placed
<1>7. PICK q \in 1..Len(text) : /\ offsets[b] = [start |-> q - 1, end |-> q]
                                /\ Len(f[q]) = b
  BY <1>3, <1>5 DEF Placed
<1>8. PICK lo, hi : lo = p - 1 /\ hi = q
  OBVIOUS
<1>9. lo \in 0..Len(text) /\ hi \in 0..Len(text) /\ Len(f[lo]) = a /\ Len(f[hi]) = b
  BY <1>4, <1>6, <1>7, <1>8
<1>10. SourceSpan(Normalized(text), a, b) = [start |-> lo, end |-> hi]
  BY <1>2, <1>6, <1>7, <1>8 DEF SourceSpan
<1>11. \A i \in 0..Len(text) : f[i] \in Texts
  BY <1>1 DEF Grows
<1>12. lo < hi
  <2> SUFFICES ASSUME hi <= lo PROVE FALSE
    BY <1>4, <1>9
  <2>1. lo \in hi..Len(text)
    BY <1>4, <1>9
  <2>2. PICK w : w = Words(Slice(text, hi, lo))
    OBVIOUS
  <2>3. f[lo] = f[hi] \o w
    BY <1>1, <1>9, <2>1, <2>2, WordsBetween
  <2>4. w \in Texts
    BY <1>9, <2>1, <2>2, SliceType, WordsType
  <2>5. Len(f[lo]) = Len(f[hi]) + Len(w) /\ Len(w) \in Nat
    BY <1>9, <1>11, <2>3, <2>4 DEF Texts
  <2> QED
    BY <1>9, <2>5
<1>13. hi \in lo..Len(text) /\ Len(text) \in hi..Len(text) /\ Len(text) \in 0..Len(text)
  BY <1>4, <1>9, <1>12
<1>14. PICK x, y, z : x = f[lo] /\ y = Words(Slice(text, lo, hi)) /\ z = Words(Slice(text, hi, Len(text)))
  OBVIOUS
<1>15. x \in Texts /\ y \in Texts /\ z \in Texts
  BY <1>9, <1>11, <1>13, <1>14, SliceType, WordsType
<1>16. f[hi] = x \o y /\ f[Len(text)] = f[hi] \o z
  BY <1>1, <1>9, <1>13, <1>14, WordsBetween
<1>17. Words(text) = (x \o y) \o z
  BY <1>1, <1>16 DEF Grows
<1>18. Len(x) = a /\ Len(x) + Len(y) = b
  <2>1. Len(x \o y) = Len(x) + Len(y)
    BY <1>15 DEF Texts
  <2> QED
    BY <1>9, <1>14, <1>16, <2>1
<1>19. Slice(Words(text), a, b) = y
  <2>1. Slice((x \o y) \o z, Len(x), Len(x) + Len(y)) = y
    BY <1>15, MiddlePart
  <2> QED
    BY <1>17, <1>18, <2>1
<1> QED
  BY <1>9, <1>10, <1>12, <1>13, <1>14, <1>19 DEF SpanFits

\* One more text at the end of a concatenation.
LEMMA FlattenMore ==
  ASSUME NEW s \in Seq(Texts), NEW e \in Texts
  PROVE  FlattenSeq(Append(s, e)) = FlattenSeq(s) \o e
<1>1. PICK t : t = Append(s, e)
  OBVIOUS
<1>2. /\ t \in Seq(Texts) /\ Len(s) \in Nat /\ Len(t) = Len(s) + 1 /\ t[Len(s) + 1] = e
      /\ \A i \in 1..Len(s) : t[i] = s[i]
  BY <1>1
<1>3. PICK f : Flattens(f, Vocabulary, s)
  BY FlattenSteps DEF Texts
<1>4. PICK g : Flattens(g, Vocabulary, t)
  BY <1>2, FlattenSteps DEF Texts
<1> DEFINE T == {k \in 0..Len(s) : g[k] = f[k]}
<1>5. 0 \in T
  BY <1>2, <1>3, <1>4 DEF Flattens
<1>6. ASSUME NEW k \in 0..(Len(s) - 1), k \in T PROVE k + 1 \in T
  <2>1. k + 1 \in 1..Len(s) /\ k + 1 \in 1..Len(t) /\ (k + 1) - 1 = k /\ k + 1 \in 0..Len(s)
    BY <1>2
  <2>2. f[k + 1] = f[k] \o s[k + 1] /\ g[k + 1] = g[k] \o t[k + 1]
    BY <1>3, <1>4, <2>1 DEF Flattens
  <2> QED
    BY <1>2, <1>6, <2>1, <2>2
<1> HIDE DEF T
<1>7. \A k \in 0..Len(s) : k \in T
  BY <1>2, <1>5, <1>6, Upwards
<1>8. g[Len(s)] = f[Len(s)]
  <2>1. Len(s) \in T
    BY <1>2, <1>7
  <2> QED
    BY <2>1 DEF T
<1>9. g[Len(s) + 1] = g[Len(s)] \o e
  <2>1. Len(s) + 1 \in 1..Len(t) /\ (Len(s) + 1) - 1 = Len(s)
    BY <1>2
  <2> QED
    BY <1>2, <1>4, <2>1 DEF Flattens
<1>10. FlattenSeq(t) = FlattenSeq(s) \o e
  BY <1>2, <1>3, <1>4, <1>8, <1>9 DEF Flattens
<1> QED
  BY <1>1, <1>10

\* Nothing concatenated is nothing.
LEMMA FlattenNothing == FlattenSeq(<<>>) = <<>>
<1>1. <<>> \in Seq(Seq(Vocabulary)) /\ Len(<<>>) = 0
  OBVIOUS
<1>2. PICK f : Flattens(f, Vocabulary, <<>>)
  BY <1>1, FlattenSteps
<1> QED
  BY <1>1, <1>2 DEF Flattens

\* The excerpts of a list of references.
Excerpts(q) == [k \in DOMAIN q |-> q[k].excerpt]

\* One more excerpt.
LEMMA ExcerptsMore ==
  ASSUME NEW V, NEW q \in Seq(V), NEW r \in V, \A v \in V : v.excerpt \in Texts
  PROVE  /\ Excerpts(q) \in Seq(Texts)
         /\ Excerpts(Append(q, r)) = Append(Excerpts(q), r.excerpt)
<1>1. PICK t : t = Append(q, r)
  OBVIOUS
<1>2. /\ t \in Seq(V) /\ Len(q) \in Nat /\ Len(t) = Len(q) + 1 /\ t[Len(q) + 1] = r
      /\ \A i \in 1..Len(q) : t[i] = q[i]
  BY <1>1
<1>3. \A s \in Seq(V) : /\ Excerpts(s) \in Seq(Texts) /\ Len(Excerpts(s)) = Len(s)
                        /\ \A i \in 1..Len(s) : Excerpts(s)[i] = s[i].excerpt
  <2> SUFFICES ASSUME NEW s \in Seq(V)
               PROVE  /\ Excerpts(s) \in Seq(Texts) /\ Len(Excerpts(s)) = Len(s)
                      /\ \A i \in 1..Len(s) : Excerpts(s)[i] = s[i].excerpt
    OBVIOUS
  <2>1. \A i \in 1..Len(s) : s[i].excerpt \in Texts
    BY ElementOfSeq
  <2>2. DOMAIN s = 1..Len(s) /\ Len(s) \in Nat
    OBVIOUS
  <2> QED
    BY <2>1, <2>2 DEF Excerpts
<1>4. PICK a, b : a = Excerpts(q) /\ b = Excerpts(t)
  OBVIOUS
<1>5. /\ a \in Seq(Texts) /\ Len(a) = Len(q) /\ \A i \in 1..Len(q) : a[i] = q[i].excerpt
      /\ b \in Seq(Texts) /\ Len(b) = Len(t) /\ \A i \in 1..Len(t) : b[i] = t[i].excerpt
  BY <1>2, <1>3, <1>4
<1>6. PICK c, e : e = r.excerpt /\ c = Append(a, e)
  OBVIOUS
<1>7. e \in Texts
  BY <1>6
<1>8. /\ c \in Seq(Texts) /\ Len(c) = Len(q) + 1 /\ c[Len(q) + 1] = e
      /\ \A i \in 1..Len(q) : c[i] = a[i]
  BY <1>5, <1>6, <1>7
<1>9. \A i \in 1..Len(b) : b[i] = c[i]
  <2> SUFFICES ASSUME NEW i \in 1..Len(b) PROVE b[i] = c[i]
    OBVIOUS
  <2>1. i \in 1..Len(t) /\ b[i] = t[i].excerpt
    BY <1>5
  <2>2. CASE i = Len(q) + 1
    BY <1>2, <1>6, <1>8, <2>1, <2>2
  <2>3. CASE i # Len(q) + 1
    <3>1. i \in 1..Len(q)
      BY <1>2, <2>1, <2>3
    <3> QED
      BY <1>2, <1>5, <1>8, <2>1, <3>1
  <2> QED
    BY <2>2, <2>3
<1>10. b = c
  BY <1>2, <1>5, <1>8, <1>9, SeqEqual
<1> QED
  BY <1>1, <1>4, <1>5, <1>6, <1>10

\* The chunks of the evidence are apart, in order, and have every word of a text.
Covers(ev, text) ==
  /\ IsList(ev)
  /\ \A i \in DOMAIN ev : ev[i].start \in 0..Len(text) /\ ev[i].end \in ev[i].start..Len(text)
  /\ \A i, k \in DOMAIN ev : i < k => ev[i].end <= ev[k].start
  /\ \A p \in 1..Len(text) :
       text[p] \in Blank \/ \E i \in DOMAIN ev : ev[i].start < p /\ p <= ev[i].end

\* The larger of two numbers, in a form for arithmetic.
MaxTwo(a, b) == IF a >= b THEN a ELSE b

\* The smaller of two numbers.
MinTwo(a, b) == IF a <= b THEN a ELSE b

\* Where the chunks up to one of them end.
EndOf(ev, i) == IF i = 0 THEN 0 ELSE ev[i].end

\* Between two chunks nothing grows.
LEMMA NothingBetween ==
  ASSUME NEW text \in Texts, NEW f, Grows(f, text), NEW ev, Covers(ev, text),
         NEW i \in 0..Len(ev), NEW p \in 0..Len(text), NEW q \in p..Len(text),
         EndOf(ev, i) <= p,
         i < Len(ev) => q <= ev[i + 1].start
  PROVE  f[q] = f[p]
<1>1. Len(text) \in Nat /\ p \in Nat /\ q \in Nat /\ q <= Len(text) /\ Len(ev) \in Nat
      /\ DOMAIN ev = 1..Len(ev)
  BY ListShape DEF Texts, Covers
<1>2. \A x \in (p + 1)..q : text[x] \in Blank
  <2> SUFFICES ASSUME NEW x \in (p + 1)..q, text[x] \notin Blank PROVE FALSE
    OBVIOUS
  <2>1. x \in 1..Len(text) /\ x \in Int /\ p < x /\ x <= q
    BY <1>1
  <2>2. PICK k \in 1..Len(ev) : ev[k].start < x /\ x <= ev[k].end
    BY <1>1, <2>1 DEF Covers
  <2>3. ev[k].start \in Int /\ ev[k].end \in Int
    BY <1>1, <2>2 DEF Covers
  <2>4. CASE k <= i
    <3>1. i \in 1..Len(ev) /\ EndOf(ev, i) = ev[i].end
      BY <1>1, <2>4 DEF EndOf
    <3>2. ev[i].end \in Int /\ ev[i].start \in Int /\ ev[i].start <= ev[i].end
      BY <1>1, <3>1 DEF Covers
    <3>3. ev[k].end <= ev[i].end
      <4>1. CASE k = i
        BY <3>2, <4>1
      <4>2. CASE k # i
        <5>1. k < i
          BY <1>1, <2>4, <3>1, <4>2
        <5>2. ev[k].end <= ev[i].start
          BY <1>1, <3>1, <5>1 DEF Covers
        <5> QED
          BY <2>3, <3>2, <5>2
      <4> QED
        BY <4>1, <4>2
    <3> QED
      BY <1>1, <2>1, <2>2, <2>3, <3>1, <3>2, <3>3
  <2>5. CASE i < k
    <3>1. i + 1 \in 1..Len(ev) /\ i < Len(ev)
      BY <1>1, <2>5
    <3>2. ev[i + 1].start \in Int /\ ev[i + 1].end \in Int /\ ev[i + 1].start <= ev[i + 1].end
      BY <1>1, <3>1 DEF Covers
    <3>3. ev[i + 1].start <= ev[k].start
      <4>1. CASE k = i + 1
        BY <3>2, <4>1
      <4>2. CASE k # i + 1
        <5>1. i + 1 < k
          BY <1>1, <2>5, <3>1, <4>2
        <5>2. ev[i + 1].end <= ev[k].start
          BY <1>1, <3>1, <5>1 DEF Covers
        <5> QED
          BY <2>3, <3>2, <5>2
      <4> QED
        BY <4>1, <4>2
    <3> QED
      BY <1>1, <2>1, <2>2, <2>3, <3>1, <3>2, <3>3
  <2> QED
    BY <1>1, <2>4, <2>5
<1> QED
  BY <1>2, BlanksGrowNothing

\* What the clipping leaves of a chunk.
LoOf(ev, i, lo) == MaxTwo(lo, ev[i].start)

\* Where the part of chunk i in a span ends.
HiOf(ev, i, hi) == MinTwo(hi, ev[i].end)

\* Up to where a span has been quoted.
Done(ev, i, lo, hi) == MaxTwo(lo, MinTwo(hi, EndOf(ev, i)))

\* What one chunk adds to the words that have been quoted.
Adds(f, ev, text, i, lo, hi) ==
  LET L == LoOf(ev, i, lo)
      H == HiOf(ev, i, hi)
  IN /\ L < H => /\ L \in 0..Len(text) /\ H \in L..Len(text)
                 /\ f[Done(ev, i, lo, hi)] = f[Done(ev, i - 1, lo, hi)] \o Words(Slice(text, L, H))
     /\ ~(L < H) => f[Done(ev, i, lo, hi)] = f[Done(ev, i - 1, lo, hi)]

\* One chunk more.
LEMMA NextChunk ==
  ASSUME NEW text \in Texts, NEW f, Grows(f, text), NEW ev, Covers(ev, text),
         NEW lo \in 0..Len(text), NEW hi \in lo..Len(text), NEW i \in 0..(Len(ev) - 1)
  PROVE  Adds(f, ev, text, i + 1, lo, hi)
<1>1. Len(text) \in Nat /\ lo \in Nat /\ hi \in Nat /\ lo <= hi /\ hi <= Len(text) /\ Len(ev) \in Nat
      /\ DOMAIN ev = 1..Len(ev) /\ i + 1 \in 1..Len(ev) /\ i \in 0..Len(ev) /\ i < Len(ev) /\ i + 1 # 0 /\ (i + 1) - 1 = i
  BY ListShape DEF Texts, Covers
<1>2. PICK s, e, c : s = ev[i + 1].start /\ e = ev[i + 1].end /\ c = EndOf(ev, i)
  OBVIOUS
<1>3. s \in Nat /\ e \in Nat /\ s <= e /\ e <= Len(text)
  BY <1>1, <1>2 DEF Covers
<1>4. c \in Nat /\ c <= s
  <2>1. CASE i = 0
    BY <1>2, <1>3, <2>1 DEF EndOf
  <2>2. CASE i # 0
    <3>1. i \in 1..Len(ev) /\ c = ev[i].end
      BY <1>1, <1>2, <2>2 DEF EndOf
    <3> QED
      BY <1>1, <1>2, <3>1 DEF Covers
  <2> QED
    BY <2>1, <2>2
<1>5. PICK L, H, m, d : /\ L = MaxTwo(lo, s) /\ H = MinTwo(hi, e)
                        /\ m = MaxTwo(lo, MinTwo(hi, c)) /\ d = MaxTwo(lo, MinTwo(hi, e))
  OBVIOUS
<1>6. /\ L = LoOf(ev, i + 1, lo) /\ H = HiOf(ev, i + 1, hi)
      /\ m = Done(ev, i, lo, hi) /\ d = Done(ev, i + 1, lo, hi)
  <2>1. EndOf(ev, i + 1) = e
    BY <1>1, <1>2 DEF EndOf
  <2> QED
    BY <1>2, <1>5, <2>1 DEF LoOf, HiOf, Done
<1>7. \A p \in 0..Len(text), q \in 0..Len(text) : p <= q /\ c <= p /\ q <= s => f[q] = f[p]
  <2> SUFFICES ASSUME NEW p \in 0..Len(text), NEW q \in 0..Len(text), p <= q, c <= p, q <= s
               PROVE  f[q] = f[p]
    OBVIOUS
  <2>1. q \in p..Len(text)
    BY <1>1
  <2> QED
    BY <1>1, <1>2, <2>1, NothingBetween
<1>8. L \in Nat /\ H \in Nat /\ m \in Nat /\ d \in Nat
      /\ L <= Len(text) /\ H <= Len(text) /\ m <= Len(text) /\ d <= Len(text)
  BY <1>1, <1>3, <1>4, <1>5 DEF MaxTwo, MinTwo
<1>9. CASE L < H
  <2>1. d = H /\ L \in 0..Len(text) /\ H \in L..Len(text)
    BY <1>1, <1>3, <1>4, <1>5, <1>8, <1>9 DEF MaxTwo, MinTwo
  <2>2. f[L] = f[m]
    <3>1. m = L \/ (m <= L /\ c <= m /\ L <= s)
      BY <1>1, <1>3, <1>4, <1>5, <1>9 DEF MaxTwo, MinTwo
    <3>2. m \in 0..Len(text) /\ L \in 0..Len(text)
      BY <1>1, <1>8
    <3> QED
      BY <1>7, <3>1, <3>2
  <2>3. f[H] = f[L] \o Words(Slice(text, L, H))
    BY <2>1, WordsBetween
  <2> QED
    BY <1>1, <1>6, <1>9, <2>1, <2>2, <2>3 DEF Adds
<1>10. CASE ~(L < H)
  <2>1. d = m \/ (m <= d /\ c <= m /\ d <= s)
    BY <1>1, <1>3, <1>4, <1>5, <1>10 DEF MaxTwo, MinTwo
  <2>2. m \in 0..Len(text) /\ d \in 0..Len(text)
    BY <1>1, <1>8
  <2>3. f[d] = f[m]
    BY <1>7, <2>1, <2>2
  <2> QED
    BY <1>1, <1>6, <1>10, <2>3 DEF Adds
<1> QED
  BY <1>9, <1>10

\* Behind the last chunk nothing grows.
LEMMA LastChunk ==
  ASSUME NEW text \in Texts, NEW f, Grows(f, text), NEW ev, Covers(ev, text),
         NEW lo \in 0..Len(text), NEW hi \in lo..Len(text)
  PROVE  f[Done(ev, 0, lo, hi)] = f[lo] /\ f[Done(ev, Len(ev), lo, hi)] = f[hi]
<1>1. Len(text) \in Nat /\ lo \in Nat /\ hi \in Nat /\ lo <= hi /\ hi <= Len(text) /\ Len(ev) \in Nat
      /\ DOMAIN ev = 1..Len(ev) /\ Len(ev) \in 0..Len(ev)
  BY ListShape DEF Texts, Covers
<1>2. Done(ev, 0, lo, hi) = lo
  BY <1>1 DEF Done, MaxTwo, MinTwo, EndOf
<1>3. PICK c, d : c = EndOf(ev, Len(ev)) /\ d = MaxTwo(lo, MinTwo(hi, c))
  OBVIOUS
<1>4. c \in Nat
  <2>1. CASE Len(ev) = 0
    BY <1>3, <2>1 DEF EndOf
  <2>2. CASE Len(ev) # 0
    <3>1. Len(ev) \in 1..Len(ev) /\ c = ev[Len(ev)].end
      BY <1>1, <1>3, <2>2 DEF EndOf
    <3> QED
      BY <1>1, <3>1 DEF Covers
  <2> QED
    BY <2>1, <2>2
<1>5. d \in 0..Len(text) /\ hi \in d..Len(text) /\ (d = hi \/ c <= d)
  BY <1>1, <1>3, <1>4 DEF MaxTwo, MinTwo
<1>6. f[hi] = f[d]
  <2>1. CASE c <= d
    BY <1>1, <1>3, <1>5, <2>1, NothingBetween
  <2> QED
    BY <1>5, <2>1
<1>7. Done(ev, Len(ev), lo, hi) = d
  BY <1>3 DEF Done
<1> QED
  BY <1>2, <1>6, <1>7

\* A reference to a part of a text.
Reference(r) ==
  r = [document |-> r.document, version |-> r.version, chunk |-> r.chunk,
       start |-> r.start, end |-> r.end, excerpt |-> r.excerpt]

\* A reference that quotes the part that it names.
Quotes(r, text) ==
  /\ r.start \in 0..Len(text) /\ r.end \in r.start..Len(text)
  /\ r.excerpt = Slice(text, r.start, r.end) /\ r.excerpt \in Texts

\* References that quote together the words of a part of a text.
QuoteAll(q, text, lo, hi) ==
  /\ IsList(q) /\ \A k \in DOMAIN q : Quotes(q[k], text)
  /\ FlattenSeq(Excerpts(q)) \in Texts
  /\ Words(FlattenSeq(Excerpts(q))) = Words(Slice(text, lo, hi))

\* Max and Min of two integers are MaxTwo and MinTwo.
LEMMA MaxMinOfTwo ==
  ASSUME NEW a \in Int, NEW b \in Int
  PROVE  Max({a, b}) = MaxTwo(a, b) /\ Min({a, b}) = MinTwo(a, b)
<1>1. Max({a, b}) \in {a, b} /\ Max({a, b}) >= a /\ Max({a, b}) >= b
  BY MaxOfTwo
<1>2. Min({a, b}) \in {a, b} /\ Min({a, b}) <= a /\ Min({a, b}) <= b
  BY MinOfTwo
<1> QED
  BY <1>1, <1>2 DEF MaxTwo, MinTwo

\* What clipping keeps quotes every word of the span.
LEMMA ClippedQuotes ==
  ASSUME NEW text \in Texts, NEW src, NEW ev,
         Covers(ev, text), \A i \in DOMAIN ev : Reference(ev[i]),
         NEW lo \in 0..Len(text), NEW hi \in lo..Len(text)
  PROVE  src.text = text /\ src.evidence = ev => QuoteAll(Clipped(src, lo, hi), text, lo, hi)
<1> DEFINE n == Len(ev)
           all == [i \in DOMAIN ev |->
                     [ev[i] EXCEPT !.start = Max({lo, ev[i].start}), !.end = Min({hi, ev[i].end}),
                        !.excerpt = Slice(text, Max({lo, ev[i].start}), Min({hi, ev[i].end}))]]
           places == {i \in DOMAIN ev : Max({lo, ev[i].start}) < Min({hi, ev[i].end})}
           q == Picked(all, places)
<1>1. src.text = text /\ src.evidence = ev => Clipped(src, lo, hi) = q
  BY Zenon DEF Clipped
<1>2. n \in Nat /\ DOMAIN ev = 1..n /\ Len(text) \in Nat /\ lo \in Int /\ hi \in Int
  BY ListShape DEF Covers, Texts
<1>3. ASSUME NEW i \in DOMAIN ev
      PROVE  /\ Max({lo, ev[i].start}) = LoOf(ev, i, lo)
             /\ Min({hi, ev[i].end}) = HiOf(ev, i, hi)
  <2>1. ev[i].start \in Int /\ ev[i].end \in Int
    BY <1>2, <1>3 DEF Covers
  <2> QED
    BY <1>2, <2>1, MaxMinOfTwo DEF LoOf, HiOf
<1>4. ASSUME NEW i \in DOMAIN ev
      PROVE  /\ all[i].start = LoOf(ev, i, lo) /\ all[i].end = HiOf(ev, i, hi)
             /\ all[i].excerpt = Slice(text, LoOf(ev, i, lo), HiOf(ev, i, hi))
  <2>1. PICK a, b, e : a = LoOf(ev, i, lo) /\ b = HiOf(ev, i, hi) /\ e = Slice(text, a, b)
    OBVIOUS
  <2>2. all[i] = [ev[i] EXCEPT !.start = a, !.end = b, !.excerpt = e]
    BY <1>3, <2>1
  <2>3. Reference(ev[i])
    OBVIOUS
  <2> HIDE DEF all
  <2>4. all[i].start = a /\ all[i].end = b /\ all[i].excerpt = e
    BY <2>2, <2>3 DEF Reference
  <2> QED
    BY <2>1, <2>4
<1>5. places \subseteq 1..n /\ \A i \in 1..n : i \in places <=> LoOf(ev, i, lo) < HiOf(ev, i, hi)
  BY <1>2, <1>3
<1>6. IsList(all) /\ Len(all) = n /\ DOMAIN all = 1..n
  <2>1. all = [i \in DOMAIN ev |-> all[i]] /\ IsList(ev)
    BY DEF Covers
  <2> HIDE DEF all
  <2> QED
    BY <1>2, <2>1, MappedList
<1> HIDE DEF all, places
<1> DEFINE V == {all[i] : i \in 1..n}
           W == {all[i] : i \in places}
<1>7. PICK g : Picks(g, V, all, places)
  <2>1. all \in Seq(V)
    BY <1>6 DEF IsList
  <2> QED
    BY <2>1, PickedSteps
<1>8. PICK f : Grows(f, text)
  BY WordsGrow
<1>9. ASSUME NEW i \in 0..(n - 1)
      PROVE  /\ i + 1 \in places =>
                  /\ Quotes(all[i + 1], text) /\ all[i + 1].excerpt \in Texts
                  /\ f[Done(ev, i + 1, lo, hi)] = f[Done(ev, i, lo, hi)] \o Words(all[i + 1].excerpt)
             /\ i + 1 \notin places => f[Done(ev, i + 1, lo, hi)] = f[Done(ev, i, lo, hi)]
  <2>1. PICK L, H : L = LoOf(ev, i + 1, lo) /\ H = HiOf(ev, i + 1, hi)
    OBVIOUS
  <2>2. /\ L < H => /\ L \in 0..Len(text) /\ H \in L..Len(text)
                     /\ f[Done(ev, i + 1, lo, hi)] = f[Done(ev, i, lo, hi)] \o Words(Slice(text, L, H))
        /\ ~(L < H) => f[Done(ev, i + 1, lo, hi)] = f[Done(ev, i, lo, hi)]
    <3>1. i \in 0..(Len(ev) - 1) /\ (i + 1) - 1 = i
      BY <1>2
    <3>2. Adds(f, ev, text, i + 1, lo, hi)
      BY <1>8, <3>1, NextChunk
    <3> QED
      BY <2>1, <3>1, <3>2 DEF Adds
  <2>3. i + 1 \in 1..n /\ i + 1 \in DOMAIN ev
    BY <1>2
  <2>4. /\ all[i + 1].start = L /\ all[i + 1].end = H /\ all[i + 1].excerpt = Slice(text, L, H)
        /\ i + 1 \in places <=> L < H
    BY <1>4, <1>5, <2>1, <2>3
  <2>5. CASE L < H
    <3>1. Slice(text, L, H) \in Texts
      BY <2>2, <2>5, SliceType
    <3> QED
      BY <2>2, <2>4, <2>5, <3>1 DEF Quotes
  <2>6. CASE ~(L < H)
    BY <2>2, <2>4, <2>6
  <2> QED
    BY <2>5, <2>6
<1>10. \A w \in W : w.excerpt \in Texts /\ Quotes(w, text)
  <2> SUFFICES ASSUME NEW j \in places PROVE all[j].excerpt \in Texts /\ Quotes(all[j], text)
    OBVIOUS
  <2>1. j - 1 \in 0..(n - 1) /\ (j - 1) + 1 = j
    BY <1>2, <1>5
  <2> QED
    BY <1>9, <2>1
<1>11. /\ g[0] = <<>> /\ q = g[n]
       /\ \A i \in 1..n : g[i] = IF i \in places THEN Append(g[i - 1], all[i]) ELSE g[i - 1]
  BY <1>6, <1>7 DEF Picks
<1>12. \A i \in 0..n : Done(ev, i, lo, hi) \in lo..hi /\ f[Done(ev, i, lo, hi)] \in Texts
  <2> SUFFICES ASSUME NEW i \in 0..n PROVE Done(ev, i, lo, hi) \in lo..hi /\ f[Done(ev, i, lo, hi)] \in Texts
    OBVIOUS
  <2>1. EndOf(ev, i) \in Int
    BY <1>2 DEF EndOf, Covers
  <2>2. Done(ev, i, lo, hi) \in lo..hi
    BY <1>2, <2>1 DEF Done, MaxTwo, MinTwo
  <2>3. Done(ev, i, lo, hi) \in 0..Len(text)
    BY <1>2, <2>2
  <2> QED
    BY <1>8, <2>2, <2>3 DEF Grows
<1>13. f[lo] \in Texts /\ f[hi] \in Texts /\ lo \in 0..Len(text) /\ hi \in 0..Len(text)
  <2>1. lo \in 0..Len(text) /\ hi \in 0..Len(text)
    BY <1>2
  <2> QED
    BY <1>8, <2>1 DEF Grows
<1> HIDE DEF V, W, n
<1> DEFINE Told(i) == FlattenSeq(Excerpts(g[i]))
           T == {i \in 0..n : /\ g[i] \in Seq(W) /\ Told(i) \in Texts
                              /\ f[Done(ev, i, lo, hi)] = f[lo] \o Words(Told(i))}
<1>14. 0 \in T
  <2>1. <<>> \in Seq(W) /\ Excerpts(<<>>) = <<>> /\ <<>> \in Texts
    BY DEF Excerpts, Texts
  <2>2. Told(0) = <<>>
    BY <1>11, <2>1, FlattenNothing
  <2>3. f[lo] \o <<>> = f[lo]
    BY <1>13 DEF Texts
  <2>4. f[Done(ev, 0, lo, hi)] = f[lo]
    BY <1>8, LastChunk
  <2>5. 0 \in 0..n
    BY <1>2
  <2> HIDE DEF Told
  <2> QED
    BY <1>11, <2>1, <2>2, <2>3, <2>4, <2>5, WordsOfNothing
<1>15. ASSUME NEW i \in 0..(n - 1), i \in T PROVE i + 1 \in T
  <2>1. i + 1 \in 1..n /\ i + 1 \in 0..n /\ (i + 1) - 1 = i
    BY <1>2
  <2>2. g[i + 1] = IF i + 1 \in places THEN Append(g[i], all[i + 1]) ELSE g[i]
    BY <1>11, <2>1
  <2>3. CASE i + 1 \notin places
    <3>1. g[i + 1] = g[i]
      BY <2>2, <2>3
    <3>2. Told(i + 1) = Told(i)
      BY <3>1
    <3> QED
      BY <1>9, <1>15, <2>1, <2>3, <3>1, <3>2
  <2>4. CASE i + 1 \in places
    <3>1. PICK r, e : r = all[i + 1] /\ e = r.excerpt
      OBVIOUS
    <3>2. r \in W /\ e \in Texts /\ g[i] \in Seq(W) /\ g[i + 1] = Append(g[i], r)
      BY <1>9, <1>15, <2>2, <2>4, <3>1 DEF W
    <3>3. Excerpts(g[i]) \in Seq(Texts) /\ Excerpts(g[i + 1]) = Append(Excerpts(g[i]), e)
      BY <1>10, <3>1, <3>2, ExcerptsMore
    <3>4. Told(i + 1) = Told(i) \o e
      BY <3>2, <3>3, FlattenMore
    <3>5. PICK a, b : a = Told(i) /\ b = Told(i + 1)
      OBVIOUS
    <3> HIDE DEF Told
    <3>6. a \in Texts /\ b \in Texts /\ Words(b) = Words(a) \o Words(e)
      BY <1>15, <3>2, <3>4, <3>5, WordsOfTwo
    <3>7. PICK x, y, z : x = f[lo] /\ y = Words(a) /\ z = Words(e)
      OBVIOUS
    <3>8. x \in Texts /\ y \in Texts /\ z \in Texts
      BY <1>13, <3>2, <3>6, <3>7, WordsType
    <3>9. f[Done(ev, i + 1, lo, hi)] = (x \o y) \o z
      BY <1>9, <1>15, <2>4, <3>1, <3>5, <3>7
    <3>10. (x \o y) \o z = x \o (y \o z)
      <4>1. x \in Seq(Vocabulary) /\ y \in Seq(Vocabulary) /\ z \in Seq(Vocabulary)
        BY <3>8 DEF Texts
      <4> QED
        BY ONLY <4>1, ConcatAssociative
    <3>11. f[Done(ev, i + 1, lo, hi)] = f[lo] \o Words(b)
      BY <3>6, <3>7, <3>9, <3>10
    <3>12. g[i + 1] \in Seq(W)
      BY <3>2
    <3> QED
      BY <2>1, <3>5, <3>6, <3>11, <3>12
  <2> QED
    BY <2>3, <2>4
<1>16. n \in T
  <2>1. n \in Nat /\ n \in 0..n
    BY <1>2 DEF n
  <2> HIDE DEF T
  <2> QED
    BY <1>14, <1>15, <2>1, Upwards
<1>17. q \in Seq(W) /\ FlattenSeq(Excerpts(q)) \in Texts
       /\ f[Done(ev, n, lo, hi)] = f[lo] \o Words(FlattenSeq(Excerpts(q)))
  BY <1>11, <1>16
<1> HIDE DEF T, q
<1>18. Words(FlattenSeq(Excerpts(q))) = Words(Slice(text, lo, hi))
  <2>1. PICK x, y, z : x = f[lo] /\ y = Words(FlattenSeq(Excerpts(q))) /\ z = Words(Slice(text, lo, hi))
    OBVIOUS
  <2>2. f[hi] = x \o y /\ f[hi] = x \o z
    <3>1. f[Done(ev, n, lo, hi)] = f[hi]
      BY <1>8, LastChunk DEF n
    <3>2. f[hi] = f[lo] \o Words(Slice(text, lo, hi))
      <4>1. Grows(f, text)
        BY <1>8
      <4>2. text \in Texts /\ lo \in 0..Len(text) /\ hi \in lo..Len(text)
        OBVIOUS
      <4> QED
        BY <4>1, <4>2, WordsBetween
    <3> QED
      BY <1>17, <2>1, <3>1, <3>2
  <2>3. x \in Texts /\ y \in Texts /\ z \in Texts
    BY <1>13, <1>17, <2>1, SliceType, WordsType
  <2>4. y = z
    BY <2>2, <2>3, ConcatSimplifications DEF Texts
  <2> QED
    BY <2>1, <2>4
<1>19. IsList(q) /\ \A k \in DOMAIN q : Quotes(q[k], text)
  <2>1. IsList(q)
    <3>1. Len(q) \in Nat /\ q = [k \in 1..Len(q) |-> q[k]]
      BY <1>17
    <3> QED
      BY <3>1, ListMade
  <2>2. \A k \in 1..Len(q) : q[k] \in W
    BY <1>17, ElementOfSeq
  <2>3. DOMAIN q = 1..Len(q)
    BY <1>17
  <2> QED
    BY <1>10, <2>1, <2>2, <2>3
<1> QED
  BY <1>1, <1>17, <1>18, <1>19 DEF QuoteAll

-----------------------------------------------------------------------------
(* Assembled texts are covered by their evidence *)

\* Chunks as they lie in a text.
Laid(S, parts, text, k) ==
  /\ \A i \in 1..k : /\ S[i] \in Nat /\ S[i] + Len(parts[i]) <= Len(text)
                     /\ \A x \in 1..Len(parts[i]) : text[S[i] + x] = parts[i][x]
  /\ \A i, j \in 1..k : i < j => S[i] + Len(parts[i]) <= S[j]
  /\ \A p \in 1..Len(text) : text[p] = "nl" \/ \E i \in 1..k : S[i] < p /\ p <= S[i] + Len(parts[i])
  /\ Len(text) = S[k] + Len(parts[k])

\* The starts of the parts leave room for two line breaks.
Places(S, parts) ==
  /\ S[1] = 0
  /\ \A i \in 1..Len(parts) : S[i] \in Nat
  /\ \A i \in 1..(Len(parts) - 1) : S[i + 1] = S[i] + Len(parts[i]) + 2

\* assemble_text's running position gives such starts.
LEMMA StartsArePlaces ==
  ASSUME NEW parts, Chunks(parts), parts # <<>>
  PROVE  Places(Starts(parts), parts)
<1> DEFINE n == Len(parts)
           step == [p \in (1..n) \X Nat |-> IF p[1] = 1 THEN 0 ELSE p[2] + Len(parts[p[1] - 1]) + 2]
           E(at) == at = [i \in DOMAIN parts |-> IF i = 1 THEN 0 ELSE at[i - 1] + Len(parts[i - 1]) + 2]
           u == CHOOSE at : E(at)
<1>1. n \in Nat \ {0} /\ DOMAIN parts = 1..n
  BY DEF Chunks
<1>2. \A i \in 1..n : Len(parts[i]) \in Nat
  BY ElementOfSeq DEF Chunks, Texts
<1>3. Starts(parts) = u
  BY Zenon DEF Starts
<1> HIDE DEF n
<1>4. \A i \in 1..n, a \in Nat : step[<<i, a>>] = IF i = 1 THEN 0 ELSE a + Len(parts[i - 1]) + 2
  OBVIOUS
<1>5. step \in [(1..n) \X Nat -> Nat]
  <2>1. \A i \in 1..n : i # 1 => i - 1 \in 1..n
    BY <1>1
  <2>2. \A i \in 1..n, a \in Nat : (IF i = 1 THEN 0 ELSE a + Len(parts[i - 1]) + 2) \in Nat
    BY <1>2, <2>1
  <2> QED
    BY <2>2
<1> HIDE DEF step
<1>6. PICK h : Recursion(h, n, Nat, 0, step)
  BY <1>1, <1>5, NatRecursion
<1>7. h \in [0..n -> Nat] /\ \A i \in 1..n : h[i] = step[<<i, h[i - 1]>>]
  BY <1>6 DEF Recursion
<1>8. \A i \in 1..n : h[i] \in Nat /\ h[i] = IF i = 1 THEN 0 ELSE h[i - 1] + Len(parts[i - 1]) + 2
  <2>1. \A i \in 1..n : i \in 0..n /\ i - 1 \in 0..n
    BY <1>1
  <2> QED
    BY <1>4, <1>7, <2>1
<1>9. \E at : E(at)
  <2> DEFINE g == [i \in 1..n |-> h[i]]
  <2>1. \A i \in 1..n : g[i] = IF i = 1 THEN 0 ELSE g[i - 1] + Len(parts[i - 1]) + 2
    <3> SUFFICES ASSUME NEW i \in 1..n PROVE g[i] = IF i = 1 THEN 0 ELSE g[i - 1] + Len(parts[i - 1]) + 2
      OBVIOUS
    <3>1. i # 1 => i - 1 \in 1..n
      BY <1>1
    <3> QED
      BY <1>8, <3>1
  <2>2. g = [i \in 1..n |-> g[i]]
    OBVIOUS
  <2> HIDE DEF g
  <2>3. E(g)
    BY <1>1, <2>1, <2>2, Zenon
  <2> QED
    BY <2>3
<1>10. E(u)
  BY <1>9
<1> HIDE DEF u
<1>11. u[1] = 0 /\ \A i \in 1..(n - 1) : u[i + 1] = u[i] + Len(parts[i]) + 2
  <2>1. 1 \in 1..n /\ \A i \in 1..(n - 1) : i + 1 \in 1..n /\ i + 1 # 1 /\ (i + 1) - 1 = i
    BY <1>1
  <2> QED
    BY <1>1, <1>10, <2>1
<1>12. \A i \in 1..n : u[i] \in Nat
  <2> DEFINE T == {k \in 0..n : k = 0 \/ u[k] \in Nat}
  <2>1. 0 \in T
    BY <1>1
  <2>2. ASSUME NEW k \in 0..(n - 1), k \in T PROVE k + 1 \in T
    <3>1. CASE k = 0
      BY <1>1, <1>11, <3>1
    <3>2. CASE k # 0
      <4>1. k \in 1..(n - 1) /\ k \in 1..n /\ k + 1 \in 0..n
        BY <1>1, <3>2
      <4>2. u[k] \in Nat /\ Len(parts[k]) \in Nat /\ u[k + 1] = u[k] + Len(parts[k]) + 2
        BY <1>2, <1>11, <2>2, <3>2, <4>1
      <4> QED
        BY <4>1, <4>2
    <3> QED
      BY <3>1, <3>2
  <2> HIDE DEF T
  <2>3. \A k \in 0..n : k \in T
    BY <1>1, <2>1, <2>2, Upwards
  <2> QED
    BY <1>1, <2>3 DEF T
<1> QED
  BY <1>3, <1>11, <1>12 DEF Places, n

\* One chunk more.
LEMMA LaidNext ==
  ASSUME NEW S, NEW parts, Chunks(parts), Places(S, parts), NEW k \in 1..(Len(parts) - 1),
         NEW text \in Texts, Laid(S, parts, text, k)
  PROVE  Laid(S, parts, text \o <<"nl", "nl">> \o parts[k + 1], k + 1)
<1>1. PICK part, new, a, b, n : /\ part = parts[k + 1] /\ new = text \o <<"nl", "nl">> \o part
                                /\ a = Len(text) /\ b = Len(part) /\ n = Len(parts)
  OBVIOUS
<1>2. k \in Nat /\ k \in 1..n /\ k + 1 \in 1..n /\ n \in Nat /\ \A i \in 1..k : i \in 1..n
  BY <1>1 DEF Chunks
<1>3. \A i \in 1..n : Len(parts[i]) \in Nat /\ S[i] \in Nat
  BY <1>1, ElementOfSeq DEF Chunks, Texts, Places
<1>4. part \in Texts /\ a \in Nat /\ b \in Nat
  <2>1. part \in Texts
    BY <1>1, <1>2, ElementOfSeq DEF Chunks
  <2> QED
    BY <1>1, <2>1 DEF Texts
<1>5. /\ new \in Texts /\ Len(new) = a + 2 + b
      /\ \A p \in 1..a : new[p] = text[p]
      /\ new[a + 1] = "nl" /\ new[a + 2] = "nl"
      /\ \A x \in 1..b : new[a + 2 + x] = part[x]
  <2>1. PICK gap : gap = <<"nl", "nl">>
    OBVIOUS
  <2>2. gap \in Texts /\ Len(gap) = 2 /\ gap[1] = "nl" /\ gap[2] = "nl"
    BY <2>1, WrittenTexts
  <2>3. new = text \o gap \o part
    BY <1>1, <2>1, Zenon
  <2>4. text \in Seq(Vocabulary) /\ part \in Seq(Vocabulary) /\ gap \in Seq(Vocabulary)
    BY <1>4, <2>2 DEF Texts
  <2>5. PICK head : head = text \o gap
    OBVIOUS
  <2>6. /\ head \in Seq(Vocabulary) /\ Len(head) = a + 2
        /\ \A p \in 1..a : head[p] = text[p]
        /\ head[a + 1] = "nl" /\ head[a + 2] = "nl"
    <3>1. /\ head \in Seq(Vocabulary) /\ Len(head) = Len(text) + Len(gap)
          /\ \A p \in 1..Len(head) : head[p] = IF p <= Len(text) THEN text[p] ELSE gap[p - Len(text)]
      BY <2>4, <2>5, ConcatProperties
    <3>2. Len(text) = a /\ Len(gap) = 2 /\ Len(head) = a + 2
      BY <1>1, <2>2, <3>1
    <3>3. /\ \A p \in 1..a : p \in 1..(a + 2) /\ p <= a
          /\ a + 1 \in 1..(a + 2) /\ ~(a + 1 <= a) /\ (a + 1) - a = 1
          /\ a + 2 \in 1..(a + 2) /\ ~(a + 2 <= a) /\ (a + 2) - a = 2
      BY <1>4
    <3> QED
      BY <2>2, <3>1, <3>2, <3>3
  <2>7. /\ new \in Seq(Vocabulary) /\ Len(new) = a + 2 + b
        /\ \A p \in 1..(a + 2) : new[p] = head[p]
        /\ \A x \in 1..b : new[a + 2 + x] = part[x]
    BY <1>1, <1>4, <2>3, <2>4, <2>5, <2>6
  <2>8. \A p \in 1..a : p \in 1..(a + 2)
    BY <1>4
  <2>9. a + 1 \in 1..(a + 2) /\ a + 2 \in 1..(a + 2)
    BY <1>4
  <2> QED
    BY <2>6, <2>7, <2>8, <2>9 DEF Texts
<1>6. S[k + 1] = a + 2
  <2>1. a = S[k] + Len(parts[k]) /\ S[k + 1] = S[k] + Len(parts[k]) + 2
    BY <1>1 DEF Laid, Places
  <2> QED
    BY <2>1
<1>7. \A i \in 1..(k + 1) : i \in 1..k \/ i = k + 1
  BY <1>2
<1>8. /\ \A i \in 1..k : /\ S[i] + Len(parts[i]) <= a
                         /\ \A x \in 1..Len(parts[i]) : text[S[i] + x] = parts[i][x]
      /\ \A i, j \in 1..k : i < j => S[i] + Len(parts[i]) <= S[j]
      /\ \A p \in 1..a : text[p] = "nl" \/ \E i \in 1..k : S[i] < p /\ p <= S[i] + Len(parts[i])
  BY <1>1 DEF Laid
<1>9. ASSUME NEW i \in 1..(k + 1)
      PROVE  /\ S[i] \in Nat /\ S[i] + Len(parts[i]) <= Len(new)
             /\ \A x \in 1..Len(parts[i]) : new[S[i] + x] = parts[i][x]
  <2>1. CASE i = k + 1
    <3>1. parts[i] = part /\ S[i] = a + 2 /\ Len(part) = b
      BY <1>1, <1>6, <2>1
    <3> QED
      BY <1>4, <1>5, <3>1
  <2>2. CASE i \in 1..k
    <3>1. S[i] \in Nat /\ Len(parts[i]) \in Nat /\ S[i] + Len(parts[i]) <= a
      BY <1>2, <1>3, <1>8, <2>2
    <3>2. \A x \in 1..Len(parts[i]) : S[i] + x \in 1..a
      BY <1>4, <3>1
    <3>3. \A x \in 1..Len(parts[i]) : new[S[i] + x] = text[S[i] + x]
      BY <1>5, <3>2
    <3>4. S[i] + Len(parts[i]) <= Len(new)
      BY <1>4, <1>5, <3>1
    <3> QED
      BY <1>8, <2>2, <3>1, <3>3, <3>4
  <2> QED
    BY <1>7, <2>1, <2>2
<1>10. ASSUME NEW i \in 1..(k + 1), NEW j \in 1..(k + 1), i < j
       PROVE  S[i] + Len(parts[i]) <= S[j]
  <2>1. i \in 1..k
    BY <1>2, <1>10
  <2>2. CASE j \in 1..k
    BY <1>8, <1>10, <2>1, <2>2
  <2>3. CASE j = k + 1
    BY <1>2, <1>3, <1>4, <1>6, <1>8, <2>1, <2>3
  <2> QED
    BY <1>7, <2>2, <2>3
<1>11. ASSUME NEW p \in 1..Len(new)
       PROVE  new[p] = "nl" \/ \E i \in 1..(k + 1) : S[i] < p /\ p <= S[i] + Len(parts[i])
  <2>1. p \in 1..a \/ p = a + 1 \/ p = a + 2 \/ (a + 2 < p /\ p <= a + 2 + b)
    BY <1>4, <1>5
  <2>2. CASE p \in 1..a
    <3>1. text[p] = "nl" \/ \E i \in 1..k : S[i] < p /\ p <= S[i] + Len(parts[i])
      BY <1>8, <2>2
    <3>2. \A i \in 1..k : i \in 1..(k + 1)
      BY <1>2
    <3> QED
      BY <1>5, <2>2, <3>1, <3>2
  <2>3. CASE a + 2 < p /\ p <= a + 2 + b
    <3>1. k + 1 \in 1..(k + 1) /\ S[k + 1] < p /\ p <= S[k + 1] + Len(parts[k + 1])
      <4>1. Len(parts[k + 1]) = b
        BY <1>1
      <4> QED
        BY <1>2, <1>4, <1>6, <2>3, <4>1
    <3> QED
      BY <3>1
  <2> QED
    BY <1>5, <2>1, <2>2, <2>3
<1>12. Len(new) = S[k + 1] + Len(parts[k + 1])
  BY <1>1, <1>5, <1>6
<1>13. Laid(S, parts, new, k + 1)
  BY <1>9, <1>10, <1>11, <1>12 DEF Laid
<1> QED
  BY <1>1, <1>13, Zenon

\* Every chunk of an assembled text stands where its evidence says.
LEMMA ChunksAreLaid ==
  ASSUME NEW parts, Chunks(parts), parts # <<>>
  PROVE  Laid(Starts(parts), parts, Joined(parts, <<"nl", "nl">>), Len(parts))
<1> DEFINE n == Len(parts)
           gap == <<"nl", "nl">>
<1>1. PICK S : S = Starts(parts)
  OBVIOUS
<1>2. Places(S, parts)
  BY <1>1, StartsArePlaces
<1>3. n \in Nat \ {0} /\ \A i \in 1..n : parts[i] \in Texts /\ parts[i] # <<>>
  BY ElementOfSeq DEF Chunks
<1>4. gap \in Texts
  BY WrittenTexts
<1>5. PICK f : Joins(f, Vocabulary, parts, gap)
  BY <1>4, JoinSteps DEF Texts, Chunks
<1> HIDE DEF n, gap
<1>6. /\ f[0] = <<>> /\ Joined(parts, gap) = f[n] /\ f \in [0..n -> Texts]
      /\ \A i \in 1..n : f[i] = IF f[i - 1] = <<>> THEN parts[i] ELSE f[i - 1] \o gap \o parts[i]
  BY <1>5 DEF Joins, n, Texts
<1> DEFINE T == {k \in 0..n : k = 0 \/ (f[k] \in Texts /\ f[k] # <<>> /\ Laid(S, parts, f[k], k))}
<1>7. 0 \in T
  BY <1>3
<1>8. ASSUME NEW k \in 0..(n - 1), k \in T PROVE k + 1 \in T
  <2>1. k + 1 \in 1..n /\ k + 1 \in 0..n /\ (k + 1) - 1 = k
    BY <1>3
  <2>2. CASE k = 0
    <3>1. PICK t : t = parts[1]
      OBVIOUS
    <3>2. f[1] = t /\ t \in Texts /\ t # <<>> /\ Len(t) \in Nat
      BY <1>3, <1>6, <2>1, <2>2, <3>1 DEF Texts
    <3>3. Laid(S, parts, t, 1)
      <4>1. S[1] = 0 /\ \A i \in 1..1 : i = 1
        BY <1>2 DEF Places
      <4>2. 1 \in 1..1 /\ \A p \in 1..Len(t) : 0 < p /\ p <= 0 + Len(t)
        BY <3>2
      <4>3. \A x \in 1..Len(t) : 0 + x = x
        OBVIOUS
      <4> QED
        BY <3>1, <3>2, <4>1, <4>2, <4>3 DEF Laid
    <3> QED
      BY <2>1, <2>2, <3>2, <3>3
  <2>3. CASE k # 0
    <3>1. PICK t, part : t = f[k] /\ part = parts[k + 1]
      OBVIOUS
    <3>2. t \in Texts /\ t # <<>> /\ Laid(S, parts, t, k)
      BY <1>8, <2>3, <3>1
    <3>3. part \in Texts /\ f[k + 1] = t \o gap \o part
      BY <1>3, <1>6, <2>1, <3>1, <3>2
    <3>4. k \in 1..(Len(parts) - 1)
      BY <1>3, <2>3 DEF n
    <3>5. Laid(S, parts, t \o gap \o part, k + 1)
      BY <1>2, <3>1, <3>2, <3>4, LaidNext DEF gap
    <3>6. t \o gap \o part \in Texts /\ t \o gap \o part # <<>>
      <4>1. Len(t) > 0
        BY <3>2 DEF Texts
      <4>2. Len(t \o gap \o part) = Len(t) + Len(gap) + Len(part)
        BY <1>4, <3>2, <3>3 DEF Texts
      <4> QED
        BY <1>4, <3>2, <3>3, <4>1, <4>2 DEF Texts
    <3> QED
      BY <2>1, <3>3, <3>5, <3>6
  <2> QED
    BY <2>2, <2>3
<1>9. n \in T
  <2>1. n \in Nat /\ n \in 0..n
    BY <1>3
  <2> HIDE DEF T
  <2> QED
    BY <1>7, <1>8, <2>1, Upwards
<1>10. Laid(S, parts, f[n], n)
  BY <1>3, <1>9
<1> QED
  BY <1>1, <1>6, <1>10 DEF n, gap

\* A text whose evidence quotes all of its words.
Sourced(s) ==
  /\ s.text \in Texts /\ Covers(s.evidence, s.text)
  /\ \A i \in DOMAIN s.evidence : Reference(s.evidence[i])

\* What the references that assembly leaves say of the chunks.
Cites(ev, S, parts, document, version) ==
  /\ IsList(ev) /\ Len(ev) = Len(parts) /\ DOMAIN ev = 1..Len(parts)
  /\ \A i \in 1..Len(parts) :
       /\ ev[i] = [document |-> document, version |-> version, chunk |-> i,
                   start |-> S[i], end |-> S[i] + Len(parts[i]), excerpt |-> parts[i]]
       /\ ev[i].document = document /\ ev[i].version = version /\ ev[i].chunk = i
       /\ ev[i].start = S[i] /\ ev[i].end = S[i] + Len(parts[i]) /\ ev[i].excerpt = parts[i]

\* The evidence of a source cites its parts.
LEMMA SourceCites ==
  ASSUME NEW parts, Chunks(parts), NEW document, NEW version
  PROVE  Cites(SourceFrom(parts, document, version).evidence, Starts(parts), parts, document, version)
<1> DEFINE ev == [i \in DOMAIN parts |->
                    [document |-> document, version |-> version, chunk |-> i,
                     start |-> Starts(parts)[i], end |-> Starts(parts)[i] + Len(parts[i]),
                     excerpt |-> parts[i]]]
<1>1. SourceFrom(parts, document, version).evidence = ev
  BY DEF SourceFrom
<1>2. DOMAIN parts = 1..Len(parts) /\ Len(parts) \in Nat
  BY DEF Chunks
<1>3. ev = [i \in 1..Len(parts) |-> ev[i]]
  BY <1>2
<1>4. \A i \in 1..Len(parts) :
        ev[i] = [document |-> document, version |-> version, chunk |-> i,
                 start |-> Starts(parts)[i], end |-> Starts(parts)[i] + Len(parts[i]),
                 excerpt |-> parts[i]]
  BY <1>2
<1> HIDE DEF ev
<1>5. IsList(ev) /\ Len(ev) = Len(parts) /\ DOMAIN ev = 1..Len(parts)
  BY <1>2, <1>3, ListMade
<1> QED
  BY <1>1, <1>4, <1>5 DEF Cites

\* Evidence that cites the parts of a text covers all of its words.
LEMMA LaidIsCovered ==
  ASSUME NEW parts, Chunks(parts), NEW S, NEW text \in Texts, Laid(S, parts, text, Len(parts)),
         NEW ev, NEW document, NEW version, Cites(ev, S, parts, document, version)
  PROVE  Covers(ev, text) /\ \A i \in DOMAIN ev : Reference(ev[i])
<1> DEFINE n == Len(parts)
<1>1. n \in Nat /\ Len(text) \in Nat /\ \A i \in 1..n : Len(parts[i]) \in Nat
  BY ElementOfSeq DEF Chunks, Texts
<1>2. IsList(ev) /\ Len(ev) = n /\ DOMAIN ev = 1..n
      /\ \A i \in 1..n : ev[i].start = S[i] /\ ev[i].end = S[i] + Len(parts[i])
  BY DEF Cites
<1>3. \A i \in DOMAIN ev : Reference(ev[i])
  BY DEF Cites, Reference
<1>4. \A i \in 1..n : S[i] \in Nat /\ S[i] + Len(parts[i]) <= Len(text)
  BY DEF Laid
<1>5. \A i \in DOMAIN ev : ev[i].start \in 0..Len(text) /\ ev[i].end \in ev[i].start..Len(text)
  BY <1>1, <1>2, <1>4
<1>6. \A i, k \in DOMAIN ev : i < k => ev[i].end <= ev[k].start
  BY <1>2 DEF Laid
<1>7. \A p \in 1..Len(text) :
        text[p] \in Blank \/ \E i \in DOMAIN ev : ev[i].start < p /\ p <= ev[i].end
  <2>1. "nl" \in Blank
    BY DEF Blank, Gaps
  <2>2. \A p \in 1..Len(text) : text[p] = "nl" \/ \E i \in 1..n : S[i] < p /\ p <= S[i] + Len(parts[i])
    BY DEF Laid
  <2> QED
    BY <1>2, <2>1, <2>2
<1> QED
  BY <1>2, <1>3, <1>5, <1>6, <1>7 DEF Covers

\* Between the chunks there are only line breaks.
LEMMA GapsAreStripped ==
  ASSUME NEW parts, Chunks(parts), NEW S, NEW text \in Texts, Laid(S, parts, text, Len(parts)),
         NEW i \in 0..Len(parts), NEW lo \in 0..Len(text), NEW hi \in lo..Len(text),
         i > 0 => S[i] + Len(parts[i]) <= lo, i < Len(parts) => hi <= S[i + 1]
  PROVE  Strip(Slice(text, lo, hi)) = <<>>
<1> DEFINE n == Len(parts)
<1>1. n \in Nat /\ Len(text) \in Nat /\ lo \in Nat /\ hi \in Nat /\ lo <= hi /\ hi <= Len(text)
      /\ \A k \in 1..n : Len(parts[k]) \in Nat
  BY ElementOfSeq DEF Chunks, Texts
<1>2. \A k \in 1..n : S[k] \in Nat
  BY DEF Laid
<1>3. \A j, k \in 1..n : j < k => S[j] + Len(parts[j]) <= S[k]
  BY DEF Laid
<1>4. ASSUME NEW p \in (lo + 1)..hi PROVE text[p] = "nl"
  <2>1. p \in 1..Len(text) /\ lo < p /\ p <= hi
    BY <1>1
  <2>2. SUFFICES ASSUME NEW k \in 1..n, S[k] < p, p <= S[k] + Len(parts[k]) PROVE FALSE
    BY <2>1 DEF Laid
  <2>3. CASE k <= i
    <3>1. i \in 1..n /\ i > 0
      BY <1>1, <2>3
    <3>2. PICK a, b, c, d : a = S[k] /\ b = Len(parts[k]) /\ c = S[i] /\ d = Len(parts[i])
      OBVIOUS
    <3>3. a \in Nat /\ b \in Nat /\ c \in Nat /\ d \in Nat /\ c + d <= lo /\ p <= a + b
      BY <1>1, <1>2, <2>2, <3>1, <3>2
    <3>4. a + b <= c + d
      <4>1. CASE k = i
        BY <3>2, <3>3, <4>1
      <4>2. CASE k # i
        <5>1. k < i
          BY <1>1, <2>3, <3>1, <4>2
        <5>2. a + b <= c
          BY <1>3, <3>1, <3>2, <5>1
        <5> QED
          BY <3>3, <5>2
      <4> QED
        BY <4>1, <4>2
    <3> QED
      BY <1>1, <2>1, <3>3, <3>4
  <2>4. CASE i < k
    <3>1. i + 1 \in 1..n /\ i < n
      BY <1>1, <2>4
    <3>2. S[i + 1] <= S[k]
      <4>1. CASE k = i + 1
        BY <1>2, <4>1
      <4>2. CASE k # i + 1
        <5>1. S[i + 1] + Len(parts[i + 1]) <= S[k]
          BY <1>1, <1>3, <2>4, <3>1, <4>2
        <5> QED
          BY <1>1, <1>2, <3>1, <5>1
      <4> QED
        BY <4>1, <4>2
    <3> QED
      BY <1>1, <1>2, <2>1, <2>2, <3>1, <3>2
  <2> QED
    BY <1>1, <2>3, <2>4
<1>5. PICK t : t = Slice(text, lo, hi)
  OBVIOUS
<1>6. t \in Texts /\ Len(t) = hi - lo /\ \A x \in 1..(hi - lo) : t[x] = text[lo + x]
  BY <1>1, <1>5, SliceType
<1>7. \A x \in DOMAIN t : t[x] \in Gaps
  <2> SUFFICES ASSUME NEW x \in 1..(hi - lo) PROVE t[x] \in Gaps
    BY <1>6 DEF Texts
  <2>1. lo + x \in (lo + 1)..hi
    BY <1>1
  <2> QED
    BY <1>4, <1>6, <2>1 DEF Gaps
<1>8. Strip(t) = <<>>
  <2> DEFINE ink == {x \in DOMAIN t : t[x] \notin Gaps}
  <2>1. ink = {}
    BY <1>7
  <2>2. Strip(t) = IF ink = {} THEN <<>> ELSE SubSeq(t, Min(ink), Max(ink))
    BY Zenon DEF Strip
  <2> QED
    BY <2>1, <2>2
<1> QED
  BY <1>5, <1>8

\* No check fails.
LEMMA AllChecksPass ==
  ASSUME NEW n \in Nat, NEW checks, DOMAIN checks = 1..n, \A i \in 1..n : ~checks[i][1]
  PROVE  FirstFault(checks) = ""
  BY FirstFaultFound

\* What validate_source asks of a reference.
Misplaced(s, prev, i) ==
  LET ev == s.evidence
  IN \/ ev[i].start < prev[i] \/ ev[i].end > Len(s.text)
     \/ Slice(s.text, ev[i].start, ev[i].end) # ev[i].excerpt
     \/ \E k \in 1..(i - 1) : ev[k].chunk = ev[i].chunk
     \/ Strip(Slice(s.text, prev[i], ev[i].start)) # <<>>

\* The end of the reference before.
Before(ev) == [i \in DOMAIN ev |-> IF i = 1 THEN 0 ELSE ev[i - 1].end]

\* Whatever extraction assembles within the limit, analysis accepts.
LEMMA AssembledIsAccepted ==
  ASSUME NEW parts, Chunks(parts), parts # <<>>, NEW document, NEW version, NEW s
  PROVE  s = SourceFrom(parts, document, version) =>
           /\ Sourced(s)
           /\ Len(s.text) <= MaxTextChars => SourceError(s, document, version) = ""
<1> SUFFICES ASSUME s = SourceFrom(parts, document, version)
             PROVE  /\ Sourced(s)
                    /\ Len(s.text) <= MaxTextChars => SourceError(s, document, version) = ""
  OBVIOUS
<1> DEFINE n == Len(parts)
<1>1. PICK text, ev, S : text = s.text /\ ev = s.evidence /\ S = Starts(parts)
  OBVIOUS
<1>2. text = Joined(parts, <<"nl", "nl">>)
  BY <1>1 DEF SourceFrom
<1>3. text \in Texts /\ Len(text) \in Nat
  BY <1>2, JoinedLength
<1>4. Laid(S, parts, text, n)
  BY <1>1, <1>2, ChunksAreLaid
<1>5. Cites(ev, S, parts, document, version)
  BY <1>1, SourceCites
<1>6. Sourced(s)
  <2>1. Covers(ev, text) /\ \A i \in DOMAIN ev : Reference(ev[i])
    BY <1>3, <1>4, <1>5, LaidIsCovered
  <2> QED
    BY <1>1, <1>3, <2>1 DEF Sourced
<1>7. n \in Nat \ {0} /\ \A i \in 1..n : parts[i] \in Texts /\ Len(parts[i]) \in Nat
  BY ElementOfSeq DEF Chunks, Texts
<1>8. Len(ev) = n /\ DOMAIN ev = 1..n /\ IsList(ev)
      /\ \A i \in 1..n : /\ ev[i].document = document /\ ev[i].version = version /\ ev[i].chunk = i
                         /\ ev[i].start = S[i] /\ ev[i].end = S[i] + Len(parts[i])
                         /\ ev[i].excerpt = parts[i]
  BY <1>5 DEF Cites
<1>9. /\ \A i \in 1..n : /\ S[i] \in Nat /\ S[i] + Len(parts[i]) <= Len(text)
                         /\ \A x \in 1..Len(parts[i]) : text[S[i] + x] = parts[i][x]
      /\ \A i, j \in 1..n : i < j => S[i] + Len(parts[i]) <= S[j]
      /\ Len(text) = S[n] + Len(parts[n])
  BY <1>4 DEF Laid
<1> HIDE DEF n
<1> DEFINE prev == Before(ev)
<1>10. \A i \in 1..n : prev[i] = IF i = 1 THEN 0 ELSE S[i - 1] + Len(parts[i - 1])
  <2>1. \A i \in 1..n : i # 1 => i - 1 \in 1..n
    BY <1>7
  <2> QED
    BY <1>8, <2>1 DEF Before
<1> HIDE DEF prev
<1>11. ASSUME NEW i \in 1..n PROVE ~Misplaced(s, prev, i)
  <2>1. PICK lo, hi, p, part : lo = S[i] /\ hi = S[i] + Len(part) /\ p = prev[i] /\ part = parts[i]
    OBVIOUS
  <2>2. part \in Texts /\ Len(part) \in Nat /\ lo \in Nat /\ hi = lo + Len(part) /\ hi <= Len(text)
    BY <1>7, <1>9, <2>1
  <2>3. p \in Nat /\ p <= lo
    <3>1. CASE i = 1
      BY <1>10, <2>1, <2>2, <3>1
    <3>2. CASE i # 1
      <4>1. i - 1 \in 1..n /\ i - 1 < i
        BY <1>7, <3>2
      <4> QED
        <5>1. S[i - 1] \in Nat /\ Len(parts[i - 1]) \in Nat /\ S[i - 1] + Len(parts[i - 1]) <= S[i]
          BY <1>7, <1>9, <4>1
        <5>2. p = S[i - 1] + Len(parts[i - 1])
          BY <1>10, <2>1, <3>2
        <5> QED
          BY <2>1, <5>1, <5>2
    <3> QED
      BY <3>1, <3>2
  <2>4. /\ ev[i].start = lo /\ ev[i].end = hi /\ ev[i].excerpt = part
        /\ \A k \in 1..(i - 1) : ev[k].chunk # ev[i].chunk
    <3>1. \A k \in 1..(i - 1) : k \in 1..n /\ k # i
      BY <1>7
    <3> QED
      BY <1>8, <2>1, <3>1
  <2>5. Slice(text, lo, hi) = part
    <3>1. PICK t : t = Slice(text, lo, hi)
      OBVIOUS
    <3>2. lo \in 0..Len(text) /\ hi \in lo..Len(text) /\ hi - lo = Len(part)
      BY <1>3, <2>2
    <3>3. t \in Texts /\ Len(t) = Len(part) /\ \A x \in 1..Len(part) : t[x] = text[lo + x]
      BY <1>3, <3>1, <3>2, SliceType
    <3>4. \A x \in 1..Len(part) : t[x] = part[x]
      BY <1>9, <2>1, <3>3
    <3>5. t = part
      BY <2>2, <3>3, <3>4, SeqEqual DEF Texts
    <3> QED
      BY <3>1, <3>5
  <2>6. Strip(Slice(text, p, lo)) = <<>>
    <3>1. i - 1 \in 0..n /\ (i - 1) + 1 = i /\ p \in 0..Len(text) /\ lo \in p..Len(text)
      BY <1>3, <1>7, <2>2, <2>3
    <3>2. i - 1 > 0 => S[i - 1] + Len(parts[i - 1]) <= p
      <4> SUFFICES ASSUME i - 1 > 0 PROVE S[i - 1] + Len(parts[i - 1]) <= p
        OBVIOUS
      <4>1. i # 1 /\ p = S[i - 1] + Len(parts[i - 1])
        BY <1>10, <2>1
      <4> QED
        BY <2>3, <4>1
    <3>3. i - 1 < n => lo <= S[(i - 1) + 1]
      BY <2>1, <2>2, <3>1
    <3> QED
      BY <1>3, <1>4, <3>1, <3>2, <3>3, GapsAreStripped DEF n
  <2> QED
    BY <1>1, <2>1, <2>2, <2>3, <2>4, <2>5, <2>6 DEF Misplaced
<1>12. PICK last : last = S[n] + Len(parts[n])
  OBVIOUS
<1>13. Strip(Slice(text, last, Len(text))) = <<>>
  <2>1. n \in 1..n /\ n \in 0..n /\ last \in 0..Len(text) /\ Len(text) \in last..Len(text) /\ ~(n < n)
    BY <1>3, <1>7, <1>9, <1>12
  <2>2. n > 0 => S[n] + Len(parts[n]) <= last
    BY <1>9, <1>3, <1>12
  <2> QED
    BY <1>3, <1>4, <2>1, <2>2, GapsAreStripped DEF n
<1>14. ev # <<>> /\ Last(ev).end = last
  <2>1. n \in 1..n
    BY <1>7
  <2>2. Last(ev) = ev[Len(ev)]
    BY DEF Last
  <2> QED
    BY <1>7, <1>8, <1>12, <2>1, <2>2
<1>15. Cardinality({<<ev[i].document, ev[i].version>> : i \in DOMAIN ev}) = 1
  <2>1. {<<ev[i].document, ev[i].version>> : i \in DOMAIN ev} = {<<document, version>>}
    BY <1>7, <1>8
  <2> QED
    BY <2>1, FS_Singleton
<1>16. ASSUME Len(text) <= MaxTextChars PROVE SourceError(s, document, version) = ""
  <2>1. PICK c1, c2, c3, c4, c5, c6 :
          /\ c1 = (Len(s.text) > MaxTextChars)
          /\ c2 = (s.evidence = <<>>)
          /\ c3 = (Cardinality({<<s.evidence[i].document, s.evidence[i].version>> : i \in DOMAIN s.evidence}) # 1)
          /\ c4 = (\E i \in DOMAIN s.evidence : Misplaced(s, Before(s.evidence), i))
          /\ c5 = (Strip(Slice(s.text, IF s.evidence = <<>> THEN 0 ELSE Last(s.evidence).end, Len(s.text))) # <<>>)
          /\ c6 = (\E i \in DOMAIN s.evidence :
                     <<s.evidence[i].document, s.evidence[i].version>> # <<document, version>>)
    OBVIOUS
  <2> DEFINE checks == << <<c1, "NLP_TEXT_TOO_LONG">>, <<c2, "INVALID_EVIDENCE">>,
                          <<c3, "INVALID_EVIDENCE">>, <<c4, "INVALID_EVIDENCE">>,
                          <<c5, "INVALID_EVIDENCE">>, <<c6, "INVALID_EVIDENCE">> >>
  <2>2. SourceError(s, document, version) = FirstFault(checks)
    BY <2>1, Zenon DEF SourceError, Misplaced, Before
  <2>3. ~c1
    <3>1. ~(Len(s.text) > MaxTextChars)
      BY <1>1, <1>3, <1>16, LimitsAssumption
    <3> QED
      BY <2>1, <3>1, Zenon
  <2>4. ~c2 /\ ~c3 /\ ~c4
    <3>1. ~(s.evidence = <<>>)
      BY <1>1, <1>14
    <3>2. Cardinality({<<s.evidence[i].document, s.evidence[i].version>> : i \in DOMAIN s.evidence}) = 1
      BY <1>1, <1>15
    <3>3. ~(\E i \in DOMAIN s.evidence : Misplaced(s, Before(s.evidence), i))
      BY <1>1, <1>8, <1>11 DEF prev
    <3> QED
      BY <2>1, <3>1, <3>2, <3>3, Zenon
  <2>5. ~c5
    <3>1. Strip(Slice(s.text, IF s.evidence = <<>> THEN 0 ELSE Last(s.evidence).end, Len(s.text))) = <<>>
      BY <1>1, <1>13, <1>14
    <3> QED
      BY <2>1, <3>1, Zenon
  <2>6. ~c6
    <3>1. ~(\E i \in DOMAIN s.evidence : <<s.evidence[i].document, s.evidence[i].version>> # <<document, version>>)
      BY <1>1, <1>8
    <3> QED
      BY <2>1, <3>1, Zenon
  <2>7. DOMAIN checks = 1..6
    OBVIOUS
  <2>8. ~checks[1][1] /\ ~checks[2][1] /\ ~checks[3][1] /\ ~checks[4][1] /\ ~checks[5][1] /\ ~checks[6][1]
    BY <2>3, <2>4, <2>5, <2>6
  <2> HIDE DEF checks
  <2>9. \A i \in 1..6 : ~checks[i][1]
    <3>1. \A i \in 1..6 : i = 1 \/ i = 2 \/ i = 3 \/ i = 4 \/ i = 5 \/ i = 6
      OBVIOUS
    <3> QED
      BY <2>8, <3>1
  <2>10. 6 \in Nat
    OBVIOUS
  <2> QED
    BY <2>2, <2>7, <2>9, <2>10, AllChecksPass
<1> QED
  BY <1>1, <1>6, <1>16

-----------------------------------------------------------------------------
(* No refusal of extraction is about evidence *)

\* Checks none of which says that the evidence is wrong.
Blameless(checks) ==
  IsList(checks) /\ \A i \in DOMAIN checks : checks[i][2] # "INVALID_EVIDENCE"

\* A chain of such checks never returns INVALID_EVIDENCE.
LEMMA BlamelessCode ==
  ASSUME NEW checks, Blameless(checks)
  PROVE  FirstFault(checks) # "INVALID_EVIDENCE"
<1>1. Len(checks) \in Nat /\ DOMAIN checks = 1..Len(checks)
  BY ListShape DEF Blameless
<1>2. \/ FirstFault(checks) = ""
      \/ \E i \in 1..Len(checks) : FirstFault(checks) = checks[i][2]
  BY <1>1, FirstFaultFound
<1>3. "" # "INVALID_EVIDENCE"
  OBVIOUS
<1> QED
  BY <1>1, <1>2, <1>3 DEF Blameless

\* Two such chains in a row are one.
LEMMA BlamelessTogether ==
  ASSUME NEW s, NEW t, Blameless(s), Blameless(t)
  PROVE  Blameless(s \o t)
<1> DEFINE V == {s[i] : i \in DOMAIN s} \cup {t[i] : i \in DOMAIN t}
<1>1. s \in Seq({s[i] : i \in DOMAIN s}) /\ t \in Seq({t[i] : i \in DOMAIN t})
  BY DEF Blameless, IsList
<1>2. /\ Len(s) \in Nat /\ DOMAIN s = 1..Len(s) /\ s = [i \in 1..Len(s) |-> s[i]]
      /\ Len(t) \in Nat /\ DOMAIN t = 1..Len(t) /\ t = [i \in 1..Len(t) |-> t[i]]
  BY <1>1
<1>3. \A v \in V : v[2] # "INVALID_EVIDENCE"
  BY DEF Blameless
<1>4. (\A i \in 1..Len(s) : s[i] \in V) /\ \A i \in 1..Len(t) : t[i] \in V
  BY <1>2
<1> HIDE DEF V
<1>5. s \in Seq(V) /\ t \in Seq(V)
  BY <1>2, <1>4
<1>6. PICK r : r = s \o t
  OBVIOUS
<1>7. r \in Seq(V)
  BY <1>5, <1>6
<1>8. Len(r) \in Nat /\ DOMAIN r = 1..Len(r) /\ r = [i \in 1..Len(r) |-> r[i]]
      /\ \A i \in 1..Len(r) : r[i] \in V
  BY <1>7
<1> QED
  BY <1>3, <1>6, <1>8, ListMade DEF Blameless

\* No check of a container is about evidence (security.py, docx.py, pdf.py).
LEMMA ChecksAreBlameless ==
  /\ Blameless(ArchiveChecks) /\ Blameless(PackageChecks)
  /\ Blameless(HeaderChecks) /\ Blameless(PdfChecks)
<1>1. Blameless(ArchiveChecks)
  <2>1. ArchiveChecks = [i \in 1..6 |-> ArchiveChecks[i]]
    BY DEF ArchiveChecks
  <2>2. \A i \in 1..6 : ArchiveChecks[i][2] # "INVALID_EVIDENCE"
    BY DEF ArchiveChecks
  <2> QED
    BY <2>1, <2>2, ListMade DEF Blameless
<1>2. Blameless(PackageChecks)
  <2>1. PackageChecks = [i \in 1..9 |-> PackageChecks[i]]
    BY DEF PackageChecks
  <2>2. \A i \in 1..9 : PackageChecks[i][2] # "INVALID_EVIDENCE"
    BY DEF PackageChecks
  <2> QED
    BY <2>1, <2>2, ListMade DEF Blameless
<1>3. Blameless(HeaderChecks)
  <2>1. HeaderChecks = [i \in 1..2 |-> HeaderChecks[i]]
    BY DEF HeaderChecks
  <2>2. \A i \in 1..2 : HeaderChecks[i][2] # "INVALID_EVIDENCE"
    BY DEF HeaderChecks
  <2> QED
    BY <2>1, <2>2, ListMade DEF Blameless
<1>4. Blameless(PdfChecks)
  <2>1. PdfChecks = [i \in 1..4 |-> PdfChecks[i]]
    BY DEF PdfChecks
  <2>2. \A i \in 1..4 : PdfChecks[i][2] # "INVALID_EVIDENCE"
    BY DEF PdfChecks
  <2> QED
    BY <2>1, <2>2, ListMade DEF Blameless
<1> QED
  BY <1>1, <1>2, <1>3, <1>4

\* No fault of a container is INVALID_EVIDENCE.
LEMMA ContainerCode ==
  ASSUME NEW kind, NEW faults
  PROVE  ContainerError(kind, faults) # "INVALID_EVIDENCE"
<1> DEFINE checks == IF kind = "pdf" THEN PdfChecks ELSE ArchiveChecks \o PackageChecks \o HeaderChecks
           marked == [i \in DOMAIN checks |-> <<checks[i][1] \in faults, checks[i][2]>>]
<1>1. Blameless(checks)
  BY ChecksAreBlameless, BlamelessTogether
<1>2. ContainerError(kind, faults) = FirstFault(marked)
  BY DEF ContainerError
<1> HIDE DEF checks
<1>3. marked = [i \in DOMAIN checks |-> marked[i]] /\ \A i \in DOMAIN checks : marked[i][2] = checks[i][2]
  OBVIOUS
<1> HIDE DEF marked
<1>4. Blameless(marked)
  BY <1>1, <1>3, MappedList DEF Blameless
<1> QED
  BY <1>2, <1>4, BlamelessCode

\* No refusal of an upload is INVALID_EVIDENCE.
LEMMA UploadCode ==
  ASSUME NEW u
  PROVE  UploadError(u) # "INVALID_EVIDENCE"
<1>1. PICK c1, c2, c3, c4, c5, c6, c7 :
        /\ c1 = (u.bytes = "empty") /\ c2 = (u.bytes = "large")
        /\ c3 = (u.suffix \notin {"pdf", "docx"}) /\ c4 = (u.declared \notin Declarable(u.suffix))
        /\ c5 = (u.suffix = "docx" /\ u.bytes = "ole") /\ c6 = (u.suffix = "pdf" /\ u.bytes # "pdf")
        /\ c7 = (u.suffix = "docx" /\ u.bytes # "zip")
  OBVIOUS
<1> DEFINE checks == << <<c1, "EMPTY_FILE">>, <<c2, "FILE_TOO_LARGE">>, <<c3, "UNSUPPORTED_FORMAT">>,
                        <<c4, "FILE_TYPE_MISMATCH">>, <<c5, "UNSUPPORTED_WORD_CONTAINER">>,
                        <<c6, "FILE_TYPE_MISMATCH">>, <<c7, "FILE_TYPE_MISMATCH">> >>
<1>2. UploadError(u) = FirstFault(checks)
  BY <1>1, Zenon DEF UploadError
<1>3. checks = [i \in 1..7 |-> checks[i]] /\ \A i \in 1..7 : checks[i][2] # "INVALID_EVIDENCE"
  OBVIOUS
<1> HIDE DEF checks
<1>4. Blameless(checks)
  BY <1>3, ListMade DEF Blameless
<1> QED
  BY <1>2, <1>4, BlamelessCode

\* No parser's refusal is INVALID_EVIDENCE.
LEMMA ParsedCode ==
  ASSUME NEW kind, NEW doc
  PROVE  Parsed(kind, doc).error # "INVALID_EVIDENCE"
<1> DEFINE blocks == IF kind = "pdf" THEN PdfBlocks(doc) ELSE DocxBlocks(doc)
<1>1. PICK c1, c2, c3, x : /\ c1 = (ContainerError(kind, doc.faults) # "")
                           /\ c2 = (kind = "pdf" /\ Len(doc.pages) > MaxPages)
                           /\ c3 = (TotalLen(blocks) > MaxTextChars)
                           /\ x = ContainerError(kind, doc.faults)
  OBVIOUS
<1> DEFINE checks == << <<c1, x>>, <<c2, "EXTRACTION_LIMIT_EXCEEDED">>, <<c3, "EXTRACTION_LIMIT_EXCEEDED">> >>
<1>2. Parsed(kind, doc).error = FirstFault(checks)
  <2>1. \E b : Parsed(kind, doc) = [error |-> FirstFault(checks), blocks |-> b]
    BY <1>1, Zenon DEF Parsed
  <2> HIDE DEF checks, blocks
  <2> QED
    BY <2>1
<1>3. x # "INVALID_EVIDENCE"
  BY <1>1, ContainerCode
<1>4. checks = [i \in 1..3 |-> checks[i]] /\ \A i \in 1..3 : checks[i][2] # "INVALID_EVIDENCE"
  BY <1>3
<1> HIDE DEF checks
<1>5. Blameless(checks)
  BY <1>4, ListMade DEF Blameless
<1> QED
  BY <1>2, <1>5, BlamelessCode

\* No refusal of assemble_text is INVALID_EVIDENCE.
LEMMA AssembledCode ==
  ASSUME NEW blocks, NEW document, NEW version
  PROVE  Assembled(blocks, document, version).error # "INVALID_EVIDENCE"
<1> DEFINE parts == Filtered([b \in DOMAIN blocks |-> Cleaned(blocks[b])], LAMBDA t : t # <<>>)
           text == Joined(parts, <<"nl", "nl">>)
<1>1. PICK c1, c2 : c1 = (Len(text) > MaxTextChars) /\ c2 = (parts = <<>>)
  OBVIOUS
<1> DEFINE checks == << <<c1, "EXTRACTION_LIMIT_EXCEEDED">>, <<c2, "NO_EXTRACTABLE_TEXT">> >>
<1>2. Assembled(blocks, document, version).error = FirstFault(checks)
  <2>1. \E s : Assembled(blocks, document, version) = [error |-> FirstFault(checks), source |-> s]
    BY <1>1, Zenon DEF Assembled
  <2> HIDE DEF checks
  <2> QED
    BY <2>1
<1>3. checks = [i \in 1..2 |-> checks[i]] /\ \A i \in 1..2 : checks[i][2] # "INVALID_EVIDENCE"
  OBVIOUS
<1> HIDE DEF checks
<1>4. Blameless(checks)
  BY <1>3, ListMade DEF Blameless
<1> QED
  BY <1>2, <1>4, BlamelessCode

=============================================================================
