----------------------------- MODULE DataProofs -----------------------------
(* What the proofs need to know of the folds and the searches the model is   *)
(* built from.  A fold over a sequence is a recursive function on the sets of *)
(* its positions; that it exists is shown by induction over the numbers, in   *)
(* the form that is about a set of numbers and not about a predicate.         *)
EXTENDS Integers, FiniteSets, Dlp, WellFoundedInduction, TLAPS

-----------------------------------------------------------------------------
(* Induction *)

\* A set of numbers that holds zero, and with a number the next, holds them all: otherwise
\* there is a least one outside, whose predecessor is inside.
THEOREM SetInduction ==
  ASSUME NEW S, 0 \in S, \A n \in Nat : n \in S => n + 1 \in S
  PROVE  Nat \subseteq S
PROOF
<1> DEFINE R == OpToRel(<, Nat)
           T == Nat \ S
<1> SUFFICES ASSUME T # {} PROVE FALSE
  OBVIOUS
<1>1. IsWellFoundedOn(R, Nat)
  BY NatLessThanWellFounded
<1>2. T \subseteq Nat
  OBVIOUS
<1> HIDE DEF R, T
<1>3. PICK least \in T : \A y \in T : ~(<<y, least>> \in R)
  BY <1>1, <1>2, WFMin
<1>4. least \in Nat /\ least \notin S /\ least # 0
  BY DEF T
<1>5. least - 1 \in Nat /\ (least - 1) + 1 = least
  BY <1>4
<1>6. least - 1 \in T
  BY <1>4, <1>5 DEF T
<1>7. <<least - 1, least>> \in R
  BY <1>4, <1>5 DEF R, OpToRel
<1>. QED
  BY <1>3, <1>6, <1>7

\* The same up to a bound.
LEMMA IntervalInduction ==
  ASSUME NEW n \in Nat, NEW S, 0 \in S, \A k \in 0..n : k \in S /\ k < n => k + 1 \in S
  PROVE  0..n \subseteq S
PROOF
<1> DEFINE T == {k \in Nat : k <= n => k \in S}
<1>1. 0 \in T
  OBVIOUS
<1>2. \A k \in Nat : k \in T => k + 1 \in T
  OBVIOUS
<1> HIDE DEF T
<1>3. Nat \subseteq T
  BY <1>1, <1>2, SetInduction
<1>. QED
  BY <1>3 DEF T

-----------------------------------------------------------------------------
(* Greatest and least *)

LEMMA MaxOfInterval == ASSUME NEW k \in Nat \ {0} PROVE Max(1..k) = k
PROOF
<1>1. k \in 1..k /\ \A y \in 1..k : k >= y
  OBVIOUS
<1>2. \A x \in 1..k : (\A y \in 1..k : x >= y) => x = k
  OBVIOUS
<1>. QED
  BY <1>1, <1>2 DEF Max

\* The greatest of a set that is known to have one.
LEMMA MaxKnown ==
  ASSUME NEW S \in SUBSET Int, NEW m \in S, \A y \in S : y <= m
  PROVE  Max(S) = m
PROOF
<1>1. m \in S /\ \A y \in S : m >= y
  OBVIOUS
<1>2. \A x \in S : (\A y \in S : x >= y) => x = m
  OBVIOUS
<1>. QED
  BY <1>1, <1>2 DEF Max

LEMMA MaxExists ==
  ASSUME NEW n \in Nat, NEW S \in SUBSET (1..n), S # {}
  PROVE  Max(S) \in S /\ \A y \in S : y <= Max(S)
PROOF
<1> DEFINE T == {k \in 0..n : S \cap (1..k) = {} \/ \E m \in S : \A y \in S \cap (1..k) : y <= m}
<1>1. 0 \in T
  OBVIOUS
<1>2. ASSUME NEW k \in 0..n, k \in T, k < n PROVE k + 1 \in T
  <2>1. CASE k + 1 \in S
    BY <1>2, <2>1
  <2>2. CASE k + 1 \notin S
    <3>1. S \cap (1..(k+1)) = S \cap (1..k)
      BY <2>2
    <3>. QED
      BY <1>2, <3>1
  <2>. QED
    BY <2>1, <2>2
<1> HIDE DEF T
<1>3. n \in T
  BY <1>1, <1>2, IntervalInduction
<1>4. PICK m \in S : \A y \in S : y <= m
  BY <1>3 DEF T
<1>. QED
  BY <1>4, MaxKnown

LEMMA MinExists ==
  ASSUME NEW S \in SUBSET Nat, S # {}
  PROVE  Min(S) \in S /\ \A y \in S : Min(S) <= y
PROOF
<1> DEFINE T == {k \in Nat : \A y \in S : y > k}
<1>1. SUFFICES \E m \in S : \A y \in S : m <= y
  BY <1>1 DEF Min
<1>2. CASE 0 \in S
  BY <1>2
<1>3. CASE 0 \notin S
  <2>1. 0 \in T
    BY <1>3
  <2>2. PICK any \in S : TRUE
    OBVIOUS
  <2>3. any \in Nat /\ any \notin T
    BY <2>2
  <2> HIDE DEF T
  <2>4. ~(Nat \subseteq T)
    BY <2>3
  <2>5. PICK k \in Nat : k \in T /\ k + 1 \notin T
    BY <2>1, <2>4, SetInduction
  <2>. QED
    BY <2>5 DEF T
<1>. QED
  BY <1>2, <1>3

-----------------------------------------------------------------------------
(* Folds *)

\* What a fold over k positions recurs on: a set of positions is worked off from its greatest
\* down, each with what the others come to.
IsFold(g, k, A, base, h) ==
    /\ g \in [SUBSET (1..k) -> A]
    /\ \A s \in SUBSET (1..k) :
         g[s] = IF s = {} THEN base ELSE h[Max(s), g[s \ {Max(s)}]]

\* There is such a function, for any step from the values A into them.
LEMMA FoldExists ==
  ASSUME NEW n \in Nat, NEW A, NEW base \in A, NEW h \in [(1..n) \X A -> A]
  PROVE  \E g : IsFold(g, n, A, base, h)
PROOF
<1> DEFINE Folds(k, g) == IsFold(g, k, A, base, h)
           T == {k \in 0..n : \E g : Folds(k, g)}
<1>0. \A x \in 1..n, a \in A : h[x, a] \in A
  OBVIOUS
<1>1. 0 \in T
  <2> DEFINE none == [s \in SUBSET (1..0) |-> base]
  <2>1. 1..0 = {}
    OBVIOUS
  <2>2. Folds(0, none)
    BY <2>1 DEF IsFold
  <2> HIDE DEF Folds, none
  <2>. QED
    BY <2>2
<1>2. ASSUME NEW k \in 0..n, k \in T, k < n PROVE k + 1 \in T
  <2> HIDE DEF T
  <2>0. k + 1 \in 0..n /\ k + 1 \in 1..n
    BY <1>2
  <2>1. PICK g : Folds(k, g)
    BY <1>2 DEF T
  <2> DEFINE more == [s \in SUBSET (1..(k+1)) |->
                        IF k + 1 \in s THEN h[k + 1, g[s \ {k + 1}]] ELSE g[s]]
  <2>2. ASSUME NEW s \in SUBSET (1..(k+1)), k + 1 \in s
        PROVE  Max(s) = k + 1 /\ s \ {k + 1} \in SUBSET (1..k)
    BY <2>2, MaxKnown
  <2>3. ASSUME NEW s \in SUBSET (1..(k+1)), k + 1 \notin s
        PROVE  s \in SUBSET (1..k)
    BY <2>3
  <2>4. more \in [SUBSET (1..(k+1)) -> A]
    <3> SUFFICES ASSUME NEW s \in SUBSET (1..(k+1))
                 PROVE  (IF k + 1 \in s THEN h[k + 1, g[s \ {k + 1}]] ELSE g[s]) \in A
      OBVIOUS
    <3>1. CASE k + 1 \in s
      <4>1. g[s \ {k + 1}] \in A
        BY <2>1, <2>2, <3>1 DEF IsFold
      <4>2. h[k + 1, g[s \ {k + 1}]] \in A
        BY <1>0, <2>0, <4>1
      <4>. QED
        BY <3>1, <4>2
    <3>2. CASE k + 1 \notin s
      BY <2>1, <2>3, <3>2 DEF IsFold
    <3>. QED
      BY <3>1, <3>2
  <2>5. ASSUME NEW s \in SUBSET (1..(k+1))
        PROVE  more[s] = IF s = {} THEN base ELSE h[Max(s), more[s \ {Max(s)}]]
    <3>1. CASE k + 1 \in s
      <4>1. Max(s) = k + 1 /\ s \ {k + 1} \in SUBSET (1..k)
        BY <2>2, <3>1
      <4>2. more[s \ {k + 1}] = g[s \ {k + 1}]
        BY <4>1
      <4>. QED
        BY <3>1, <4>1, <4>2
    <3>2. CASE k + 1 \notin s
      <4>1. s \in SUBSET (1..k) /\ more[s] = g[s]
        BY <2>3, <3>2
      <4>2. CASE s = {}
        BY <2>1, <4>1, <4>2 DEF IsFold
      <4>3. CASE s # {}
        <5>1. k \in Nat
          OBVIOUS
        <5>2. Max(s) \in s
          BY ONLY <4>1, <4>3, <5>1, MaxExists
        <5>3. k + 1 \notin s \ {Max(s)} /\ s \ {Max(s)} \in SUBSET (1..(k+1))
          BY <3>2
        <5>4. more[s \ {Max(s)}] = g[s \ {Max(s)}]
          BY <5>3
        <5>. QED
          BY <2>1, <4>1, <4>3, <5>4 DEF IsFold
      <4>. QED
        BY <4>2, <4>3
    <3>. QED
      BY <3>1, <3>2
  <2>6. Folds(k + 1, more)
    BY <2>4, <2>5 DEF IsFold
  <2> HIDE DEF Folds, more
  <2>. QED
    BY <2>0, <2>6 DEF T
<1> HIDE DEF T
<1>3. n \in T
  BY <1>1, <1>2, IntervalInduction
<1>. QED
  BY <1>3 DEF T

\* What the sets of positions a fold over a sequence comes by look like.
LEMMA Unrolled ==
  ASSUME NEW k \in Nat \ {0}
  PROVE  /\ 1..k # {} /\ Max(1..k) = k
         /\ (1..k) \ {Max(1..k)} = 1..(k - 1)
PROOF
<1>1. Max(1..k) = k
  BY MaxOfInterval
<1>. QED
  BY <1>1

-----------------------------------------------------------------------------
(* Sequences one after the other *)

Holds(s, k) == \E i \in DOMAIN s : s[i] = k
Once(s, k) == \A i, j \in DOMAIN s : s[i] = k /\ s[j] = k => i = j

LEMMA Concatenated ==
    ASSUME NEW A, NEW s \in Seq(A), NEW t \in Seq(A), NEW k
    PROVE  /\ Holds(s \o t, k) <=> Holds(s, k) \/ Holds(t, k)
           /\ Once(s, k) /\ Once(t, k) /\ ~(Holds(s, k) /\ Holds(t, k)) => Once(s \o t, k)
<1>1. ASSUME NEW i \in DOMAIN (s \o t)
      PROVE  \/ i \in DOMAIN s /\ (s \o t)[i] = s[i]
             \/ i - Len(s) \in DOMAIN t /\ (s \o t)[i] = t[i - Len(s)] /\ i \in Int
  OBVIOUS
<1>2. Holds(s \o t, k) <=> Holds(s, k) \/ Holds(t, k)
  <2>1. /\ \A i \in DOMAIN s : i \in DOMAIN (s \o t) /\ (s \o t)[i] = s[i]
        /\ \A i \in DOMAIN t :
             Len(s) + i \in DOMAIN (s \o t) /\ (s \o t)[Len(s) + i] = t[i]
    OBVIOUS
  <2>. QED
    BY <1>1, <2>1 DEF Holds
<1>3. ASSUME Once(s, k), Once(t, k), ~(Holds(s, k) /\ Holds(t, k)),
             NEW i \in DOMAIN (s \o t), NEW j \in DOMAIN (s \o t),
             (s \o t)[i] = k, (s \o t)[j] = k
      PROVE  i = j
  <2>1. CASE i \in DOMAIN s /\ s[i] = k
    <3>1. ~Holds(t, k)
      BY <1>3, <2>1 DEF Holds
    <3>2. j \in DOMAIN s /\ s[j] = k
      BY <1>1, <1>3, <3>1 DEF Holds
    <3>. QED
      BY <1>3, <2>1, <3>2 DEF Once
  <2>2. CASE i - Len(s) \in DOMAIN t /\ t[i - Len(s)] = k /\ i \in Int
    <3>1. ~Holds(s, k)
      BY <1>3, <2>2 DEF Holds
    <3>2. j - Len(s) \in DOMAIN t /\ t[j - Len(s)] = k /\ j \in Int
      BY <1>1, <1>3, <3>1 DEF Holds
    <3>3. i - Len(s) = j - Len(s)
      BY <1>3, <2>2, <3>2 DEF Once
    <3>. QED
      BY <2>2, <3>2, <3>3
  <2>. QED
    BY <1>1, <1>3, <2>1, <2>2
<1>. QED
  BY <1>2, <1>3 DEF Once

\* FlattenSeq appends the sequences one after the other.
LEMMA Flattened ==
    ASSUME NEW A, NEW seqs \in Seq(Seq(A))
    PROVE  \E f : /\ f \in [0..Len(seqs) -> Seq(A)] /\ f[0] = <<>>
                  /\ \A i \in 1..Len(seqs) : f[i] = f[i - 1] \o seqs[i]
                  /\ FlattenSeq(seqs) = f[Len(seqs)]
<1> DEFINE n == Len(seqs)
           h == [x \in (1..n) \X Seq(A) |-> x[2] \o seqs[x[1]]]
<1>1. n \in Nat /\ <<>> \in Seq(A) /\ \A i \in 1..n : seqs[i] \in Seq(A)
  OBVIOUS
<1>2. /\ h \in [(1..n) \X Seq(A) -> Seq(A)]
      /\ \A i \in 1..n, s \in Seq(A) : h[i, s] = s \o seqs[i]
  <2>1. \A x \in (1..n) \X Seq(A) : x[2] \o seqs[x[1]] \in Seq(A)
    BY <1>1
  <2>. QED
    BY <2>1
<1> HIDE DEF h
<1>3. PICK g : IsFold(g, n, Seq(A), <<>>, h)
  BY <1>1, <1>2, FoldExists
<1> DEFINE f == [i \in 0..n |-> g[1..i]]
<1>4. \A i \in 0..n : 1..i \in SUBSET (1..n)
  BY <1>1
<1>5. f \in [0..n -> Seq(A)]
  BY <1>3, <1>4 DEF IsFold
<1>6. f[0] = <<>>
  <2>1. 1..0 = {} /\ 0 \in 0..n
    BY <1>1
  <2>2. g[1..0] = <<>>
    BY <1>3, <1>4, <2>1 DEF IsFold
  <2>. QED
    BY <2>1, <2>2
<1>7. ASSUME NEW i \in 1..n PROVE f[i] = f[i - 1] \o seqs[i]
  <2>1. i \in Nat \ {0} /\ i \in 0..n /\ i - 1 \in 0..n
    BY <1>1
  <2>2. 1..i # {} /\ Max(1..i) = i /\ (1..i) \ {Max(1..i)} = 1..(i - 1)
    BY <2>1, Unrolled
  <2>3. g[1..i] = h[i, g[1..(i - 1)]]
    BY <1>3, <1>4, <2>1, <2>2 DEF IsFold
  <2>4. g[1..(i - 1)] \in Seq(A)
    BY <1>5, <2>1
  <2>. QED
    BY <1>2, <2>1, <2>3, <2>4
<1> HIDE DEF f
<1>8. FlattenSeq(seqs) = f[n]
  <2>1. CASE n = 0
    <3>1. seqs = <<>>
      BY <2>1
    <3>. QED
      BY <1>6, <2>1, <3>1 DEF FlattenSeq
  <2>2. CASE n # 0
    <3> DEFINE step(s, i) == IF i = 1 THEN seqs[i] ELSE s[i - 1] \o seqs[i]
               flat == CHOOSE s : s = [i \in 1..n |-> step(s, i)]
               known == [i \in 1..n |-> f[i]]
    <3>1. known = [i \in 1..n |-> step(known, i)]
      <4>1. ASSUME NEW i \in 1..n PROVE known[i] = step(known, i)
        <5>1. CASE i = 1
          <6>1. f[i] = f[i - 1] \o seqs[i]
            BY <1>7
          <6>2. i - 1 = 0 /\ seqs[i] \in Seq(A)
            BY <1>1, <5>1
          <6>3. f[i - 1] = <<>>
            BY <1>6, <6>2
          <6>4. f[i] = <<>> \o seqs[i]
            BY <6>1, <6>3
          <6>5. <<>> \o seqs[i] = seqs[i]
            BY ONLY <6>2
          <6>6. f[i] = seqs[i]
            BY <6>4, <6>5
          <6>. QED
            BY <5>1, <6>6
        <5>2. CASE i # 1
          <6>1. i - 1 \in 1..n
            BY <1>1, <5>2
          <6>. QED
            BY <1>7, <5>2, <6>1
        <5>. QED
          BY <5>1, <5>2
      <4> HIDE DEF step
      <4>. QED
        BY <4>1
    <3>2. flat = [i \in 1..n |-> step(flat, i)]
      <4> HIDE DEF step, known
      <4>. QED
        BY <3>1
    <3>3. FlattenSeq(seqs) = flat[n]
      BY <2>2 DEF FlattenSeq
    <3> HIDE DEF flat
    <3> DEFINE T == {i \in 0..n : i >= 1 => flat[i] = f[i]}
    <3>4. 0 \in T
      BY <1>1
    <3>5. ASSUME NEW i \in 0..n, i \in T, i < n PROVE i + 1 \in T
      <4>1. i + 1 \in 1..n /\ i + 1 \in 0..n /\ (i + 1) - 1 = i
        BY <1>1, <3>5
      <4>2. flat[i + 1] = step(flat, i + 1)
        BY <3>2, <4>1
      <4>3. f[i + 1] = f[i] \o seqs[i + 1] /\ seqs[i + 1] \in Seq(A)
        BY <1>1, <1>7, <4>1
      <4>4. CASE i = 0
        <5>1. f[i + 1] = <<>> \o seqs[i + 1]
          BY <1>6, <4>3, <4>4
        <5>2. f[i + 1] = seqs[i + 1]
          BY <4>3, <5>1
        <5>3. flat[i + 1] = seqs[i + 1]
          BY <4>2, <4>4
        <5>. QED
          BY <4>1, <5>2, <5>3
      <4>5. CASE i # 0
        <5>1. flat[i] = f[i] /\ i + 1 # 1
          BY <3>5, <4>5
        <5>. QED
          BY <4>1, <4>2, <4>3, <5>1
      <4>. QED
        BY <4>4, <4>5
    <3> HIDE DEF T
    <3>6. 0..n \subseteq T
      BY <1>1, <3>4, <3>5, IntervalInduction
    <3>7. n \in 0..n /\ n >= 1
      BY <1>1, <2>2
    <3>. QED
      BY <3>3, <3>6, <3>7 DEF T
  <2>. QED
    BY <2>1, <2>2
<1>. QED
  BY <1>5, <1>6, <1>7, <1>8

\* What the whole holds one of the parts holds, and what one part holds
\* once and no other holds is there once.
LEMMA FlattenedHolds ==
    ASSUME NEW A, NEW seqs \in Seq(Seq(A)), NEW k
    PROVE  /\ FlattenSeq(seqs) \in Seq(A)
           /\ Holds(FlattenSeq(seqs), k) <=> \E i \in DOMAIN seqs : Holds(seqs[i], k)
           /\ (/\ \A i \in DOMAIN seqs : Once(seqs[i], k)
               /\ \A i, j \in DOMAIN seqs : Holds(seqs[i], k) /\ Holds(seqs[j], k) => i = j)
              => Once(FlattenSeq(seqs), k)
<1> DEFINE n == Len(seqs)
           Apart == /\ \A i \in DOMAIN seqs : Once(seqs[i], k)
                    /\ \A i, j \in DOMAIN seqs : Holds(seqs[i], k) /\ Holds(seqs[j], k) => i = j
<1>1. PICK f : /\ f \in [0..n -> Seq(A)] /\ f[0] = <<>>
               /\ \A i \in 1..n : f[i] = f[i - 1] \o seqs[i]
               /\ FlattenSeq(seqs) = f[n]
  BY Flattened
<1>2. n \in Nat /\ DOMAIN seqs = 1..n /\ \A i \in 1..n : seqs[i] \in Seq(A)
  OBVIOUS
<1> DEFINE T == {i \in 0..n : /\ Holds(f[i], k) <=> \E j \in 1..i : Holds(seqs[j], k)
                              /\ Apart => Once(f[i], k)}
<1>3. 0 \in T
  <2>1. ~Holds(f[0], k) /\ Once(f[0], k)
    BY <1>1 DEF Holds, Once
  <2>. QED
    BY <1>2, <2>1
<1>4. ASSUME NEW i \in 0..n, i \in T, i < n PROVE i + 1 \in T
  <2>1. i + 1 \in 1..n /\ i + 1 \in 0..n /\ (i + 1) - 1 = i /\ 1..i \subseteq 1..(i + 1)
        /\ i + 1 \in 1..(i + 1) /\ i + 1 \notin 1..i /\ 1..i \subseteq 1..n
    BY <1>2, <1>4
  <2>2. f[i + 1] = f[i] \o seqs[i + 1] /\ f[i] \in Seq(A) /\ seqs[i + 1] \in Seq(A)
    BY <1>1, <1>2, <2>1
  <2>3. /\ Holds(f[i + 1], k) <=> Holds(f[i], k) \/ Holds(seqs[i + 1], k)
        /\ Once(f[i], k) /\ Once(seqs[i + 1], k) /\ ~(Holds(f[i], k) /\ Holds(seqs[i + 1], k))
              => Once(f[i + 1], k)
    BY <2>2, Concatenated
  <2>4. Holds(f[i], k) <=> \E j \in 1..i : Holds(seqs[j], k)
    BY <1>4
  <2>5. Apart => Once(f[i], k)
    BY <1>4
  <2>6. Holds(f[i + 1], k) <=> \E j \in 1..(i + 1) : Holds(seqs[j], k)
    <3>1. 1..(i + 1) = 1..i \cup {i + 1}
      BY <1>2, <1>4
    <3>. QED
      BY <2>3, <2>4, <3>1
  <2>7. ASSUME Apart PROVE Once(f[i + 1], k)
    <3>1. ~(Holds(f[i], k) /\ Holds(seqs[i + 1], k))
      BY <1>2, <2>1, <2>4, <2>7
    <3>. QED
      BY <1>2, <2>1, <2>3, <2>5, <2>7, <3>1
  <2>. QED
    BY <2>1, <2>6, <2>7
<1> HIDE DEF T
<1>5. 0..n \subseteq T
  BY <1>2, <1>3, <1>4, IntervalInduction
<1>6. n \in T /\ f[n] \in Seq(A)
  BY <1>1, <1>2, <1>5
<1>. QED
  BY <1>1, <1>2, <1>6 DEF T

-----------------------------------------------------------------------------
(* A DLP scan *)

Scans(rules, text) == [text : SUBSET text, matches : Seq(Range(rules))]

Trace(tr, rules, text, cards) ==
    /\ tr \in [0..Len(rules) -> Scans(rules, text)]
    /\ tr[0] = [text |-> text, matches |-> <<>>]
    /\ \A i \in 1..Len(rules) : tr[i] = ScanRule(tr[i - 1], rules[i], cards)

LEMMA ScanRuleType ==
  ASSUME NEW rules, NEW text, NEW cards, NEW scan \in Scans(rules, text), NEW rule \in Range(rules)
  PROVE  ScanRule(scan, rule, cards) \in Scans(rules, text)
PROOF
<1>1. scan.text \in SUBSET text /\ scan.matches \in Seq(Range(rules))
  BY DEF Scans
<1>2. Append(scan.matches, rule) \in Seq(Range(rules))
  BY <1>1
<1> DEFINE kept == IF rule.action = "redact" THEN scan.text \ rule.pattern ELSE scan.text
<1>3. kept \in SUBSET text
  BY <1>1
<1> HIDE DEF kept
<1>4. [text |-> kept, matches |-> Append(scan.matches, rule)] \in Scans(rules, text)
  BY <1>2, <1>3 DEF Scans
<1>. QED
  BY <1>4 DEF ScanRule, kept

\* The scan of a text is the last of the states the rules bring it through one by one.
THEOREM ScanIsTrace ==
  ASSUME NEW rules, rules \in Seq(Range(rules)), NEW text, NEW cards
  PROVE  \E tr : Trace(tr, rules, text, cards) /\ Scan(rules, text, cards) = tr[Len(rules)]
PROOF
<1> DEFINE n == Len(rules)
           A == Scans(rules, text)
           base == [text |-> text, matches |-> <<>>]
           h == [p \in (1..n) \X A |-> ScanRule(p[2], rules[p[1]], cards)]
           step(f, s) == IF s = {} THEN base
                         ELSE ScanRule(f[s \ {Max(s)}], rules[Max(s)], cards)
           iter == CHOOSE f : f = [s \in SUBSET DOMAIN rules |-> step(f, s)]
<1>1. n \in Nat /\ DOMAIN rules = 1..n
  OBVIOUS
<1>2. base \in A
  BY DEF Scans
<1>3. \A i \in 1..n : rules[i] \in Range(rules)
  BY <1>1 DEF Range
<1>4. ASSUME NEW x \in 1..n, NEW a \in A
      PROVE  h[x, a] = ScanRule(a, rules[x], cards) /\ h[x, a] \in A
  BY <1>3, ScanRuleType
<1>5. h \in [(1..n) \X A -> A]
  BY <1>3, ScanRuleType
<1>6. PICK g : IsFold(g, n, A, base, h)
  <2> HIDE DEF n, A, base, h
  <2>. QED
    BY <1>1, <1>2, <1>5, FoldExists
<1>7. ASSUME NEW s \in SUBSET (1..n) PROVE g[s] = step(g, s)
  <2>1. CASE s = {}
    BY <1>6, <2>1 DEF IsFold
  <2>2. CASE s # {}
    <3> HIDE DEF A, h
    <3>1. Max(s) \in 1..n
      BY <1>1, <2>2, MaxExists
    <3>2. g[s \ {Max(s)}] \in A
      BY <1>6 DEF IsFold
    <3>3. h[Max(s), g[s \ {Max(s)}]] = ScanRule(g[s \ {Max(s)}], rules[Max(s)], cards)
      BY <1>4, <3>1, <3>2
    <3>. QED
      BY <1>6, <2>2, <3>3 DEF IsFold
  <2>. QED
    BY <2>1, <2>2
<1>8. g = [s \in SUBSET DOMAIN rules |-> step(g, s)]
  <2> HIDE DEF step
  <2>. QED
    BY <1>1, <1>6, <1>7 DEF IsFold
<1>9. iter = [s \in SUBSET DOMAIN rules |-> step(iter, s)]
  <2> HIDE DEF step
  <2>. QED
    BY <1>8
<1>10. Scan(rules, text, cards) = iter[DOMAIN rules]
  BY DEF Scan, FoldLeft, MapThenFoldSet
<1> HIDE DEF iter
<1>11. iter[{}] = base
  BY <1>9
<1>12. ASSUME NEW k \in 1..n PROVE iter[1..k] = ScanRule(iter[1..(k - 1)], rules[k], cards)
  <2>1. (1..k) \in SUBSET DOMAIN rules
    BY <1>1
  <2>2. iter[1..k] = step(iter, 1..k)
    BY <1>9, <2>1
  <2>3. 1..k # {} /\ Max(1..k) = k /\ (1..k) \ {Max(1..k)} = 1..(k - 1)
    BY Unrolled
  <2>. QED
    BY <2>2, <2>3, Zenon
<1> DEFINE tr == [k \in 0..n |-> iter[1..k]]
<1>13. 1..0 = {}
  OBVIOUS
<1>14. \A k \in 0..n : tr[k] \in A
  <2> DEFINE T == {k \in 0..n : iter[1..k] \in A}
  <2> HIDE DEF A, base
  <2>1. 0 \in T
    BY <1>1, <1>2, <1>11, <1>13
  <2>2. ASSUME NEW k \in 0..n, k \in T, k < n PROVE k + 1 \in T
    <3>1. k + 1 \in 1..n /\ k + 1 \in 0..n /\ (k + 1) - 1 = k
      BY <2>2
    <3>2. iter[1..(k + 1)] = ScanRule(iter[1..k], rules[k + 1], cards)
      BY <1>12, <3>1
    <3>3. iter[1..k] \in A
      BY <2>2
    <3>. QED
      BY <1>3, <3>1, <3>2, <3>3, ScanRuleType DEF A
  <2> HIDE DEF T
  <2>3. 0..n \subseteq T
    BY <1>1, <2>1, <2>2, IntervalInduction
  <2>. QED
    BY <2>3 DEF T
<1>15. Trace(tr, rules, text, cards)
  <2>1. tr \in [0..n -> A]
    BY <1>14
  <2>2. tr[0] = base
    BY <1>1, <1>11, <1>13
  <2>3. \A i \in 1..n : tr[i] = ScanRule(tr[i - 1], rules[i], cards)
    BY <1>1, <1>12
  <2> HIDE DEF tr
  <2>. QED
    BY <2>1, <2>2, <2>3 DEF Trace
<1>16. Scan(rules, text, cards) = tr[n]
  BY <1>1, <1>10
<1>. QED
  BY <1>15, <1>16

\* A rule is among the matches of a scan.
Told(scan, rule) == \E k \in DOMAIN scan.matches : scan.matches[k] = rule

\* A rule finds something in a text, and what it leaves of the text.
Finds(rule, text, cards) == \E m \in rule.pattern \cap text : rule.luhn => m \in cards
Leaves(rule, text, cards) ==
  IF rule.action = "redact" /\ Finds(rule, text, cards) THEN text \ rule.pattern ELSE text

\* What a rule makes of a scan: a match more if it finds something, and none else.
LEMMA ScanRuleFinds ==
  ASSUME NEW rules, NEW text, NEW cards, NEW scan \in Scans(rules, text), NEW rule
  PROVE  LET next == ScanRule(scan, rule, cards)
         IN /\ next.text = Leaves(rule, scan.text, cards)
            /\ \A r : Told(next, r) <=> Told(scan, r) \/ (r = rule /\ Finds(rule, scan.text, cards))
PROOF
<1> DEFINE next == ScanRule(scan, rule, cards)
           hits == IF rule.luhn THEN (rule.pattern \cap scan.text) \cap cards
                   ELSE rule.pattern \cap scan.text
<1>1. scan.matches \in Seq(Range(rules))
  BY DEF Scans
<1>2. hits # {} <=> Finds(rule, scan.text, cards)
  BY DEF Finds
<1>3. CASE hits = {}
  <2>1. next = scan
    BY <1>3 DEF ScanRule
  <2>. QED
    BY <1>2, <1>3, <2>1 DEF Leaves
<1>4. CASE hits # {}
  <2>1. next = [text |-> IF rule.action = "redact" THEN scan.text \ rule.pattern ELSE scan.text,
                matches |-> Append(scan.matches, rule)]
    BY <1>4 DEF ScanRule
  <2> HIDE DEF next, hits
  <2>2. next.text = Leaves(rule, scan.text, cards)
    BY <1>2, <1>4, <2>1 DEF Leaves
  <2>3. next.matches = Append(scan.matches, rule)
    BY <2>1
  <2>4. /\ DOMAIN next.matches = DOMAIN scan.matches \cup {Len(scan.matches) + 1}
        /\ next.matches[Len(scan.matches) + 1] = rule
        /\ \A k \in DOMAIN scan.matches : next.matches[k] = scan.matches[k]
    BY <1>1, <2>3
  <2>5. \A r : Told(next, r) <=> Told(scan, r) \/ r = rule
    BY <2>4 DEF Told
  <2>. QED
    BY <1>2, <1>4, <2>2, <2>5 DEF next
<1>. QED
  BY <1>3, <1>4

\* A rule takes nothing into the text and no match back.
LEMMA TraceShrinks ==
  ASSUME NEW rules, rules \in Seq(Range(rules)), NEW text, NEW cards,
         NEW tr, Trace(tr, rules, text, cards), NEW i \in 0..Len(rules)
  PROVE  \A j \in i..Len(rules) :
           /\ tr[j].text \subseteq tr[i].text
           /\ \A r : Told(tr[i], r) => Told(tr[j], r)
PROOF
<1> DEFINE n == Len(rules)
           Within(j) == /\ tr[j].text \subseteq tr[i].text
                        /\ \A r : Told(tr[i], r) => Told(tr[j], r)
           T == {k \in 0..n : k >= i => Within(k)}
<1>1. n \in Nat
  OBVIOUS
<1>2. 0 \in T
  <2>1. i = 0 => Within(0)
    OBVIOUS
  <2> HIDE DEF Within
  <2>. QED
    BY <1>1, <2>1
<1>3. ASSUME NEW k \in 0..n, k \in T, k < n PROVE k + 1 \in T
  <2>1. k + 1 \in 1..n /\ k + 1 \in 0..n
    BY <1>3
  <2>2. tr[k + 1] = ScanRule(tr[k], rules[k + 1], cards)
    BY <2>1 DEF Trace
  <2>3. tr[k].text \in SUBSET text /\ tr[k].matches \in Seq(Range(rules))
    BY DEF Trace, Scans
  <2>4. tr[k + 1].text \subseteq tr[k].text
    BY <2>2 DEF ScanRule
  <2>5. ASSUME NEW r, Told(tr[k], r) PROVE Told(tr[k + 1], r)
    <3> USE DEF Told
    <3>1. CASE tr[k + 1] = tr[k]
      BY <2>5, <3>1
    <3>2. CASE tr[k + 1] # tr[k]
      <4>1. tr[k + 1].matches = Append(tr[k].matches, rules[k + 1])
        BY <2>2, <3>2 DEF ScanRule
      <4>2. PICK m \in DOMAIN tr[k].matches : tr[k].matches[m] = r
        BY <2>5
      <4>3. m \in DOMAIN tr[k + 1].matches /\ tr[k + 1].matches[m] = r
        BY <2>3, <4>1, <4>2
      <4>. QED
        BY <4>3
    <3>. QED
      BY <3>1, <3>2
  <2>6. CASE k + 1 = i
    BY <2>1, <2>6
  <2>7. CASE k >= i
    BY <1>3, <2>1, <2>4, <2>5, <2>7
  <2>. QED
    BY <2>1, <2>6, <2>7
<1> HIDE DEF T
<1>4. 0..n \subseteq T
  BY <1>1, <1>2, <1>3, IntervalInduction
<1>. QED
  BY <1>4 DEF T

\* What a rule would find in the text that is left in the end it has found when its turn
\* came: it is no rule that redacts, and it is among the matches.
LEMMA LeftIsFound ==
  ASSUME NEW rules, rules \in Seq(Range(rules)), NEW text, NEW cards, NEW i \in DOMAIN rules,
         NEW m \in rules[i].pattern, m \in Scan(rules, text, cards).text,
         rules[i].luhn => m \in cards
  PROVE  rules[i].action # "redact" /\ HasAction(Scan(rules, text, cards), rules[i].action)
PROOF
<1> DEFINE n == Len(rules)
           scan == Scan(rules, text, cards)
<1>1. PICK tr : Trace(tr, rules, text, cards) /\ scan = tr[n]
  BY ScanIsTrace
<1>2. n \in Nat /\ i \in 1..n /\ i \in 0..n /\ i - 1 \in 0..n
  OBVIOUS
<1>3. tr[i] = ScanRule(tr[i - 1], rules[i], cards)
  BY <1>1, <1>2 DEF Trace
<1>4. tr[i - 1].text \in SUBSET text /\ tr[i - 1].matches \in Seq(Range(rules))
  BY <1>1, <1>2 DEF Trace, Scans
<1>5. m \in tr[i].text
  BY <1>1, <1>2, TraceShrinks
<1>6. m \in tr[i - 1].text
  BY <1>3, <1>5 DEF ScanRule
<1>7. tr[i].matches = Append(tr[i - 1].matches, rules[i]) /\ rules[i].action # "redact"
  BY <1>3, <1>5, <1>6 DEF ScanRule
<1>8. Told(tr[i], rules[i])
  <2>1. Len(tr[i].matches) \in DOMAIN tr[i].matches /\ tr[i].matches[Len(tr[i].matches)] = rules[i]
    BY <1>4, <1>7
  <2>. QED
    BY <2>1 DEF Told
<1>9. Told(tr[n], rules[i])
  <2>1. n \in i..n
    BY <1>2
  <2>2. \A r : Told(tr[i], r) => Told(tr[n], r)
    BY <1>1, <1>2, <2>1, TraceShrinks
  <2>. QED
    BY <1>8, <2>2
<1>. QED
  BY <1>1, <1>7, <1>9 DEF HasAction, Told

\* The rules have their turn in their order, each with the text that the redactions
\* before it have left; the outcome has the text the last one leaves, and its matches
\* are the rules that found something when they had their turn, also what a later rule
\* redacts, and no others.
THEOREM ScanFindsAll ==
  ASSUME NEW rules, rules \in Seq(Range(rules)), NEW text, NEW cards
  PROVE  \E texts \in [0..Len(rules) -> SUBSET text] :
           /\ texts[0] = text
           /\ \A i \in 1..Len(rules) : texts[i] = Leaves(rules[i], texts[i - 1], cards)
           /\ Scan(rules, text, cards).text = texts[Len(rules)]
           /\ \A r : Told(Scan(rules, text, cards), r) <=>
                \E i \in 1..Len(rules) : rules[i] = r /\ Finds(r, texts[i - 1], cards)
PROOF
<1> DEFINE n == Len(rules)
<1>1. PICK tr : Trace(tr, rules, text, cards) /\ Scan(rules, text, cards) = tr[n]
  BY ScanIsTrace
<1>2. n \in Nat
  OBVIOUS
<1>3. /\ \A i \in 0..n : tr[i] \in Scans(rules, text)
      /\ tr[0] = [text |-> text, matches |-> <<>>]
      /\ \A i \in 1..n : tr[i] = ScanRule(tr[i - 1], rules[i], cards)
  BY <1>1 DEF Trace
<1> DEFINE texts == [i \in 0..n |-> tr[i].text]
           Found(k, r) == \E i \in 1..k : rules[i] = r /\ Finds(r, texts[i - 1], cards)
           T == {k \in 0..n : \A r : Told(tr[k], r) <=> Found(k, r)}
<1>4. texts \in [0..n -> SUBSET text]
  BY <1>3 DEF Scans
<1>5. ASSUME NEW i \in 1..n
      PROVE  /\ texts[i] = Leaves(rules[i], texts[i - 1], cards)
             /\ \A r : Told(tr[i], r) <=>
                  Told(tr[i - 1], r) \/ (r = rules[i] /\ Finds(rules[i], texts[i - 1], cards))
  <2>1. i - 1 \in 0..n /\ i \in 0..n
    BY <1>2
  <2>2. tr[i] = ScanRule(tr[i - 1], rules[i], cards) /\ tr[i - 1] \in Scans(rules, text)
    BY <1>3, <2>1
  <2>3. texts[i] = tr[i].text /\ texts[i - 1] = tr[i - 1].text
    BY <2>1
  <2> HIDE DEF texts
  <2>. QED
    BY <2>2, <2>3, ScanRuleFinds
<1>6. 0 \in T
  <2>1. \A r : ~Told(tr[0], r)
    BY <1>3 DEF Told
  <2>2. 1..0 = {}
    OBVIOUS
  <2>3. \A r : ~Found(0, r)
    BY <2>2
  <2> HIDE DEF Found
  <2>. QED
    BY <1>2, <2>1, <2>3
<1>7. ASSUME NEW k \in 0..n, k \in T, k < n PROVE k + 1 \in T
  <2>1. k + 1 \in 1..n /\ k + 1 \in 0..n /\ (k + 1) - 1 = k /\ 1..(k + 1) = 1..k \cup {k + 1}
    BY <1>2, <1>7
  <2>2. \A r : Told(tr[k], r) <=> Found(k, r)
    BY <1>7
  <2>3. \A r : Told(tr[k + 1], r) <=>
          Told(tr[k], r) \/ (r = rules[k + 1] /\ Finds(rules[k + 1], texts[k], cards))
    <3> HIDE DEF texts
    <3>. QED
      BY <1>5, <2>1
  <2> HIDE DEF texts
  <2>4. \A r : Found(k + 1, r) <=>
          Found(k, r) \/ (r = rules[k + 1] /\ Finds(rules[k + 1], texts[k], cards))
    BY <2>1
  <2> HIDE DEF Found
  <2>. QED
    BY <2>1, <2>2, <2>3, <2>4
<1>8. n \in T
  <2> HIDE DEF T, texts, Found, n
  <2>1. 0..n \subseteq T
    BY <1>2, <1>6, <1>7, IntervalInduction
  <2>. QED
    BY <1>2, <2>1
<1>9. texts[0] = text /\ texts[n] = tr[n].text
  BY <1>2, <1>3
<1> HIDE DEF texts
<1>. QED
  BY <1>1, <1>4, <1>5, <1>8, <1>9

\* A scan adds nothing to the text.
LEMMA ScanWithin ==
  ASSUME NEW rules, rules \in Seq(Range(rules)), NEW text, NEW cards
  PROVE  Scan(rules, text, cards).text \subseteq text
PROOF
<1>1. PICK tr : Trace(tr, rules, text, cards) /\ Scan(rules, text, cards) = tr[Len(rules)]
  BY ScanIsTrace
<1>2. Len(rules) \in 0..Len(rules)
  OBVIOUS
<1>. QED
  BY <1>1, <1>2 DEF Trace, Scans


-----------------------------------------------------------------------------
(* Sums and card numbers *)

IsSum(g, n, e) ==
    g = [s \in SUBSET (1..n) |-> IF s = {} THEN 0 ELSE g[s \ {Max(s)}] + e[Max(s)]]

LEMMA SumExists == ASSUME NEW n \in Nat, NEW e \in [1..n -> Nat] PROVE \E g : IsSum(g, n, e)
PROOF
<1> DEFINE h == [p \in (1..n) \X Nat |-> p[2] + e[p[1]]]
<1>1. h \in [(1..n) \X Nat -> Nat] /\ \A x \in 1..n, a \in Nat : h[x, a] = a + e[x]
  <2>1. \A x \in 1..n, a \in Nat : a + e[x] \in Nat
    OBVIOUS
  <2>2. \A p \in (1..n) \X Nat : p[1] \in 1..n /\ p[2] \in Nat
    OBVIOUS
  <2>3. \A p \in (1..n) \X Nat : p[2] + e[p[1]] \in Nat
    BY <2>1, <2>2
  <2>. QED
    BY <2>3
<1> HIDE DEF h
<1>2. PICK g : IsFold(g, n, Nat, 0, h)
  BY <1>1, FoldExists
<1>3. ASSUME NEW s \in SUBSET (1..n)
      PROVE  g[s] = IF s = {} THEN 0 ELSE g[s \ {Max(s)}] + e[Max(s)]
  <2>1. CASE s = {}
    BY <1>2, <2>1 DEF IsFold
  <2>2. CASE s # {}
    <3>1. Max(s) \in 1..n
      BY <2>2, MaxExists
    <3>2. g[s \ {Max(s)}] \in Nat
      BY <1>2 DEF IsFold
    <3>. QED
      BY <1>1, <1>2, <2>2, <3>1, <3>2 DEF IsFold
  <2>. QED
    BY <2>1, <2>2
<1>4. IsSum(g, n, e)
  BY <1>2, <1>3 DEF IsFold, IsSum
<1>. QED
  BY <1>4

\* The sum of the first k, for k up to n.
SumSteps(g, n, e) ==
    /\ g[1..0] = 0
    /\ \A k \in 1..n : g[1..k] = g[1..(k - 1)] + e[k]
    /\ \A k \in 0..n : g[1..k] \in Nat

Sums(g, n, e) == n \in Nat /\ e \in [1..n -> Nat] /\ IsSum(g, n, e)

LEMMA SumUnrolled ==
  ASSUME NEW n, NEW e, NEW g, Sums(g, n, e)
  PROVE  SumSteps(g, n, e)
PROOF
<1>0. n \in Nat /\ e \in [1..n -> Nat] /\ IsSum(g, n, e)
  BY DEF Sums
<1>1. g[1..0] = 0
  <2>1. 1..0 = {}
    OBVIOUS
  <2>. QED
    BY <1>0, <2>1 DEF IsSum
<1>2. ASSUME NEW k \in 1..n PROVE g[1..k] = g[1..(k - 1)] + e[k]
  <2>1. (1..k) \in SUBSET (1..n)
    BY <1>0
  <2>2. 1..k # {} /\ Max(1..k) = k /\ (1..k) \ {Max(1..k)} = 1..(k - 1)
    <3>1. k \in Nat \ {0}
      BY <1>0
    <3>. QED
      BY <3>1, Unrolled
  <2>3. g[1..k] = IF 1..k = {} THEN 0 ELSE g[(1..k) \ {Max(1..k)}] + e[Max(1..k)]
    BY <1>0, <2>1 DEF IsSum
  <2>. QED
    BY <2>2, <2>3, Zenon
<1>3. \A k \in 0..n : g[1..k] \in Nat
  <2> DEFINE T == {k \in 0..n : g[1..k] \in Nat}
  <2>1. 0 \in T
    BY <1>0, <1>1
  <2>2. ASSUME NEW k \in 0..n, k \in T, k < n PROVE k + 1 \in T
    <3>1. k + 1 \in 1..n /\ (k + 1) - 1 = k
      BY <1>0, <2>2
    <3>2. g[1..(k + 1)] = g[1..k] + e[k + 1]
      BY <1>2, <3>1
    <3>. QED
      BY <1>0, <2>2, <3>1, <3>2
  <2> HIDE DEF T
  <2>3. 0..n \subseteq T
    BY <1>0, <2>1, <2>2, IntervalInduction
  <2>. QED
    BY <2>3 DEF T
<1>. QED
  BY <1>1, <1>2, <1>3 DEF SumSteps

\* Equal summands come to equal sums.
LEMMA SumsEqual ==
  ASSUME NEW n, NEW e, NEW g, NEW m, NEW f, NEW h,
         Sums(g, n, e), Sums(h, m, f), m <= n,
         \A k \in 1..m : e[k] = f[k]
  PROVE  g[1..m] = h[1..m]
PROOF
<1> DEFINE T == {k \in 0..m : g[1..k] = h[1..k]}
<1>0. m \in Nat /\ n \in Nat /\ SumSteps(g, n, e) /\ SumSteps(h, m, f)
  BY SumUnrolled DEF Sums
<1>1. 0 \in T
  BY <1>0 DEF SumSteps
<1>2. ASSUME NEW k \in 0..m, k \in T, k < m PROVE k + 1 \in T
  <2>1. k + 1 \in 1..m /\ k + 1 \in 1..n /\ (k + 1) - 1 = k
    BY <1>0, <1>2
  <2>2. g[1..(k + 1)] = g[1..k] + e[k + 1]
    BY <1>0, <2>1 DEF SumSteps
  <2>3. h[1..(k + 1)] = h[1..k] + f[k + 1]
    BY <1>0, <2>1 DEF SumSteps
  <2>. QED
    BY <1>2, <2>1, <2>2, <2>3
<1> HIDE DEF T
<1>3. 0..m \subseteq T
  BY <1>0, <1>1, <1>2, IntervalInduction
<1>. QED
  BY <1>0, <1>3 DEF T

\* What the code adds up of the i-th of n digits.
Counted(digits, i) ==
    LET d == IF (i - 1) % 2 = Len(digits) % 2 THEN 2 * digits[i] ELSE digits[i]
    IN  IF d > 9 THEN d - 9 ELSE d

\* A number passes the code's test when ten divides the sum of what its digits count.
LEMMA LuhnIsSum ==
  ASSUME NEW digits \in Seq(0..9)
  PROVE  \E g : /\ IsSum(g, Len(digits), [i \in 1..Len(digits) |-> Counted(digits, i)])
                /\ IsValidLuhn(digits) <=> /\ Len(digits) \in 13..19
                                           /\ g[1..Len(digits)] % 10 = 0
PROOF
<1> DEFINE n == Len(digits)
           e == [i \in 1..n |-> Counted(digits, i)]
           places == [i \in 1..n |-> i]
           step(f, s) == IF s = {} THEN 0
                         ELSE f[s \ {Max(s)}] + Counted(digits, places[Max(s)])
           iter == CHOOSE f : f = [s \in SUBSET DOMAIN places |-> step(f, s)]
<1>1. n \in Nat /\ DOMAIN places = 1..n
  OBVIOUS
<1>2. \A i \in 1..n : Counted(digits, i) \in Nat
  BY DEF Counted
<1>3. e \in [1..n -> Nat]
  BY <1>2
<1>4. ASSUME NEW f, NEW s \in SUBSET (1..n)
      PROVE  step(f, s) = IF s = {} THEN 0 ELSE f[s \ {Max(s)}] + e[Max(s)]
  <2>1. CASE s = {}
    BY <2>1
  <2>2. CASE s # {}
    <3>1. Max(s) \in 1..n
      BY <1>1, <2>2, MaxExists
    <3>2. places[Max(s)] = Max(s) /\ e[Max(s)] = Counted(digits, Max(s))
      BY <3>1
    <3>. QED
      BY <2>2, <3>2
  <2>. QED
    BY <2>1, <2>2
<1>5. PICK g : IsSum(g, n, e)
  <2> HIDE DEF n, e
  <2>. QED
    BY <1>1, <1>3, SumExists
<1>6. g = [s \in SUBSET DOMAIN places |-> step(g, s)]
  <2> HIDE DEF step, e
  <2>. QED
    BY <1>1, <1>4, <1>5 DEF IsSum
<1>7. iter = [s \in SUBSET DOMAIN places |-> step(iter, s)]
  <2> HIDE DEF step
  <2>. QED
    BY <1>6
<1>8. IsValidLuhn(digits) <=> n \in 13..19 /\ iter[DOMAIN places] % 10 = 0
  BY DEF IsValidLuhn, FoldLeft, MapThenFoldSet, Counted
<1> HIDE DEF iter
<1>9. IsSum(iter, n, e)
  <2> HIDE DEF step, e
  <2>. QED
    BY <1>1, <1>4, <1>7 DEF IsSum
<1>. QED
  BY <1>1, <1>8, <1>9

-----------------------------------------------------------------------------
(* What a policy does to a text *)

LEMMA PolicySelected ==
  ASSUME NEW policies, policies \in Seq(Range(policies)), NEW provider
  PROVE  SelectPolicy(policies, provider) # 0 => SelectPolicy(policies, provider) \in DOMAIN policies
PROOF
<1> DEFINE I == {i \in 1..Len(policies) :
                   policies[i].enabled /\ (policies[i].applies = {} \/ provider \in policies[i].applies)}
<1>1. SelectPolicy(policies, provider) = IF I # {} THEN Min(I) ELSE 0
  BY DEF SelectPolicy, SelectInSeq
<1>2. I \in SUBSET Nat /\ I \subseteq DOMAIN policies
  OBVIOUS
<1> HIDE DEF I
<1>3. I # {} => Min(I) \in I
  BY <1>2, MinExists
<1>. QED
  BY <1>1, <1>2, <1>3

\* In what the inbound policy lets through no rule that blocks or redacts finds anything.
THEOREM InboundClears ==
  ASSUME NEW policies, policies \in Seq(Range(policies)), NEW text, NEW provider, NEW cards,
         \A p \in DOMAIN policies : policies[p].inbound \in Seq(Range(policies[p].inbound)),
         CheckInbound(policies, text, provider, cards).action # "block"
  PROVE  /\ CheckInbound(policies, text, provider, cards).text \subseteq text
         /\ \A p \in DOMAIN policies : p = SelectPolicy(policies, provider) =>
              \A i \in DOMAIN policies[p].inbound :
                \A m \in policies[p].inbound[i].pattern
                           \cap CheckInbound(policies, text, provider, cards).text :
                  (policies[p].inbound[i].luhn => m \in cards) =>
                     policies[p].inbound[i].action \notin {"block", "redact"}
PROOF
<1> DEFINE q == SelectPolicy(policies, provider)
           rules == policies[q].inbound
           scan == Scan(rules, text, cards)
           in == CheckInbound(policies, text, provider, cards)
<1>1. CASE q = 0
  <2>1. in.text = text
    BY <1>1 DEF CheckInbound, Pass
  <2>2. \A p \in DOMAIN policies : p # q
    BY <1>1
  <2>. QED
    BY <2>1, <2>2
<1>2. CASE q # 0
  <2>1. q \in DOMAIN policies
    BY <1>2, PolicySelected
  <2>2. rules \in Seq(Range(rules))
    BY <2>1
  <2>3. ~HasAction(scan, "block") /\ in.text = scan.text
    BY <1>2 DEF CheckInbound, Pass
  <2> HIDE DEF q
  <2>4. scan.text \subseteq text
    BY <2>2, ScanWithin
  <2>5. ASSUME NEW i \in DOMAIN rules, NEW m \in rules[i].pattern \cap in.text,
               rules[i].luhn => m \in cards
        PROVE  rules[i].action \notin {"block", "redact"}
    <3> HIDE DEF rules, in
    <3>1. m \in rules[i].pattern /\ m \in Scan(rules, text, cards).text
      BY <2>3
    <3>2. rules[i].action # "redact" /\ HasAction(Scan(rules, text, cards), rules[i].action)
      BY <2>2, <2>5, <3>1, LeftIsFound
    <3>. QED
      BY <2>3, <3>2
  <2>. QED
    BY <2>3, <2>4, <2>5 DEF q
<1>. QED
  BY <1>1, <1>2

\* A rule has found what it looks for in the text, unless a rule before it redacted that.
THEOREM ScanSees ==
  ASSUME NEW rules, rules \in Seq(Range(rules)), NEW text, NEW cards, NEW i \in DOMAIN rules,
         NEW m \in rules[i].pattern, m \in text, rules[i].luhn => m \in cards,
         \A j \in 1..i-1 : rules[j].action = "redact" => m \notin rules[j].pattern
  PROVE  HasAction(Scan(rules, text, cards), rules[i].action)
PROOF
<1> DEFINE n == Len(rules)
           scan == Scan(rules, text, cards)
<1>1. PICK tr : Trace(tr, rules, text, cards) /\ scan = tr[n]
  BY ScanIsTrace
<1>2. n \in Nat /\ i \in 1..n /\ i \in 0..n /\ i - 1 \in 0..n /\ i - 1 \in Nat
  OBVIOUS
<1> DEFINE T == {k \in 0..(i - 1) : m \in tr[k].text}
<1>3. 0 \in T
  BY <1>1, <1>2 DEF Trace
<1>4. ASSUME NEW k \in 0..(i - 1), k \in T, k < i - 1 PROVE k + 1 \in T
  <2>1. k + 1 \in 1..n /\ k + 1 \in 1..(i - 1) /\ k + 1 \in 0..(i - 1) /\ (k + 1) - 1 = k
    BY <1>2, <1>4
  <2>2. tr[k + 1] = ScanRule(tr[k], rules[k + 1], cards)
    BY <1>1, <2>1 DEF Trace
  <2>3. m \in tr[k].text /\ (rules[k + 1].action = "redact" => m \notin rules[k + 1].pattern)
    BY <1>4, <2>1
  <2>4. m \in tr[k + 1].text
    BY <2>2, <2>3 DEF ScanRule
  <2>. QED
    BY <2>1, <2>4
<1> HIDE DEF T
<1>5. i - 1 \in T
  <2>1. 0..(i - 1) \subseteq T
    BY <1>2, <1>3, <1>4, IntervalInduction
  <2>. QED
    BY <1>2, <2>1
<1>6. m \in tr[i - 1].text /\ tr[i - 1].matches \in Seq(Range(rules))
  BY <1>1, <1>2, <1>5 DEF T, Trace, Scans
<1>7. tr[i] = ScanRule(tr[i - 1], rules[i], cards)
  BY <1>1, <1>2 DEF Trace
<1>8. tr[i].matches = Append(tr[i - 1].matches, rules[i])
  BY <1>6, <1>7 DEF ScanRule
<1>9. Told(tr[i], rules[i])
  <2>1. Len(tr[i].matches) \in DOMAIN tr[i].matches /\ tr[i].matches[Len(tr[i].matches)] = rules[i]
    BY <1>6, <1>8
  <2>. QED
    BY <2>1 DEF Told
<1>10. Told(tr[n], rules[i])
  BY <1>1, <1>2, <1>9, TraceShrinks
<1>. QED
  BY <1>1, <1>10 DEF HasAction, Told

\* In what the outbound policy lets through, as it leaves it, no rule that blocks, reroutes
\* or redacts finds anything, and in the text as it was no rule that blocks or reroutes
\* finds what was not redacted before.
THEOREM OutboundClears ==
  ASSUME NEW policies, policies \in Seq(Range(policies)), NEW text, NEW provider, NEW cards,
         \A p \in DOMAIN policies : policies[p].outbound \in Seq(Range(policies[p].outbound)),
         CheckOutbound(policies, text, provider, cards).action \notin {"block", "reroute"},
         NEW p \in DOMAIN policies, p = SelectPolicy(policies, provider),
         NEW i \in DOMAIN policies[p].outbound, NEW m \in policies[p].outbound[i].pattern,
         policies[p].outbound[i].luhn => m \in cards
  PROVE  /\ m \in CheckOutbound(policies, text, provider, cards).text =>
              policies[p].outbound[i].action \notin {"block", "reroute", "redact"}
         /\ m \in text /\ (\A j \in 1..i-1 : policies[p].outbound[j].action = "redact" =>
                               m \notin policies[p].outbound[j].pattern)
              => policies[p].outbound[i].action \notin {"block", "reroute"}
PROOF
<1> DEFINE rules == policies[p].outbound
           scan == Scan(rules, text, cards)
           out == CheckOutbound(policies, text, provider, cards)
<1>1. p # 0
  OBVIOUS
<1>2. ~HasAction(scan, "block") /\ ~HasAction(scan, "reroute") /\ out.text = scan.text
  <2>1. out = CASE HasAction(scan, "block") -> [Pass(text) EXCEPT !.action = "block"]
               [] HasAction(scan, "reroute") /\ ~HasAction(scan, "block") ->
                    [Pass(text) EXCEPT !.action = "reroute", !.to = RerouteTarget(scan)]
               [] ~HasAction(scan, "reroute") /\ ~HasAction(scan, "block") ->
                    [Pass(scan.text) EXCEPT !.action =
                        IF scan.text # text THEN "redact"
                        ELSE IF scan.matches # <<>> THEN "log" ELSE "pass"]
    BY <1>1 DEF CheckOutbound
  <2> HIDE DEF scan
  <2>. QED
    BY <2>1 DEF Pass, out
<1>3. rules \in Seq(Range(rules))
  OBVIOUS
<1> HIDE DEF rules, out
<1>4. i \in DOMAIN rules /\ m \in rules[i].pattern /\ (rules[i].luhn => m \in cards)
  BY DEF rules
<1>5. m \in out.text => rules[i].action \notin {"block", "reroute", "redact"}
  BY <1>2, <1>3, <1>4, LeftIsFound
<1>6. m \in text /\ (\A j \in 1..i-1 : rules[j].action = "redact" => m \notin rules[j].pattern)
        => rules[i].action \notin {"block", "reroute"}
  BY <1>2, <1>3, <1>4, ScanSees
<1>. QED
  BY <1>5, <1>6 DEF rules, out
=============================================================================
