--------------------------- MODULE RoutingProofs ----------------------------
(* How a request is routed, proved for any rules, policies, judges' verdicts *)
(* and numbers of requests and reloads: where it is sent first, where an     *)
(* error sends it, that no provider fails it twice, and when a verdict may   *)
(* decide.                                                                   *)
EXTENDS Routing, DataProofs, SequenceTheorems

-----------------------------------------------------------------------------
(* What is left of a sequence *)

LEMMA SeqOfOwn == ASSUME NEW S, NEW s \in Seq(S) PROVE IsSequence(s)
PROOF
<1>1. \A i \in 1..Len(s) : s[i] \in Range(s)
  BY DEF Range
<1>. QED
  BY <1>1 DEF IsSequence

LEMMA NothingIsSeq == IsSequence(<<>>) /\ Len(<<>>) = 0
PROOF
<1>1. <<>> \in Seq({})
  OBVIOUS
<1>. QED
  BY <1>1, SeqOfOwn

LEMMA OwnOfSeq ==
  ASSUME NEW s, IsSequence(s)
  PROVE  /\ s \in Seq(Range(s)) /\ Len(s) \in Nat /\ DOMAIN s = 1..Len(s)
         /\ \A i \in 1..Len(s) : s[i] \in Range(s)
PROOF
<1>1. s \in Seq(Range(s))
  BY DEF IsSequence
<1>. QED
  BY <1>1

FilterTrace(tr, seq, out) ==
    /\ tr \in [0..Len(seq) -> Seq(Range(seq))]
    /\ tr[0] = <<>>
    /\ \A i \in 1..Len(seq) :
         tr[i] = IF seq[i] \in out THEN tr[i - 1] ELSE Append(tr[i - 1], seq[i])

LEMMA WithoutIsTrace ==
  ASSUME NEW seq, IsSequence(seq), NEW out
  PROVE  \E tr : FilterTrace(tr, seq, out) /\ Without(seq, out) = tr[Len(seq)]
PROOF
<1> DEFINE n == Len(seq)
           A == Seq(Range(seq))
           Put1(kept, p) == IF p \in out THEN kept ELSE Append(kept, p)
           h == [p \in (1..n) \X A |-> Put1(p[2], seq[p[1]])]
           step(f, s) == IF s = {} THEN <<>> ELSE Put1(f[s \ {Max(s)}], seq[Max(s)])
           iter == CHOOSE f : f = [s \in SUBSET DOMAIN seq |-> step(f, s)]
<1>1. n \in Nat /\ DOMAIN seq = 1..n /\ \A i \in 1..n : seq[i] \in Range(seq)
  BY OwnOfSeq
<1>2. <<>> \in A
  OBVIOUS
<1>3. \A kept \in A, p \in Range(seq) : Put1(kept, p) \in A
  OBVIOUS
<1> HIDE DEF A, Put1
<1>4. \A x \in 1..n, a \in A : h[x, a] = Put1(a, seq[x]) /\ h[x, a] \in A
  BY <1>1, <1>3
<1>5. h \in [(1..n) \X A -> A]
  BY <1>1, <1>3
<1>6. PICK g : IsFold(g, n, A, <<>>, h)
  <2> HIDE DEF n, h
  <2>. QED
    BY <1>1, <1>2, <1>5, FoldExists
<1>7. ASSUME NEW s \in SUBSET (1..n) PROVE g[s] = step(g, s)
  <2>1. CASE s = {}
    BY <1>6, <2>1 DEF IsFold
  <2>2. CASE s # {}
    <3> HIDE DEF h
    <3>1. Max(s) \in 1..n
      BY <1>1, <2>2, MaxExists
    <3>2. g[s \ {Max(s)}] \in A
      BY <1>6 DEF IsFold
    <3>3. h[Max(s), g[s \ {Max(s)}]] = Put1(g[s \ {Max(s)}], seq[Max(s)])
      BY <1>4, <3>1, <3>2
    <3>. QED
      BY <1>6, <2>2, <3>3 DEF IsFold
  <2>. QED
    BY <2>1, <2>2
<1>8. g = [s \in SUBSET DOMAIN seq |-> step(g, s)]
  <2> HIDE DEF step
  <2>. QED
    BY <1>1, <1>6, <1>7 DEF IsFold
<1>9. iter = [s \in SUBSET DOMAIN seq |-> step(iter, s)]
  <2> HIDE DEF step
  <2>. QED
    BY <1>8
<1>10. Without(seq, out) = iter[DOMAIN seq]
  BY DEF Without, FoldLeft, MapThenFoldSet, Put1
<1> HIDE DEF iter
<1>11. iter[{}] = <<>>
  BY <1>9
<1>12. ASSUME NEW k \in 1..n PROVE iter[1..k] = Put1(iter[1..(k - 1)], seq[k])
  <2>1. (1..k) \in SUBSET DOMAIN seq /\ k \in Nat \ {0}
    BY <1>1
  <2>2. iter[1..k] = step(iter, 1..k)
    BY <1>9, <2>1
  <2>3. 1..k # {} /\ Max(1..k) = k /\ (1..k) \ {Max(1..k)} = 1..(k - 1)
    BY <2>1, Unrolled
  <2>. QED
    BY <2>2, <2>3, Zenon
<1> DEFINE tr == [k \in 0..n |-> iter[1..k]]
<1>13. 1..0 = {}
  OBVIOUS
<1>14. \A k \in 0..n : tr[k] \in A
  <2> DEFINE T == {k \in 0..n : iter[1..k] \in A}
  <2>1. 0 \in T
    BY <1>1, <1>2, <1>11, <1>13
  <2>2. ASSUME NEW k \in 0..n, k \in T, k < n PROVE k + 1 \in T
    <3>1. k + 1 \in 1..n /\ k + 1 \in 0..n /\ (k + 1) - 1 = k
      BY <1>1, <2>2
    <3>2. iter[1..(k + 1)] = Put1(iter[1..k], seq[k + 1])
      BY <1>12, <3>1
    <3>3. iter[1..k] \in A
      BY <2>2
    <3>. QED
      BY <1>1, <1>3, <3>1, <3>2, <3>3
  <2> HIDE DEF T
  <2>3. 0..n \subseteq T
    BY <1>1, <2>1, <2>2, IntervalInduction
  <2>. QED
    BY <2>3 DEF T
<1>15. FilterTrace(tr, seq, out)
  <2>1. tr \in [0..n -> A]
    BY <1>14
  <2>2. tr[0] = <<>>
    BY <1>1, <1>11, <1>13
  <2>3. \A i \in 1..n : tr[i] = Put1(tr[i - 1], seq[i])
    BY <1>1, <1>12
  <2> HIDE DEF tr
  <2>. QED
    BY <2>1, <2>2, <2>3 DEF FilterTrace, Put1, A
<1>16. Without(seq, out) = tr[n]
  BY <1>1, <1>10
<1>. QED
  BY <1>15, <1>16

\* What is left is of the sequence and not of the set, and what a sequence has once it has
\* at most once afterwards.
LEMMA WithoutKeeps ==
  ASSUME NEW seq, IsSequence(seq), NEW out
  PROVE  /\ IsSequence(Without(seq, out))
         /\ \A a \in DOMAIN Without(seq, out) :
              /\ Without(seq, out)[a] \notin out
              /\ \E j \in DOMAIN seq : seq[j] = Without(seq, out)[a]
         /\ IsInjective(seq) => IsInjective(Without(seq, out))
PROOF
<1> DEFINE n == Len(seq)
<1>1. PICK tr : FilterTrace(tr, seq, out) /\ Without(seq, out) = tr[n]
  BY WithoutIsTrace
<1>2. n \in Nat /\ DOMAIN seq = 1..n
  BY OwnOfSeq
<1> DEFINE From(w, k) == \A a \in DOMAIN w : w[a] \notin out /\ \E j \in 1..k : seq[j] = w[a]
           T == {k \in 0..n : From(tr[k], k) /\ (IsInjective(seq) => IsInjective(tr[k]))}
<1>3. 0 \in T
  BY <1>1, <1>2 DEF FilterTrace, IsInjective
<1>4. ASSUME NEW k \in 0..n, k \in T, k < n PROVE k + 1 \in T
  <2>1. k + 1 \in 1..n /\ k + 1 \in 0..n /\ (k + 1) - 1 = k /\ \A j \in 1..k : j \in 1..n /\ j # k + 1
    BY <1>2, <1>4
  <2>2. tr[k + 1] = IF seq[k + 1] \in out THEN tr[k] ELSE Append(tr[k], seq[k + 1])
    BY <1>1, <2>1 DEF FilterTrace
  <2>3. tr[k] \in Seq(Range(seq))
    BY <1>1 DEF FilterTrace
  <2>4. From(tr[k], k) /\ (IsInjective(seq) => IsInjective(tr[k]))
    BY <1>4
  <2>5. CASE seq[k + 1] \in out
    <3>1. tr[k + 1] = tr[k] /\ \A j \in 1..k : j \in 1..(k + 1)
      BY <2>2, <2>5
    <3>. QED
      BY <2>1, <2>4, <3>1
  <2>6. CASE seq[k + 1] \notin out
    <3> DEFINE w == tr[k]
               v == tr[k + 1]
    <3>1. /\ DOMAIN v = DOMAIN w \cup {Len(w) + 1} /\ Len(w) + 1 \notin DOMAIN w
          /\ v[Len(w) + 1] = seq[k + 1] /\ \A a \in DOMAIN w : v[a] = w[a]
      BY <2>2, <2>3, <2>6
    <3>2. From(v, k + 1)
      <4>1. k + 1 \in 1..(k + 1) /\ \A j \in 1..k : j \in 1..(k + 1)
        BY <2>1
      <4> HIDE DEF v, w
      <4>. QED
        BY <2>4, <2>6, <3>1, <4>1 DEF w
    <3>3. ASSUME IsInjective(seq) PROVE IsInjective(v)
      <4>1. \A a \in DOMAIN w : v[a] # v[Len(w) + 1]
        <5>1. \A a \in DOMAIN w : \E j \in 1..k : seq[j] = w[a]
          BY <2>4
        <5>2. \A j \in 1..k : seq[j] # seq[k + 1]
          BY <1>2, <2>1, <3>3 DEF IsInjective
        <5> HIDE DEF v, w
        <5>. QED
          BY <3>1, <5>1, <5>2
      <4>2. IsInjective(w)
        BY <2>4, <3>3
      <4> HIDE DEF v, w
      <4>. QED
        BY <3>1, <4>1, <4>2 DEF IsInjective
    <3>. QED
      BY <2>1, <3>2, <3>3
  <2>. QED
    BY <2>5, <2>6
<1> HIDE DEF T
<1>5. n \in T
  <2>1. 0..n \subseteq T
    BY <1>2, <1>3, <1>4, IntervalInduction
  <2>. QED
    BY <1>2, <2>1
<1>6. tr[n] \in Seq(Range(seq))
  BY <1>1, <1>2 DEF FilterTrace
<1>. QED
  BY <1>1, <1>2, <1>5, <1>6, SeqOfOwn DEF T

LEMMA AppendOwn ==
  ASSUME NEW s, IsSequence(s), NEW x
  PROVE  /\ IsSequence(Append(s, x)) /\ Len(Append(s, x)) = Len(s) + 1
         /\ Append(s, x)[Len(s) + 1] = x /\ \A j \in 1..Len(s) : Append(s, x)[j] = s[j]
PROOF
<1> DEFINE S == Range(s) \cup {x}
<1>1. s \in Seq(Range(s)) /\ Range(s) \subseteq S /\ x \in S
  BY DEF IsSequence
<1> HIDE DEF S
<1>2. s \in Seq(S)
  BY <1>1
<1>3. /\ Append(s, x) \in Seq(S) /\ Len(Append(s, x)) = Len(s) + 1
      /\ Append(s, x)[Len(s) + 1] = x /\ \A j \in 1..Len(s) : Append(s, x)[j] = s[j]
  BY <1>1, <1>2
<1>4. IsSequence(Append(s, x))
  BY <1>3, SeqOfOwn
<1>. QED
  BY <1>3, <1>4

\* A name put at a position and taken out behind it.
LEMMA InsertedGives ==
  ASSUME NEW s, IsSequence(s), NEW n \in 1..Len(s), NEW name
  PROVE  LET w == Inserted(s, name, n + 1)
         IN  /\ IsSequence(w) /\ Len(w) >= n + 1 /\ w[n + 1] = name
             /\ \A j \in 1..n : w[j] = s[j]
             /\ IsInjective(s) /\ (\A j \in 1..n : s[j] # name) => IsInjective(w)
PROOF
<1> DEFINE S == Range(s) \cup {name}
           front == SubSeq(s, 1, n)
           rest == SubSeq(s, n + 1, Len(s))
           only == {name}
           kept == Without(rest, only)
           w == front \o <<name>> \o kept
<1>1. s \in Seq(S) /\ Len(s) \in Nat /\ n \in Nat /\ n <= Len(s) /\ DOMAIN s = 1..Len(s) /\ name \in S
  <2>1. s \in Seq(Range(s)) /\ Len(s) \in Nat
    BY DEF IsSequence
  <2> DEFINE R == Range(s)
  <2>2. s \in Seq(R) /\ R \subseteq S
    BY <2>1
  <2> HIDE DEF S, R
  <2>3. s \in Seq(S)
    BY <2>2
  <2>. QED
    BY <2>1, <2>3 DEF S
<1> HIDE DEF S
<1>2. front \in Seq(S) /\ Len(front) = n /\ \A j \in 1..n : front[j] = s[j]
  BY <1>1
<1>3. /\ rest \in Seq(S) /\ DOMAIN rest = 1..(Len(s) - n)
      /\ \A j \in 1..(Len(s) - n) : rest[j] = s[n + j]
  <2> DEFINE m == n + 1
             l == Len(s)
  <2>1. m \in Int /\ l \in Int /\ \A i \in m..l : s[i] \in S
    BY <1>1
  <2>2. rest = SubSeq(s, m, l)
    OBVIOUS
  <2> HIDE DEF l
  <2>3. l \in Nat /\ n \in Nat /\ n <= l
    BY <1>1 DEF l
  <2>5. /\ l - m + 1 = l - n /\ (IF m <= l THEN l - m + 1 ELSE 0) = l - n
        /\ \A j \in 1..(l - n) : m + j - 1 = n + j
    BY <2>3
  <2> HIDE DEF rest, m
  <2>4. /\ rest \in Seq(S) /\ Len(rest) = IF m <= l THEN l - m + 1 ELSE 0
        /\ \A j \in 1..(l - m + 1) : rest[j] = s[m + j - 1]
    BY <2>1, <2>2, SubSeqProperties
  <2>6. DOMAIN rest = 1..(l - n)
    BY <2>4, <2>5
  <2>. QED
    BY <2>4, <2>5, <2>6 DEF l
<1> HIDE DEF front, rest
<1>4. IsSequence(rest)
  BY <1>3, SeqOfOwn
<1>5. /\ IsSequence(kept)
      /\ \A a \in DOMAIN kept : kept[a] # name /\ \E j \in DOMAIN rest : rest[j] = kept[a]
      /\ IsInjective(rest) => IsInjective(kept)
  <2> HIDE DEF only
  <2>1. /\ IsSequence(kept) /\ (IsInjective(rest) => IsInjective(kept))
        /\ \A a \in DOMAIN kept : kept[a] \notin only /\ \E j \in DOMAIN rest : rest[j] = kept[a]
    BY <1>4, WithoutKeeps
  <2> HIDE DEF kept
  <2>. QED
    BY <2>1 DEF only
<1> HIDE DEF kept
<1>6. kept \in Seq(Range(kept)) /\ Len(kept) \in Nat /\ DOMAIN kept = 1..Len(kept)
  BY <1>5, OwnOfSeq
<1>7. Range(kept) \subseteq S
  BY <1>3, <1>5 DEF Range
<1>8. kept \in Seq(S)
  BY <1>6, <1>7
<1>9. /\ w \in Seq(S) /\ Len(w) = n + 1 + Len(kept) /\ w[n + 1] = name
      /\ \A j \in 1..n : w[j] = s[j]
      /\ \A j \in 1..Len(kept) : w[n + 1 + j] = kept[j]
  <2> DEFINE mid == front \o <<name>>
  <2>1. /\ mid \in Seq(S) /\ Len(mid) = n + 1 /\ mid[n + 1] = name
        /\ \A j \in 1..n : mid[j] = s[j]
    BY <1>1, <1>2
  <2>2. w = mid \o kept
    OBVIOUS
  <2> HIDE DEF mid
  <2>3. /\ w \in Seq(S) /\ Len(w) = Len(mid) + Len(kept)
        /\ \A j \in 1..(n + 1) : w[j] = mid[j]
        /\ \A j \in 1..Len(kept) : w[Len(mid) + j] = kept[j]
    <3>1. Len(mid) \in Nat /\ \A j \in 1..Len(kept) : /\ Len(mid) + j \in 1..(Len(mid) + Len(kept))
                                                    /\ ~(Len(mid) + j <= Len(mid))
                                                    /\ (Len(mid) + j) - Len(mid) = j
      BY <1>1, <1>6, <2>1
    <3>2. \A j \in 1..(n + 1) : j \in 1..(Len(mid) + Len(kept)) /\ j <= Len(mid)
      BY <1>1, <1>6, <2>1
    <3>3. /\ mid \o kept \in Seq(S) /\ Len(mid \o kept) = Len(mid) + Len(kept)
          /\ \A i \in 1..(Len(mid) + Len(kept)) :
               (mid \o kept)[i] = IF i <= Len(mid) THEN mid[i] ELSE kept[i - Len(mid)]
      BY <1>8, <2>1, ConcatProperties
    <3> HIDE DEF w
    <3>4. w \in Seq(S) /\ Len(w) = Len(mid) + Len(kept)
          /\ \A i \in 1..(Len(mid) + Len(kept)) :
               w[i] = IF i <= Len(mid) THEN mid[i] ELSE kept[i - Len(mid)]
      BY <2>2, <3>3
    <3>. QED
      BY <3>1, <3>2, <3>4
  <2> HIDE DEF w
  <2>4. n + 1 \in 1..(n + 1) /\ \A j \in 1..n : j \in 1..(n + 1)
    BY <1>1
  <2>. QED
    BY <2>1, <2>3, <2>4
<1>10. Inserted(s, name, n + 1) = w
  BY <1>1 DEF Inserted, front, rest, kept
<1>11. ASSUME IsInjective(s), \A j \in 1..n : s[j] # name PROVE IsInjective(w)
  <2>1. IsInjective(rest)
    <3>1. \A a \in 1..(Len(s) - n) : n + a \in DOMAIN s
      BY <1>1
    <3>2. \A a, b \in 1..(Len(s) - n) : n + a = n + b => a = b
      BY <1>1
    <3>. QED
      BY <1>3, <1>11, <3>1, <3>2 DEF IsInjective
  <2>2. \A a, b \in 1..Len(kept) : kept[a] = kept[b] => a = b
    BY <1>5, <1>6, <2>1 DEF IsInjective
  <2>8. \A a \in 1..Len(kept) : kept[a] # name
    BY <1>5, <1>6
  <2>3. \A a \in 1..Len(kept), j \in 1..n : kept[a] # s[j]
    <3> TAKE a \in 1..Len(kept), j \in 1..n
    <3>1. PICK k \in 1..(Len(s) - n) : rest[k] = kept[a]
      BY <1>3, <1>5, <1>6
    <3>2. s[n + k] = kept[a] /\ n + k \in DOMAIN s /\ j \in DOMAIN s /\ n + k # j
      BY <1>1, <1>3, <3>1
    <3>. QED
      BY <1>11, <3>2 DEF IsInjective
  <2>4. \A a, b \in 1..n : s[a] = s[b] => a = b
    BY <1>1, <1>11 DEF IsInjective
  <2>5. ASSUME NEW x \in 1..Len(w)
        PROVE  \/ x \in 1..n
               \/ x = n + 1
               \/ \E a \in 1..Len(kept) : x = n + 1 + a
    <3>1. CASE x > n + 1
      <4>1. x - (n + 1) \in 1..Len(kept) /\ x = n + 1 + (x - (n + 1))
        BY <1>1, <1>6, <1>9, <3>1
      <4>. QED
        BY <4>1
    <3>2. CASE x <= n + 1
      BY <1>1, <3>2
    <3>. QED
      BY <1>1, <1>6, <1>9, <3>1, <3>2
  <2>6. ASSUME NEW x \in 1..Len(w), NEW y \in 1..Len(w), w[x] = w[y] PROVE x = y
    <3> HIDE DEF w
    <3>1. ASSUME NEW a \in 1..n, NEW u \in 1..Len(w), w[a] = w[u] PROVE a = u
      <4>1. w[a] = s[a] /\ s[a] # name
        BY <1>9, <1>11
      <4>2. u \notin 1..n => w[u] = name \/ \E b \in 1..Len(kept) : w[u] = kept[b]
        BY <1>9, <2>5
      <4>3. u \in 1..n
        <5> SUFFICES ASSUME u \notin 1..n PROVE FALSE
          OBVIOUS
        <5>1. CASE w[u] = name
          BY <3>1, <4>1, <5>1
        <5>2. CASE \E b \in 1..Len(kept) : w[u] = kept[b]
          BY <2>3, <3>1, <4>1, <5>2
        <5>. QED
          BY <4>2, <5>1, <5>2
      <4>4. w[u] = s[u]
        BY <1>9, <4>3
      <4>. QED
        BY <2>4, <3>1, <4>1, <4>3, <4>4
    <3>2. CASE x \in 1..n
      BY <2>6, <3>1, <3>2
    <3>3. CASE y \in 1..n
      BY <2>6, <3>1, <3>3
    <3>4. CASE x \notin 1..n /\ y \notin 1..n /\ (x = n + 1 \/ y = n + 1)
      <4>1. \A u \in 1..Len(w) : u \notin 1..n /\ u # n + 1 => w[u] # name
        BY <1>9, <2>5, <2>8
      <4>2. w[n + 1] = name
        BY <1>9
      <4>. QED
        BY <2>6, <3>4, <4>1, <4>2
    <3>5. CASE x \notin 1..n /\ y \notin 1..n /\ x # n + 1 /\ y # n + 1
      <4>1. PICK a \in 1..Len(kept) : x = n + 1 + a
        BY <2>5, <3>5
      <4>2. PICK b \in 1..Len(kept) : y = n + 1 + b
        BY <2>5, <3>5
      <4>3. kept[a] = kept[b]
        BY <1>9, <2>6, <4>1, <4>2
      <4>. QED
        BY <2>2, <4>1, <4>2, <4>3
    <3>. QED
      BY <3>2, <3>3, <3>4, <3>5
  <2>7. DOMAIN w = 1..Len(w)
    BY <1>9
  <2>. QED
    BY <2>6, <2>7 DEF IsInjective
<1>12. IsSequence(w)
  BY <1>9, SeqOfOwn
<1> HIDE DEF w
<1>. QED
  BY <1>1, <1>6, <1>9, <1>10, <1>11, <1>12

\* The filter keeps a sequence of candidates one without repetitions: no provider is in
\* two groups.
LEMMA FilteredKeeps ==
  ASSUME NEW seq, IsSequence(seq), NEW groups \in Filters
  PROVE  /\ IsSequence(Filtered(seq, groups))
         /\ IsInjective(seq) => IsInjective(Filtered(seq, groups))
PROOF
<1> DEFINE A == Range(seq)
           parts == [n \in DOMAIN groups |-> Without(seq, A \ groups[n])]
           left == Filtered(seq, groups)
<1>1. DOMAIN groups = 1..Len(groups) /\ Len(groups) \in Nat
  BY FiltersAssumption, OwnOfSeq
<1>2. ASSUME NEW n \in DOMAIN groups
      PROVE  /\ parts[n] \in Seq(A)
             /\ \A a \in DOMAIN parts[n] : parts[n][a] \in groups[n]
             /\ IsInjective(seq) => IsInjective(parts[n])
  <2> DEFINE part == Without(seq, A \ groups[n])
  <2>1. /\ IsSequence(part)
        /\ \A a \in DOMAIN part : part[a] \notin A \ groups[n] /\ \E j \in DOMAIN seq : seq[j] = part[a]
        /\ IsInjective(seq) => IsInjective(part)
    BY WithoutKeeps
  <2>2. parts[n] = part
    OBVIOUS
  <2> HIDE DEF part, parts
  <2>3. \A a \in DOMAIN part : part[a] \in A /\ part[a] \in groups[n]
    BY <2>1 DEF Range
  <2>4. \A a \in 1..Len(part) : part[a] \in A
    BY <2>1, <2>3, OwnOfSeq
  <2>5. part \in Seq(A)
    BY <2>1, <2>4 DEF IsSequence
  <2>. QED
    BY <2>1, <2>2, <2>3, <2>5
<1> HIDE DEF A
<1>3. parts \in Seq(Seq(A)) /\ DOMAIN parts = DOMAIN groups
  <2>1. DOMAIN parts = 1..Len(groups)
    BY <1>1
  <2>2. \A n \in 1..Len(groups) : parts[n] \in Seq(A)
    BY <1>1, <1>2
  <2>3. parts = [n \in 1..Len(groups) |-> parts[n]]
    BY <1>1
  <2> HIDE DEF parts
  <2>. QED
    BY <1>1, <2>1, <2>2, <2>3
<1>4. left = FlattenSeq(parts)
  BY DEF Filtered, A
<1> HIDE DEF parts, left
<1>5. left \in Seq(A)
  BY <1>3, <1>4, FlattenedHolds
<1>6. ASSUME IsInjective(seq), NEW k
      PROVE  Once(left, k)
  <2>1. \A n \in DOMAIN parts : Once(parts[n], k)
    BY <1>2, <1>3, <1>6 DEF Once, IsInjective
  <2>2. ASSUME NEW m \in DOMAIN parts, NEW n \in DOMAIN parts, Holds(parts[m], k), Holds(parts[n], k)
        PROVE  m = n
    <3>1. k \in groups[m] /\ k \in groups[n]
      BY <1>2, <1>3, <2>2 DEF Holds
    <3>. QED
      BY <1>3, <3>1, FiltersAssumption
  <2>. QED
    BY <1>3, <1>4, <2>1, <2>2, FlattenedHolds
<1>7. IsInjective(seq) => IsInjective(left)
  BY <1>6 DEF Once, IsInjective
<1>. QED
  BY <1>5, <1>7, SeqOfOwn DEF left

\* The candidates at the walk's beginning.
LEMMA CandidatesGive ==
  ASSUME NEW name, NEW chain, IsSequence(chain), NEW groups \in Filters
  PROVE  LET left == Filtered(<<name>> \o Without(chain, {name}), groups)
         IN  /\ IsSequence(left) /\ (left # <<>> => 1 \in 1..Len(left))
             /\ IsInjective(chain) => IsInjective(left)
PROOF
<1> DEFINE others == Without(chain, {name})
           all == <<name>> \o others
           left == Filtered(all, groups)
<1>1. /\ IsSequence(others) /\ \A a \in DOMAIN others : others[a] # name
      /\ IsInjective(chain) => IsInjective(others)
  BY WithoutKeeps
<1> HIDE DEF others
<1> DEFINE R == Range(others)
           S == R \cup {name}
<1>2. others \in Seq(R) /\ R \subseteq S /\ name \in S
  BY <1>1 DEF IsSequence
<1> HIDE DEF R, S
<1>3. others \in Seq(S)
  BY <1>2
<1>4. /\ all \in Seq(S) /\ DOMAIN all = 1..(1 + Len(others)) /\ all[1] = name
      /\ \A a \in 1..Len(others) : all[1 + a] = others[a]
      /\ Len(others) \in Nat /\ DOMAIN others = 1..Len(others)
  BY <1>2, <1>3
<1>5. IsInjective(chain) => IsInjective(all)
  <2> SUFFICES ASSUME IsInjective(chain), NEW x \in DOMAIN all, NEW y \in DOMAIN all, all[x] = all[y]
               PROVE  x = y
    BY DEF IsInjective
  <2> HIDE DEF all
  <2>1. \A z \in DOMAIN all : z = 1 \/ (z - 1 \in 1..Len(others) /\ all[z] = others[z - 1])
    <3> TAKE z \in DOMAIN all
    <3>1. CASE z # 1
      <4>1. z - 1 \in 1..Len(others) /\ 1 + (z - 1) = z
        BY <1>4, <3>1
      <4>. QED
        BY <1>4, <4>1
    <3>. QED
      BY <3>1
  <2>2. \A a, b \in 1..Len(others) : others[a] = others[b] => a = b
    BY <1>1, <1>4 DEF IsInjective
  <2>3. \A a \in 1..Len(others) : others[a] # name
    BY <1>1, <1>4
  <2>. QED
    BY <1>4, <2>1, <2>2, <2>3
<1>6. IsSequence(all)
  BY <1>4, SeqOfOwn
<1> HIDE DEF all
<1>7. IsSequence(left) /\ (IsInjective(all) => IsInjective(left))
  BY <1>6, FilteredKeeps
<1> HIDE DEF left
<1>8. left # <<>> => 1 \in 1..Len(left)
  BY <1>7 DEF IsSequence
<1>. QED
  BY <1>5, <1>7, <1>8 DEF left, all, others

-----------------------------------------------------------------------------
(* The requests *)

Busy == {"asking", "screened", "calling", "asking_retry"}
Phases == {"idle"} \cup Busy \cup Ended

Fields == {"phase", "ask", "object", "asked", "sent", "candidates", "head", "idx", "failed",
           "judged", "sawOn"}

IsRequest(q) == DOMAIN q = Fields /\ q.phase \in Phases

RequestsTyped ==
    /\ config \in Configs
    /\ req = [r \in Reqs |-> req[r]]
    /\ \A r \in Reqs : IsRequest(req[r])

LEMMA FreshTyped == IsRequest(Fresh)
PROOF BY DEF IsRequest, Fields, Fresh, Phases

LEMMA OverGives ==
  ASSUME NEW q, IsRequest(q), NEW phase \in Ended
  PROVE  /\ IsRequest(Over(q, phase))
         /\ Over(q, phase).phase = phase
         /\ ~Over(q, phase).judged
         /\ phase = "failed" => Over(q, phase).failed = q.failed /\ Over(q, phase).object = q.object
         /\ phase # "failed" => Over(q, phase).failed = <<>>
PROOF BY DEF IsRequest, Fields, Fresh, Phases, Over

\* What screening makes of a request.
LEMMA GoesOnGives ==
  ASSUME RequestsTyped, NEW r \in Reqs, NEW ask, NEW h, NEW i, NEW seen, IsRequest(seen),
         GoesOn(r, ask, h, i, seen)
  PROVE  LET q == req'[r]
         IN  /\ req' = [req EXCEPT ![r] = q] /\ IsRequest(q)
             /\ q.phase = Screened(ask, h, i).phase /\ q.phase \in {"dry", "blocked", "screened"}
             /\ q.ask = ask /\ q.object = i /\ q.sent = Screened(ask, h, i).sent
             /\ q.failed = seen.failed /\ q.judged = seen.judged /\ q.sawOn = seen.sawOn
PROOF
<1> DEFINE s == Screened(ask, h, i)
           q == [seen EXCEPT !.phase = s.phase, !.ask = ask, !.object = i,
                             !.asked = NoQuestion, !.sent = s.sent]
<1>1. s.phase \in {"dry", "blocked", "screened"}
  <2> DEFINE ours == IF ask.asText /\ h[i].policy = None /\ ask.provider = None
                     THEN [h EXCEPT ![i].provider = TextProvider] ELSE h
             out == CheckOutbound(Policies, ask.text, ours[i].provider, Cards)
  <2>1. s = CASE ask.dry -> [heap |-> ours, phase |-> "dry", sent |-> {}]
          [] ~ask.dry /\ out.action = "block" ->
               [heap |-> ours, phase |-> "blocked", sent |-> {}]
          [] ~ask.dry /\ out.action = "reroute" ->
               [heap |-> [ours EXCEPT ![i].provider = out.to],
                phase |-> "screened", sent |-> ask.text]
          [] ~ask.dry /\ out.action \notin {"block", "reroute"} ->
               [heap |-> ours, phase |-> "screened",
                sent |-> IF ask.content = "search" THEN out.text ELSE ask.text]
    BY DEF Screened
  <2> HIDE DEF ours, out, s
  <2>. QED
    BY <2>1
<1> HIDE DEF s
<1>2. req' = [req EXCEPT ![r] = q]
  BY DEF GoesOn, s
<1>3. req'[r] = q
  BY <1>2 DEF RequestsTyped
<1>4. "phase" \in DOMAIN seen /\ "ask" \in DOMAIN seen /\ "object" \in DOMAIN seen
      /\ "sent" \in DOMAIN seen /\ DOMAIN seen = Fields
  BY DEF IsRequest, Fields
<1>5. /\ DOMAIN q = Fields /\ q.phase = s.phase /\ q.ask = ask /\ q.object = i /\ q.sent = s.sent
      /\ q.failed = seen.failed /\ q.judged = seen.judged /\ q.sawOn = seen.sawOn
  BY <1>4
<1> HIDE DEF q
<1>6. IsRequest(q)
  BY <1>1, <1>5 DEF IsRequest, Phases, Ended, Busy
<1>. QED
  BY <1>1, <1>2, <1>3, <1>5, <1>6 DEF s

\* Requests change one at a time.
LEMMA OneRequest ==
  ASSUME RequestsTyped, NEW r \in Reqs, NEW q, IsRequest(q), req' = [req EXCEPT ![r] = q],
         config' = config
  PROVE  /\ RequestsTyped'
         /\ req'[r] = q /\ \A p \in Reqs \ {r} : req'[p] = req[p]
PROOF BY DEF RequestsTyped

-----------------------------------------------------------------------------
(* The judge *)

OnSeen(q) ==
    /\ q.phase \in Busy /\ config.judge.enabled => q.sawOn
    /\ q.phase \in {"asking", "asking_retry"} => q.sawOn
    /\ q.judged => q.sawOn

JudgeInv == RequestsTyped /\ \A r \in Reqs : OnSeen(req[r])

LEMMA JudgeOne ==
  ASSUME JudgeInv, NEW r \in Reqs, NEW q, IsRequest(q), OnSeen(q), req' = [req EXCEPT ![r] = q],
         config' = config
  PROVE  JudgeInv'
PROOF
<1>1. RequestsTyped' /\ req'[r] = q /\ \A p \in Reqs \ {r} : req'[p] = req[p]
  BY OneRequest DEF JudgeInv
<1>. QED
  BY <1>1 DEF JudgeInv, OnSeen

LEMMA BegunTyped ==
  ASSUME NEW ask
  PROVE  /\ IsRequest(Begun(ask)) /\ ~Begun(ask).judged /\ Begun(ask).failed = <<>>
         /\ Begun(ask).sawOn = config.judge.enabled
PROOF BY FreshTyped DEF IsRequest, Fields, Begun, Fresh, Phases

\* Whichever way a request goes on, with what was seen of the judge.
LEMMA JudgeGoesOn ==
  ASSUME JudgeInv, NEW r \in Reqs, NEW ask, NEW h, NEW i, NEW seen, IsRequest(seen),
         config.judge.enabled => seen.sawOn, seen.judged => seen.sawOn,
         GoesOn(r, ask, h, i, seen), config' = config
  PROVE  JudgeInv'
PROOF
<1> DEFINE q == req'[r]
<1>1. /\ req' = [req EXCEPT ![r] = q] /\ IsRequest(q)
      /\ q.phase \in {"dry", "blocked", "screened"}
      /\ q.judged = seen.judged /\ q.sawOn = seen.sawOn
  BY GoesOnGives DEF JudgeInv
<1> HIDE DEF q
<1>2. OnSeen(q)
  BY <1>1 DEF OnSeen
<1>. QED
  BY <1>1, <1>2, JudgeOne

LEMMA JudgeOver ==
  ASSUME JudgeInv, NEW r \in Reqs, NEW q, IsRequest(q), NEW phase \in Ended,
         req' = [req EXCEPT ![r] = Over(q, phase)], config' = config
  PROVE  JudgeInv'
PROOF
<1>1. OnSeen(Over(q, phase)) /\ IsRequest(Over(q, phase))
  BY OverGives DEF OnSeen, Busy, Ended
<1>. QED
  BY <1>1, JudgeOne

\* A failed request that is sent on.
LEMMA JudgeSentOn ==
  ASSUME JudgeInv, NEW r \in Reqs, NEW q, IsRequest(q), q.judged => q.sawOn,
         config.judge.enabled => q.sawOn, config' = config,
         \/ req' = [req EXCEPT ![r] = Advanced(q)]
         \/ \E name : req' = [req EXCEPT ![r] = Redirected(q, name)]
  PROVE  JudgeInv'
PROOF
<1>1. CASE req' = [req EXCEPT ![r] = Over(q, "failed")]
  BY <1>1, JudgeOver DEF Ended
<1>2. CASE req' = [req EXCEPT ![r] = [q EXCEPT !.phase = "calling", !.idx = @ + 1, !.asked = NoQuestion]]
  <2> DEFINE next == [q EXCEPT !.phase = "calling", !.idx = @ + 1, !.asked = NoQuestion]
  <2>1. IsRequest(next) /\ OnSeen(next)
    BY DEF IsRequest, Fields, OnSeen, Phases, Busy
  <2> HIDE DEF next
  <2>. QED
    BY <1>2, <2>1, JudgeOne DEF next
<1>3. ASSUME NEW name, req' = [req EXCEPT ![r] = Redirected(q, name)] PROVE JudgeInv'
  <2>1. IsRequest(Redirected(q, name)) /\ OnSeen(Redirected(q, name))
    BY DEF IsRequest, Fields, OnSeen, Phases, Busy, Redirected
  <2>. QED
    BY <1>3, <2>1, JudgeOne
<1>. QED
  BY <1>1, <1>2, <1>3 DEF Advanced

LEMMA JudgeStep == JudgeInv /\ [Next]_vars => JudgeInv'
PROOF
<1> SUFFICES ASSUME JudgeInv, [Next]_vars PROVE JudgeInv'
  OBVIOUS
<1>0. ASSUME NEW r \in Reqs
      PROVE  /\ IsRequest(req[r]) /\ OnSeen(req[r])
             /\ req[r].phase \in Busy /\ config.judge.enabled => req[r].sawOn
  BY DEF JudgeInv, RequestsTyped, OnSeen
<1>1. ASSUME NEW r \in Reqs, NEW ask \in Asks, Start(r, ask) PROVE JudgeInv'
  BY <1>1, BegunTyped, JudgeGoesOn DEF Start
<1>2. ASSUME NEW r \in Reqs, NEW ask \in Asks, StartCached(r, ask) PROVE JudgeInv'
  <2> DEFINE seen == [Begun(ask) EXCEPT !.judged = TRUE]
  <2>1. IsRequest(seen) /\ seen.sawOn = Begun(ask).sawOn
    BY BegunTyped DEF IsRequest, Fields
  <2>2. seen.sawOn = config.judge.enabled /\ config.judge.enabled
    BY <1>2, <2>1, BegunTyped DEF StartCached, TriggersOnMiss
  <2>3. \E h, i : GoesOn(r, ask, h, i, seen) /\ config' = config
    BY <1>2 DEF StartCached
  <2> HIDE DEF seen
  <2>. QED
    BY <2>1, <2>2, <2>3, JudgeGoesOn
<1>3. ASSUME NEW r \in Reqs, NEW ask \in Asks, StartAsking(r, ask) PROVE JudgeInv'
  <2> DEFINE q == [Begun(ask) EXCEPT !.phase = "asking", !.object = <<r, 0>>,
                                     !.asked = Question(MissKey(ask))]
  <2>1. IsRequest(q) /\ q.sawOn = Begun(ask).sawOn /\ q.judged = Begun(ask).judged
    BY BegunTyped DEF IsRequest, Fields, Phases, Busy
  <2>2. q.sawOn = config.judge.enabled /\ config.judge.enabled /\ ~q.judged
    BY <1>3, <2>1, BegunTyped DEF StartAsking, TriggersOnMiss
  <2>3. req' = [req EXCEPT ![r] = q] /\ config' = config
    BY <1>3 DEF StartAsking
  <2> HIDE DEF q
  <2>. QED
    BY <2>1, <2>2, <2>3, JudgeOne DEF OnSeen
<1>4. ASSUME NEW r \in Reqs, NEW verdict \in Verdicts, AnswerMiss(r, verdict) PROVE JudgeInv'
  <2> DEFINE seen == [req[r] EXCEPT !.judged = TRUE]
  <2>1. IsRequest(seen) /\ seen.sawOn = req[r].sawOn /\ req[r].sawOn
    BY <1>0, <1>4 DEF AnswerMiss, IsRequest, OnSeen
  <2>2. \E ask, h, i : GoesOn(r, ask, h, i, seen) /\ config' = config
    BY <1>4 DEF AnswerMiss
  <2> HIDE DEF seen
  <2>. QED
    BY <2>1, <2>2, JudgeGoesOn
<1>5. ASSUME NEW r \in Reqs, NoAnswerMiss(r) PROVE JudgeInv'
  <2>1. req[r].sawOn
    BY <1>0, <1>5 DEF NoAnswerMiss, OnSeen
  <2>2. \E ask, h, i : GoesOn(r, ask, h, i, req[r]) /\ config' = config
    BY <1>5 DEF NoAnswerMiss
  <2>. QED
    BY <1>0, <2>1, <2>2, JudgeGoesOn
<1>6. ASSUME NEW r \in Reqs, NEW phase \in Ended, req' = [req EXCEPT ![r] = Over(@, phase)],
             config' = config
      PROVE  JudgeInv'
  <2>1. req' = [req EXCEPT ![r] = Over(req[r], phase)]
    BY <1>6 DEF JudgeInv, RequestsTyped
  <2>. QED
    BY <1>0, <1>6, <2>1, JudgeOver
<1>7. ASSUME NEW r \in Reqs, JudgeBreaks(r) PROVE JudgeInv'
  BY <1>6, <1>7 DEF JudgeBreaks, Ended
<1>8. ASSUME NEW r \in Reqs, NEW groups \in Filters, Walk(r, groups) PROVE JudgeInv'
  <2> DEFINE d == heap[req[r].object]
             left == Filtered(<<d.provider>> \o Without(d.chain, {d.provider}), groups)
             q == [req[r] EXCEPT !.phase = "calling", !.candidates = left, !.head = d.provider,
                                 !.idx = 1]
  <2>1. config' = config /\ req[r].phase = "screened"
        /\ (req' = [req EXCEPT ![r] = Over(@, "failed")] \/ req' = [req EXCEPT ![r] = q])
    BY <1>8 DEF Walk
  <2>2. CASE req' = [req EXCEPT ![r] = Over(@, "failed")]
    BY <1>6, <2>1, <2>2 DEF Ended
  <2>3. CASE req' = [req EXCEPT ![r] = q]
    <3> HIDE DEF left, d
    <3>1. IsRequest(q) /\ q.judged = req[r].judged /\ q.sawOn = req[r].sawOn /\ q.phase = "calling"
      BY <1>0 DEF IsRequest, Fields, Phases, Busy
    <3> HIDE DEF q
    <3>2. OnSeen(q)
      BY <1>0, <2>1, <3>1 DEF OnSeen, Busy
    <3>. QED
      BY <2>1, <2>3, <3>1, <3>2, JudgeOne
  <2>. QED
    BY <2>1, <2>2, <2>3
<1>9. ASSUME NEW r \in Reqs, NEW reply \in Wire, Served(r, reply) \/ Crashed(r, reply) PROVE JudgeInv'
  BY <1>6, <1>9 DEF Served, Crashed, Ended
<1>10. ASSUME NEW r \in Reqs, NEW reply \in Wire, Fail(r, reply) PROVE JudgeInv'
  <2> DEFINE class == Reply(r, reply).class
             failed == Append(req[r].failed, [name |-> Candidate(r), class |-> class])
             q == [req[r] EXCEPT !.failed = failed]
             rule == RuleTarget(r, class, failed)
             key == RetryKey(req[r].ask, req[r].sent, failed)
             asks == rule = None /\ TriggersOnError(class)
             used == [q EXCEPT !.judged = TRUE]
             asking == [q EXCEPT !.phase = "asking_retry", !.asked = Question(key)]
             to == CachedTarget(key, failed)
  <2>1. /\ config' = config /\ req[r].phase = "calling"
        /\ req' = [req EXCEPT ![r] =
             IF rule # None THEN Redirected(q, rule)
             ELSE IF ~asks THEN Advanced(q)
             ELSE IF ~Has(key) THEN asking
             ELSE IF to = None THEN Advanced(used) ELSE Redirected(used, to)]
    BY <1>10 DEF Fail
  <2>2. asks => config.judge.enabled
    BY DEF TriggersOnError
  <2> HIDE DEF failed, class, rule, key, asks, to
  <2>3. /\ IsRequest(q) /\ q.sawOn = req[r].sawOn /\ q.judged = req[r].judged
        /\ IsRequest(used) /\ used.sawOn = req[r].sawOn
        /\ IsRequest(asking) /\ asking.sawOn = req[r].sawOn /\ asking.phase = "asking_retry"
        /\ asking.judged = req[r].judged
    BY <1>0 DEF IsRequest, Fields, Phases, Busy
  <2>4. /\ config.judge.enabled => req[r].sawOn
        /\ req[r].judged => req[r].sawOn
    BY <1>0, <2>1 DEF OnSeen, Busy
  <2> HIDE DEF q, used, asking
  <2>5. CASE asks /\ ~Has(key)
    <3>1. OnSeen(asking)
      BY <2>2, <2>3, <2>4, <2>5 DEF OnSeen
    <3>2. req' = [req EXCEPT ![r] = asking]
      BY <2>1, <2>5 DEF asks
    <3>. QED
      BY <2>1, <2>3, <3>1, <3>2, JudgeOne
  <2>6. CASE asks /\ Has(key)
    <3>1. req[r].sawOn
      BY <2>2, <2>4, <2>6
    <3>2. req' = [req EXCEPT ![r] = IF to = None THEN Advanced(used) ELSE Redirected(used, to)]
      BY <2>1, <2>6 DEF asks
    <3>. QED
      BY <2>1, <2>3, <3>1, <3>2, JudgeSentOn
  <2>7. CASE ~asks
    <3>1. req' = [req EXCEPT ![r] = IF rule # None THEN Redirected(q, rule) ELSE Advanced(q)]
      BY <2>1, <2>7
    <3>. QED
      BY <2>1, <2>3, <2>4, <3>1, JudgeSentOn
  <2>. QED
    BY <2>5, <2>6, <2>7
<1>11. ASSUME NEW r \in Reqs, NEW verdict \in Verdicts, AnswerRetry(r, verdict) PROVE JudgeInv'
  <2> DEFINE q == [Redirected(req[r], verdict.provider) EXCEPT !.judged = TRUE]
  <2>1. req' = [req EXCEPT ![r] = q] /\ config' = config /\ req[r].phase = "asking_retry"
    BY <1>11 DEF AnswerRetry, JudgeInv, RequestsTyped
  <2>2. IsRequest(q) /\ q.sawOn = req[r].sawOn /\ q.phase = "calling"
    BY <1>0 DEF IsRequest, Fields, Redirected, Phases, Busy
  <2>3. req[r].sawOn
    BY <1>0, <2>1 DEF OnSeen
  <2> HIDE DEF q
  <2>4. OnSeen(q)
    BY <2>2, <2>3 DEF OnSeen
  <2>. QED
    BY <2>1, <2>2, <2>4, JudgeOne
<1>12. ASSUME NEW r \in Reqs, NoAnswerRetry(r) PROVE JudgeInv'
  <2>1. req' = [req EXCEPT ![r] = Advanced(req[r])] /\ config' = config /\ req[r].sawOn
    BY <1>0, <1>12 DEF NoAnswerRetry, OnSeen, JudgeInv, RequestsTyped
  <2>. QED
    BY <1>0, <2>1, JudgeSentOn
<1>13. ASSUME NEW new \in Configs, Reload(new) PROVE JudgeInv'
  <2> DEFINE on(r) == req[r].sawOn \/ (new.judge.enabled /\ req[r].phase \notin Ended \cup {"idle"})
  <2>1. config' = new /\ req' = [r \in Reqs |-> [req[r] EXCEPT !.sawOn = on(r)]]
    BY <1>13 DEF Reload
  <2>2. ASSUME NEW r \in Reqs
        PROVE  /\ IsRequest(req'[r]) /\ req'[r].phase = req[r].phase
               /\ req'[r].judged = req[r].judged /\ req'[r].sawOn = on(r)
    BY <1>0, <2>1 DEF IsRequest, Fields
  <2>3. ASSUME NEW r \in Reqs PROVE OnSeen(req[r])'
    BY <1>0, <2>1, <2>2 DEF OnSeen, Busy, Ended
  <2>. QED
    BY <2>1, <2>2, <2>3 DEF JudgeInv, RequestsTyped
<1>14. CASE Tick
  BY <1>14 DEF Tick, JudgeInv, RequestsTyped, OnSeen
<1>15. CASE UNCHANGED vars
  BY <1>15 DEF vars, JudgeInv, RequestsTyped, OnSeen
<1>. QED
  BY <1>1, <1>2, <1>3, <1>4, <1>5, <1>7, <1>8, <1>9, <1>10, <1>11, <1>12, <1>13, <1>14, <1>15
     DEF Next, StartsAny, Moves, AnswersAny, CallsAny

\* A verdict routes a request only if the judge was on at some time since the request
\* began, whatever is cached and however often the configuration is replaced meanwhile.
THEOREM VerdictsOnlyOn == Spec => []JudgedOnlyOn
PROOF
<1>1. Init => JudgeInv
  BY FreshTyped, FirstConfigAssumption DEF Init, JudgeInv, RequestsTyped, OnSeen, Fresh, Busy
<1>2. JudgeInv => JudgedOnlyOn
  BY DEF JudgeInv, OnSeen, JudgedOnlyOn
<1>. QED
  BY <1>1, <1>2, JudgeStep, PTL DEF Spec
-----------------------------------------------------------------------------
(* The decisions *)

IsDecision(d) == DOMAIN d = {"policy", "provider", "chain"} /\ IsSequence(d.chain)
HeapTyped(h) == \A id \in DOMAIN h : IsDecision(h[id])

LEMMA EvaluateTyped ==
  ASSUME NEW c \in Configs, NEW ask \in Asks
  PROVE  IsDecision(Evaluate(c, ask))
PROOF
<1> DEFINE default == DefaultDecision(c, ask.content)
           I == {i \in 1..Len(c.rules) : c.rules[i].errors = {} /\ RuleMatches(c.rules[i], ask)}
           i == SelectInSeq(c.rules, LAMBDA rule : rule.errors = {} /\ RuleMatches(rule, ask))
<1>1. /\ IsSequence(c.chain) /\ IsSequence(c.rules) /\ DOMAIN c.rules = 1..Len(c.rules)
      /\ \A k \in DOMAIN c.rules : IsSequence(c.rules[k].chain)
  BY RulesAssumption, OwnOfSeq
<1>2. i = IF I # {} THEN Min(I) ELSE 0
  BY DEF SelectInSeq
<1>3. I \in SUBSET Nat /\ I \subseteq DOMAIN c.rules
  BY <1>1
<1>4. i # 0 => i \in DOMAIN c.rules
  <2> HIDE DEF I, i
  <2>1. I # {} => Min(I) \in I
    BY <1>3, MinExists
  <2>. QED
    BY <1>2, <1>3, <2>1
<1>5. IsDecision(default)
  BY <1>1 DEF IsDecision, DefaultDecision
<1>6. ASSUME NEW rule, IsSequence(rule.chain) PROVE IsDecision(DecisionFromRule(c, rule, ask.content))
  BY <1>1, <1>6 DEF IsDecision, DecisionFromRule
<1>7. IsDecision([default EXCEPT !.provider = ask.provider])
  BY <1>5 DEF IsDecision
<1>8. ask.inline # NoRule => IsDecision(DecisionFromRule(c, ask.inline, ask.content))
  BY <1>6, AsksAssumption
<1>9. i # 0 => IsDecision(DecisionFromRule(c, c.rules[i], ask.content))
  BY <1>1, <1>4, <1>6
<1>10. Evaluate(c, ask) =
         CASE ask.inline # NoRule ->
               IF RuleMatches(ask.inline, ask)
               THEN DecisionFromRule(c, ask.inline, ask.content) ELSE default
          [] ask.inline = NoRule /\ ask.provider # None ->
               [default EXCEPT !.provider = ask.provider]
          [] ask.inline = NoRule /\ ask.provider = None ->
               IF i = 0 THEN default ELSE DecisionFromRule(c, c.rules[i], ask.content)
  BY DEF Evaluate
<1> HIDE DEF i, default
<1>. QED
  BY <1>5, <1>7, <1>8, <1>9, <1>10

LEMMA VerdictTyped == ASSUME NEW verdict PROVE IsDecision(JudgeDecision(verdict))
PROOF
<1>1. IsSequence(<<verdict.provider>>) /\ IsSequence(<<verdict.provider, verdict.fallback>>)
  <2>1. <<verdict.provider>> \in Seq({verdict.provider})
    OBVIOUS
  <2>2. <<verdict.provider, verdict.fallback>> \in Seq({verdict.provider, verdict.fallback})
    OBVIOUS
  <2>. QED
    BY <2>1, <2>2, SeqOfOwn
<1>. QED
  BY <1>1 DEF IsDecision, JudgeDecision

Out(ask, provider) == CheckOutbound(Policies, ask.text, provider, Cards)

\* What is sent may go to this provider, or a policy has rerouted it there.
MayGo(ask, provider, sent) ==
    \/ /\ Out(ask, provider).action \notin {"block", "reroute"}
       /\ sent = IF ask.content = "search" THEN Out(ask, provider).text ELSE ask.text
    \/ SentUnscreened(ask, provider) /\ sent = ask.text

\* Where a text is rerouted to it may go as it is, or it goes there unscreened.
LEMMA RerouteMayGo ==
  ASSUME NEW ask \in Asks, NEW provider, Out(ask, provider).action = "reroute"
  PROVE  MayGo(ask, Out(ask, provider).to, ask.text)
PROOF
<1> DEFINE p == SelectPolicy(Policies, provider)
           scan == Scan(Policies[p].outbound, ask.text, Cards)
           to == RerouteTarget(scan)
<1>1. p # 0 /\ HasAction(scan, "reroute") /\ Out(ask, provider).to = to
  BY DEF Out, CheckOutbound, Pass
<1>2. p \in DOMAIN Policies
  BY <1>1, PolicySelected, PoliciesAssumption DEF IsSequence
<1>3. CASE Out(ask, to).action \in {"pass", "log"}
  <2> HIDE DEF to
  <2>1. Out(ask, to).text = ask.text
    BY <1>3 DEF Out, CheckOutbound, Pass
  <2>. QED
    BY <1>1, <1>3, <2>1 DEF MayGo
<1>4. CASE Out(ask, to).action \notin {"pass", "log"}
  <2>1. SentUnscreened(ask, to)
    BY <1>1, <1>2, <1>4 DEF SentUnscreened, Out
  <2> HIDE DEF to
  <2>. QED
    BY <1>1, <2>1 DEF MayGo
<1>. QED
  BY <1>3, <1>4

\* Screening writes into the decision it is given at most, and never into its chain; what
\* goes out may go to the provider the decision then names; and into a decision of the
\* judge's it writes only when its policy reroutes the text, and then where to.
LEMMA ScreenGives ==
  ASSUME NEW ask \in Asks, NEW h, HeapTyped(h), NEW i \in DOMAIN h
  PROVE  LET s == Screened(ask, h, i)
             out == Out(ask, h[i].provider)
         IN  /\ DOMAIN s.heap = DOMAIN h /\ HeapTyped(s.heap)
             /\ \A id \in DOMAIN h : /\ s.heap[id].chain = h[id].chain
                                     /\ s.heap[id].policy = h[id].policy
                                     /\ id # i => s.heap[id] = h[id]
             /\ s.phase = "screened" => MayGo(ask, s.heap[i].provider, s.sent)
             /\ h[i].policy = Judge =>
                  s.heap = h \/ (out.action = "reroute" /\ s.heap[i].provider = out.to)
PROOF
<1> DEFINE moves == ask.asText /\ h[i].policy = None /\ ask.provider = None
           ours == IF moves THEN [h EXCEPT ![i].provider = TextProvider] ELSE h
           out == CheckOutbound(Policies, ask.text, ours[i].provider, Cards)
           Sent(g, name) == [g EXCEPT ![i].provider = name]
           theirs == Sent(ours, out.to)
           s == Screened(ask, h, i)
<1>1. ASSUME NEW g, HeapTyped(g), DOMAIN g = DOMAIN h, NEW name
      PROVE  /\ DOMAIN Sent(g, name) = DOMAIN h /\ HeapTyped(Sent(g, name))
             /\ Sent(g, name)[i].provider = name
             /\ \A id \in DOMAIN h : /\ Sent(g, name)[id].chain = g[id].chain
                                     /\ Sent(g, name)[id].policy = g[id].policy
                                     /\ id # i => Sent(g, name)[id] = g[id]
  BY <1>1 DEF HeapTyped, IsDecision
<1>2. /\ DOMAIN ours = DOMAIN h /\ HeapTyped(ours)
      /\ \A id \in DOMAIN h : ours[id].chain = h[id].chain /\ ours[id].policy = h[id].policy
                              /\ (id # i => ours[id] = h[id])
      /\ ~moves => ours = h
  BY <1>1
<1> HIDE DEF ours
<1>3. s = CASE ask.dry -> [heap |-> ours, phase |-> "dry", sent |-> {}]
          [] ~ask.dry /\ out.action = "block" ->
               [heap |-> ours, phase |-> "blocked", sent |-> {}]
          [] ~ask.dry /\ out.action = "reroute" ->
               [heap |-> theirs, phase |-> "screened", sent |-> ask.text]
          [] ~ask.dry /\ out.action \notin {"block", "reroute"} ->
               [heap |-> ours, phase |-> "screened",
                sent |-> IF ask.content = "search" THEN out.text ELSE ask.text]
  BY DEF Screened, ours
<1>4. out = Out(ask, ours[i].provider)
  BY DEF Out
<1> HIDE DEF out, Sent
<1>5. /\ DOMAIN theirs = DOMAIN h /\ HeapTyped(theirs) /\ theirs[i].provider = out.to
      /\ \A id \in DOMAIN h : theirs[id].chain = ours[id].chain /\ theirs[id].policy = ours[id].policy
                              /\ (id # i => theirs[id] = ours[id])
  BY <1>1, <1>2
<1> HIDE DEF theirs, s, moves
<1>6. CASE ~ask.dry /\ out.action = "reroute"
  <2>1. s = [heap |-> theirs, phase |-> "screened", sent |-> ask.text]
    BY <1>3, <1>6
  <2>2. MayGo(ask, out.to, ask.text)
    BY <1>4, <1>6, RerouteMayGo
  <2>3. h[i].policy = Judge => out = Out(ask, h[i].provider)
    BY <1>2, <1>4 DEF moves, Judge, None
  <2>. QED
    BY <1>2, <1>5, <1>6, <2>1, <2>2, <2>3 DEF s
<1>7. CASE ask.dry \/ out.action # "reroute"
  <2>1. /\ s.heap = ours
        /\ s.phase = "screened" =>
              /\ out.action \notin {"block", "reroute"}
              /\ s.sent = IF ask.content = "search" THEN out.text ELSE ask.text
    BY <1>3, <1>7
  <2>2. h[i].policy = Judge => ours = h
    BY <1>2 DEF moves, Judge, None
  <2>. QED
    BY <1>2, <1>4, <2>1, <2>2 DEF s, MayGo
<1>. QED
  BY <1>6, <1>7

-----------------------------------------------------------------------------
(* The walk *)

NamesDiffer(failed) == \A i, j \in DOMAIN failed : failed[i].name = failed[j].name => i = j

\* What has failed is what was called, in the candidates' order.
Walked(q, n) ==
    /\ IsSequence(q.candidates) /\ IsSequence(q.failed)
    /\ q.idx \in 1..Len(q.candidates)
    /\ Len(q.failed) = n
    /\ \A j \in 1..n : q.failed[j].name = q.candidates[j]

GoodWalk(q, h) ==
    /\ IsRequest(q) /\ IsSequence(q.failed)
    /\ q.phase \in {"idle", "asking", "screened"} \cup (Ended \ {"failed"}) => q.failed = <<>>
    /\ q.phase \in Busy \cup {"failed"} => q.object \in DOMAIN h
    /\ q.phase \in Busy => q.ask \in Asks
    /\ q.phase = "calling" => Walked(q, q.idx - 1)
    /\ q.phase = "asking_retry" => Walked(q, q.idx)
    /\ q.phase \in {"calling", "asking_retry"} =>
         (IsInjective(h[q.object].chain) => IsInjective(q.candidates))
    /\ q.phase = "failed" => (IsInjective(h[q.object].chain) => NamesDiffer(q.failed))

\* The objects a request has made are numbered below this.
Room(q) == CASE q.phase = "idle" -> 0
             [] q.phase \in {"asking", "asking_retry"} -> 1 + Len(q.failed)
             [] q.phase \in {"screened", "calling"} -> 2 + Len(q.failed)

Numbered(h, r, q) ==
    q.phase \notin Ended => \A id \in DOMAIN h : id[1] = r => id[2] \in Nat /\ id[2] < Room(q)

WalkInv ==
    /\ RequestsTyped
    /\ HeapTyped(heap)
    /\ \A r \in Reqs : GoodWalk(req[r], heap) /\ Numbered(heap, r, req[r])
    /\ \A key \in DOMAIN cache : cache[key].object \in DOMAIN heap

\* The heap of the next state keeps the decisions there were, and what is new is r's.
Extends(h, r) ==
    /\ HeapTyped(h) /\ DOMAIN heap \subseteq DOMAIN h
    /\ \A id \in DOMAIN heap : h[id].chain = heap[id].chain
    /\ \A id \in DOMAIN h \ DOMAIN heap : id[1] = r

LEMMA GoodWalkMoves ==
  ASSUME NEW q, NEW h, NEW g, GoodWalk(q, h),
         q.object \in DOMAIN h => q.object \in DOMAIN g /\ g[q.object].chain = h[q.object].chain
  PROVE  GoodWalk(q, g)
PROOF BY DEF GoodWalk, Busy

LEMMA WalkOne ==
  ASSUME WalkInv, NEW r \in Reqs, NEW q, req' = [req EXCEPT ![r] = q], config' = config,
         NEW h, Extends(h, r), Collected(h), GoodWalk(q, h), Numbered(h, r, q),
         \A key \in DOMAIN cache' : cache'[key].object \in DOMAIN h
  PROVE  WalkInv'
PROOF
<1>1. IsRequest(q)
  BY DEF GoodWalk
<1>2. RequestsTyped' /\ req'[r] = q /\ \A p \in Reqs \ {r} : req'[p] = req[p]
  BY <1>1, OneRequest DEF WalkInv
<1>3. /\ \A id \in DOMAIN heap' : id \in DOMAIN h /\ heap'[id] = h[id]
      /\ \A p \in Reqs : req'[p].object \in DOMAIN h => req'[p].object \in DOMAIN heap'
      /\ \A key \in DOMAIN cache' : cache'[key].object \in DOMAIN heap'
  BY DEF Collected, InUse
<1>4. HeapTyped(heap)'
  BY <1>3 DEF HeapTyped, Extends
<1>5. ASSUME NEW p \in Reqs PROVE GoodWalk(req[p], heap)' /\ Numbered(heap, p, req[p])'
  <2>1. CASE p = r
    <3>1. GoodWalk(q, heap')
      BY <1>2, <1>3, <2>1, GoodWalkMoves
    <3>2. Numbered(heap', r, q)
      BY <1>3 DEF Numbered
    <3>3. GoodWalk(req'[p], heap') /\ Numbered(heap', p, req'[p])
      BY <1>2, <2>1, <3>1, <3>2
    <3>. QED
      BY <3>3 DEF GoodWalk, Numbered, Walked, Room
  <2>2. CASE p # r
    <3>1. req'[p] = req[p] /\ GoodWalk(req[p], heap) /\ Numbered(heap, p, req[p])
      BY <1>2, <2>2 DEF WalkInv
    <3>2. req[p].object \in DOMAIN heap =>
            /\ req[p].object \in DOMAIN heap'
            /\ heap'[req[p].object].chain = heap[req[p].object].chain
      BY <1>3, <3>1 DEF Extends
    <3>3. GoodWalk(req[p], heap')
      BY <3>1, <3>2, GoodWalkMoves
    <3>4. Numbered(heap', p, req[p])
      BY <1>3, <2>2, <3>1 DEF Numbered, Extends
    <3>. QED
      BY <3>1, <3>3, <3>4 DEF GoodWalk, Numbered, Walked, Room
  <2>. QED
    BY <2>1, <2>2
<1>. QED
  BY <1>2, <1>3, <1>4, <1>5 DEF WalkInv

LEMMA HeapKept ==
  ASSUME WalkInv, NEW r
  PROVE  Extends(heap, r)
PROOF BY DEF Extends, WalkInv

\* A new decision of r is put on the heap.
LEMMA HeapGrown ==
  ASSUME WalkInv, NEW r, NEW k, NEW d, IsDecision(d), <<r, k>> \notin DOMAIN heap
  PROVE  LET h == With(heap, <<r, k>>, d)
         IN  /\ Extends(h, r) /\ DOMAIN h = DOMAIN heap \cup {<<r, k>>} /\ h[<<r, k>>] = d
             /\ \A id \in DOMAIN heap : h[id] = heap[id]
PROOF
<1> DEFINE id == <<r, k>>
           h == With(heap, id, d)
<1>1. id[1] = r
  OBVIOUS
<1> HIDE DEF id
<1>2. HeapTyped(heap)
  BY DEF WalkInv
<1>3. /\ HeapTyped(h) /\ DOMAIN h = DOMAIN heap \cup {id} /\ h[id] = d
      /\ \A j \in DOMAIN heap : j # id => h[j] = heap[j]
  BY <1>2 DEF HeapTyped, With
<1>4. id \notin DOMAIN heap
  BY DEF id
<1> HIDE DEF h
<1>. QED
  BY <1>1, <1>3, <1>4 DEF Extends, id, h

\* The numbers of the objects a request makes next are free.
LEMMA NumbersAreFree ==
  ASSUME WalkInv, NEW r \in Reqs, NEW k,
         \/ req[r].phase = "idle"
         \/ req[r].phase = "asking" /\ k = 1
         \/ req[r].phase = "asking_retry" /\ k = 1 + Len(req[r].failed)
  PROVE  <<r, k>> \notin DOMAIN heap
PROOF
<1>1. GoodWalk(req[r], heap) /\ Numbered(heap, r, req[r])
  BY DEF WalkInv
<1>2. SUFFICES ASSUME <<r, k>> \in DOMAIN heap PROVE FALSE
  OBVIOUS
<1>3. <<r, k>>[1] = r /\ <<r, k>>[2] = k
  OBVIOUS
<1>4. req[r].phase \notin Ended => k \in Nat /\ k < Room(req[r])
  BY <1>1, <1>2, <1>3 DEF Numbered
<1>5. CASE req[r].phase = "idle"
  BY <1>4, <1>5 DEF Room, Ended
<1>6. CASE req[r].phase = "asking" /\ k = 1
  <2>1. req[r].failed = <<>>
    BY <1>1, <1>6 DEF GoodWalk
  <2>2. Room(req[r]) = 1
    BY <1>6, <2>1 DEF Room
  <2>. QED
    BY <1>4, <1>6, <2>2 DEF Ended
<1>7. CASE req[r].phase = "asking_retry" /\ k = 1 + Len(req[r].failed)
  <2>1. Room(req[r]) = k
    BY <1>7 DEF Room
  <2>. QED
    BY <1>4, <1>7, <2>1 DEF Ended
<1>. QED
  BY <1>5, <1>6, <1>7

\* A request that ends: unless it failed, nothing of it is left.
LEMMA WalkOver ==
  ASSUME WalkInv, NEW r \in Reqs, NEW phase \in Ended \ {"failed"},
         req' = [req EXCEPT ![r] = Over(@, phase)], UNCHANGED <<config, cache>>, Collected(heap)
  PROVE  WalkInv'
PROOF
<1> DEFINE q == Over(req[r], phase)
<1>1. IsRequest(req[r]) /\ req' = [req EXCEPT ![r] = q]
  BY DEF WalkInv, RequestsTyped
<1>2. IsRequest(q) /\ q.phase = phase /\ q.failed = <<>>
  BY <1>1, OverGives
<1> HIDE DEF q
<1>3. GoodWalk(q, heap) /\ Numbered(heap, r, q)
  BY <1>2, NothingIsSeq DEF GoodWalk, Numbered, Ended, Busy
<1>. QED
  BY <1>1, <1>3, HeapKept, WalkOne DEF WalkInv

\* Whichever way a request goes on, with a decision in hand.
LEMMA WalkGoesOn ==
  ASSUME WalkInv, NEW r \in Reqs, NEW ask \in Asks, NEW h, NEW i \in DOMAIN h, NEW seen,
         IsRequest(seen), seen.failed = <<>>, GoesOn(r, ask, h, i, seen), config' = config,
         Extends(h, r), \A id \in DOMAIN h : id[1] = r => id[2] \in Nat /\ id[2] < 2,
         \A key \in DOMAIN cache' : cache'[key].object \in DOMAIN h
  PROVE  WalkInv'
PROOF
<1> DEFINE s == Screened(ask, h, i)
           q == req'[r]
<1>1. /\ DOMAIN s.heap = DOMAIN h /\ HeapTyped(s.heap)
      /\ \A id \in DOMAIN h : s.heap[id].chain = h[id].chain
  BY ScreenGives DEF Extends
<1>2. /\ req' = [req EXCEPT ![r] = q] /\ IsRequest(q)
      /\ q.phase \in {"dry", "blocked", "screened"} /\ q.object = i /\ q.failed = <<>>
      /\ q.ask = ask
  BY GoesOnGives DEF WalkInv
<1>3. Collected(s.heap)
  BY DEF GoesOn
<1> HIDE DEF s, q
<1>4. Extends(s.heap, r)
  BY <1>1 DEF Extends
<1>5. GoodWalk(q, s.heap)
  BY <1>1, <1>2, NothingIsSeq DEF GoodWalk, Ended, Busy
<1>6. Numbered(s.heap, r, q)
  <2>1. q.phase = "screened" => Room(q) = 2
    BY <1>2 DEF Room
  <2>. QED
    BY <1>1, <1>2, <2>1 DEF Numbered, Ended
<1>. QED
  BY <1>1, <1>2, <1>3, <1>4, <1>5, <1>6, WalkOne

\* A failed request goes on to the next candidate, to a provider that has not failed it, or ends.
LEMMA SentOn ==
  ASSUME NEW q, IsRequest(q), NEW h, q.object \in DOMAIN h, Walked(q, q.idx), q.ask \in Asks,
         IsInjective(h[q.object].chain) => IsInjective(q.candidates),
         NEW next, \/ next = Advanced(q)
                   \/ \E name : name \notin FailedNames(q.failed) /\ next = Redirected(q, name)
  PROVE  /\ GoodWalk(next, h) /\ next.failed = q.failed
         /\ next.phase \in {"calling", "failed"} /\ next.object = q.object
         /\ next.phase = "calling" => next.ask = q.ask /\ next.idx = q.idx + 1 /\ next.idx # 1
PROOF
<1>1. /\ IsSequence(q.candidates) /\ IsSequence(q.failed)
      /\ q.idx \in 1..Len(q.candidates) /\ Len(q.failed) = q.idx
      /\ \A j \in 1..q.idx : q.failed[j].name = q.candidates[j]
  BY DEF Walked
<1>2. /\ Len(q.candidates) \in Nat /\ DOMAIN q.candidates = 1..Len(q.candidates)
      /\ DOMAIN q.failed = 1..q.idx
  BY <1>1, OwnOfSeq
<1>3. DOMAIN q = Fields
  BY DEF IsRequest
<1>4. CASE next = Over(q, "failed")
  <2>1. IsRequest(next) /\ next.phase = "failed" /\ next.failed = q.failed /\ next.object = q.object
    BY <1>4, OverGives DEF Ended
  <2>2. IsInjective(q.candidates) => NamesDiffer(q.failed)
    BY <1>1, <1>2 DEF IsInjective, NamesDiffer
  <2>. QED
    BY <1>1, <2>1, <2>2 DEF GoodWalk, Busy, Ended
<1>5. ASSUME NEW to, next = [q EXCEPT !.phase = "calling", !.candidates = to, !.idx = @ + 1,
                                      !.asked = NoQuestion],
             IsSequence(to), q.idx + 1 \in 1..Len(to), \A j \in 1..q.idx : to[j] = q.candidates[j],
             IsInjective(h[q.object].chain) => IsInjective(to)
      PROVE  /\ GoodWalk(next, h) /\ next.failed = q.failed /\ next.ask = q.ask
             /\ next.phase = "calling" /\ next.object = q.object /\ next.idx = q.idx + 1
  <2>1. /\ DOMAIN next = Fields /\ next.phase = "calling" /\ next.candidates = to
        /\ next.failed = q.failed /\ next.object = q.object /\ next.idx = q.idx + 1 /\ next.ask = q.ask
    BY <1>3, <1>5 DEF Fields
  <2>2. IsRequest(next)
    BY <2>1 DEF IsRequest, Phases, Busy
  <2>3. next.idx - 1 = q.idx
    BY <1>1, <2>1
  <2>4. Walked(next, q.idx)
    BY <1>1, <1>5, <2>1 DEF Walked
  <2>. QED
    BY <1>1, <1>5, <2>1, <2>2, <2>3, <2>4 DEF GoodWalk, Ended
<1>6. q.idx + 1 # 1
  BY <1>1
<1>7. CASE next = Advanced(q) /\ q.idx # Len(q.candidates)
  <2>1. next = [q EXCEPT !.phase = "calling", !.candidates = q.candidates, !.idx = @ + 1,
                         !.asked = NoQuestion]
    BY <1>3, <1>7 DEF Advanced, Fields
  <2>2. q.idx + 1 \in 1..Len(q.candidates)
    BY <1>1, <1>2, <1>7
  <2>. QED
    BY <1>1, <1>5, <1>6, <2>1, <2>2
<1>8. ASSUME NEW name, name \notin FailedNames(q.failed), next = Redirected(q, name)
      PROVE  /\ GoodWalk(next, h) /\ next.failed = q.failed /\ next.ask = q.ask
             /\ next.phase = "calling" /\ next.object = q.object /\ next.idx = q.idx + 1
  <2> DEFINE to == Inserted(q.candidates, name, q.idx + 1)
  <2>1. next = [q EXCEPT !.phase = "calling", !.candidates = to, !.idx = @ + 1, !.asked = NoQuestion]
    BY <1>8 DEF Redirected
  <2>2. \A j \in 1..q.idx : q.candidates[j] # name
    BY <1>1, <1>2, <1>8 DEF FailedNames
  <2>3. /\ IsSequence(to) /\ Len(to) >= q.idx + 1 /\ \A j \in 1..q.idx : to[j] = q.candidates[j]
        /\ IsInjective(q.candidates) => IsInjective(to)
    BY <1>1, <2>2, InsertedGives
  <2> HIDE DEF to
  <2>4. q.idx + 1 \in 1..Len(to)
    BY <1>1, <2>3, OwnOfSeq
  <2>. QED
    BY <1>5, <2>1, <2>3, <2>4
<1>. QED
  BY <1>4, <1>6, <1>7, <1>8 DEF Advanced

LEMMA WalkStep == WalkInv /\ [Next]_vars => WalkInv'
PROOF
<1> SUFFICES ASSUME WalkInv, [Next]_vars PROVE WalkInv'
  OBVIOUS
<1>0. ASSUME NEW r \in Reqs
      PROVE  /\ IsRequest(req[r]) /\ GoodWalk(req[r], heap) /\ Numbered(heap, r, req[r])
             /\ HeapTyped(heap) /\ config \in Configs /\ Extends(heap, r)
             /\ \A key \in DOMAIN cache : cache[key].object \in DOMAIN heap
  BY HeapKept DEF WalkInv, RequestsTyped
<1>2. ASSUME NEW r \in Reqs, req[r].phase = "idle" PROVE \A id \in DOMAIN heap : id[1] # r
  BY <1>0, <1>2 DEF Numbered, Room, Ended
<1>3. ASSUME NEW r \in Reqs, NEW ask \in Asks, Start(r, ask) PROVE WalkInv'
  <2> DEFINE d == Evaluate(config, ask)
             i == <<r, 0>>
             h == With(heap, i, d)
  <2>1. IsDecision(d)
    BY <1>0, EvaluateTyped
  <2>2. /\ GoesOn(r, ask, h, i, Begun(ask)) /\ config' = config /\ cache' = cache
        /\ req[r].phase = "idle"
    BY <1>3 DEF Start
  <2> HIDE DEF d
  <2>3. Extends(h, r) /\ DOMAIN h = DOMAIN heap \cup {i}
    BY <2>1, <2>2, HeapGrown, NumbersAreFree
  <2>4. \A id \in DOMAIN h : id[1] = r => id[2] \in Nat /\ id[2] < 2
    BY <1>2, <2>2, <2>3
  <2> HIDE DEF h, i
  <2>. QED
    BY <1>0, <2>2, <2>3, <2>4, BegunTyped, WalkGoesOn
<1>4. ASSUME NEW r \in Reqs, NEW ask \in Asks, StartCached(r, ask) PROVE WalkInv'
  <2> DEFINE seen == [Begun(ask) EXCEPT !.judged = TRUE]
             i == cache[MissKey(ask)].object
  <2>1. IsRequest(seen) /\ seen.failed = <<>>
    BY BegunTyped DEF IsRequest, Fields
  <2>2. /\ GoesOn(r, ask, heap, i, seen) /\ config' = config /\ cache' = cache
        /\ req[r].phase = "idle" /\ MissKey(ask) \in DOMAIN cache
    BY <1>4 DEF StartCached, Has
  <2>3. i \in DOMAIN heap
    BY <1>0, <2>2
  <2> HIDE DEF seen, i
  <2>. QED
    BY <1>0, <1>2, <2>1, <2>2, <2>3, WalkGoesOn
<1>5. ASSUME NEW r \in Reqs, NEW ask \in Asks, StartAsking(r, ask) PROVE WalkInv'
  <2> DEFINE d == Evaluate(config, ask)
             h == With(heap, <<r, 0>>, d)
             q == [Begun(ask) EXCEPT !.phase = "asking", !.object = <<r, 0>>,
                                     !.asked = Question(MissKey(ask))]
  <2>1. IsDecision(d)
    BY <1>0, EvaluateTyped
  <2>2. /\ req' = [req EXCEPT ![r] = q] /\ config' = config /\ cache' = LookedUp(MissKey(ask))
        /\ req[r].phase = "idle" /\ Collected(h)
    BY <1>5 DEF StartAsking
  <2> HIDE DEF d
  <2>3. Extends(h, r) /\ DOMAIN h = DOMAIN heap \cup {<<r, 0>>}
    BY <2>1, <2>2, HeapGrown, NumbersAreFree
  <2>4. \A id \in DOMAIN h : id[1] = r => id[2] \in Nat /\ id[2] < 1
    BY <1>2, <2>2, <2>3
  <2>5. IsRequest(q) /\ q.failed = <<>> /\ q.phase = "asking" /\ q.object = <<r, 0>> /\ q.ask = ask
    BY BegunTyped DEF IsRequest, Fields, Phases, Busy, Begun, Fresh
  <2>6. GoodWalk(q, h)
    BY <2>3, <2>5, NothingIsSeq DEF GoodWalk, Ended, Busy
  <2> HIDE DEF q, h
  <2>7. Room(q) = 1
    BY <2>5 DEF Room
  <2>8. Numbered(h, r, q)
    BY <2>4, <2>7 DEF Numbered
  <2>9. \A key \in DOMAIN cache' : cache'[key].object \in DOMAIN h
    BY <1>0, <2>2, <2>3 DEF LookedUp, Dropped
  <2>. QED
    BY <2>2, <2>3, <2>6, <2>8, <2>9, WalkOne
<1>6. ASSUME NEW r \in Reqs, NEW verdict \in Verdicts, AnswerMiss(r, verdict) PROVE WalkInv'
  <2> DEFINE i == <<r, 1>>
             d == JudgeDecision(verdict)
             h == With(heap, i, d)
             seen == [req[r] EXCEPT !.judged = TRUE]
  <2>1. /\ GoesOn(r, req[r].ask, h, i, seen) /\ config' = config /\ cache' = Kept(r, i)
        /\ req[r].phase = "asking"
    BY <1>6 DEF AnswerMiss
  <2>2. IsDecision(d)
    BY VerdictTyped
  <2> HIDE DEF d
  <2>3. req[r].failed = <<>> /\ req[r].ask \in Asks
    BY <1>0, <2>1 DEF GoodWalk, Busy
  <2>4. <<r, 1>> \notin DOMAIN heap
    BY <2>1, NumbersAreFree
  <2>5. Extends(h, r) /\ DOMAIN h = DOMAIN heap \cup {i}
    BY <2>2, <2>4, HeapGrown
  <2>6. \A id \in DOMAIN h : id[1] = r => id[2] \in Nat /\ id[2] < 2
    <3>1. Room(req[r]) = 1
      BY <2>1, <2>3 DEF Room
    <3>2. \A id \in DOMAIN heap : id[1] = r => id[2] \in Nat /\ id[2] < 1
      BY <1>0, <2>1, <3>1 DEF Numbered, Ended
    <3>. QED
      BY <2>5, <3>2
  <2>7. IsRequest(seen) /\ seen.failed = req[r].failed
    BY <1>0 DEF IsRequest, Fields
  <2> HIDE DEF h, seen
  <2>8. \A key \in DOMAIN cache' : cache'[key].object \in DOMAIN h
    <3> HIDE DEF i
    <3>. QED
      BY <1>0, <2>1, <2>5 DEF Kept, With
  <2> HIDE DEF i
  <2>. QED
    BY <2>1, <2>3, <2>5, <2>6, <2>7, <2>8, WalkGoesOn
<1>7. ASSUME NEW r \in Reqs, NoAnswerMiss(r) PROVE WalkInv'
  <2>1. /\ GoesOn(r, req[r].ask, heap, req[r].object, req[r]) /\ config' = config /\ cache' = cache
        /\ req[r].phase = "asking"
    BY <1>7 DEF NoAnswerMiss
  <2>2. req[r].failed = <<>> /\ req[r].ask \in Asks /\ req[r].object \in DOMAIN heap
    BY <1>0, <2>1 DEF GoodWalk, Busy
  <2>3. Room(req[r]) = 1
    BY <2>1, <2>2 DEF Room
  <2>4. \A id \in DOMAIN heap : id[1] = r => id[2] \in Nat /\ id[2] < 2
    BY <1>0, <2>1, <2>3 DEF Numbered, Ended
  <2>. QED
    BY <1>0, <2>1, <2>2, <2>4, WalkGoesOn
<1>8. ASSUME NEW r \in Reqs, JudgeBreaks(r) PROVE WalkInv'
  BY <1>8, WalkOver DEF JudgeBreaks, Ended
<1>9. ASSUME NEW r \in Reqs, NEW reply \in Wire, Served(r, reply) \/ Crashed(r, reply) PROVE WalkInv'
  BY <1>9, WalkOver DEF Served, Crashed, Ended
<1>10. ASSUME NEW r \in Reqs, NEW groups \in Filters, Walk(r, groups) PROVE WalkInv'
  <2> DEFINE d == heap[req[r].object]
             left == Filtered(<<d.provider>> \o Without(d.chain, {d.provider}), groups)
             q == IF left = <<>> THEN Over(req[r], "failed")
                  ELSE [req[r] EXCEPT !.phase = "calling", !.candidates = left, !.head = d.provider,
                                      !.idx = 1]
  <2>1. /\ req[r].phase = "screened" /\ UNCHANGED <<config, cache>> /\ Collected(heap)
        /\ req' = [req EXCEPT ![r] = q]
    BY <1>10 DEF Walk, WalkInv, RequestsTyped
  <2>2. /\ req[r].failed = <<>> /\ req[r].ask \in Asks /\ req[r].object \in DOMAIN heap
        /\ IsDecision(d)
    BY <1>0, <2>1 DEF GoodWalk, Busy, HeapTyped
  <2>3. /\ IsSequence(left) /\ (left # <<>> => 1 \in 1..Len(left))
        /\ IsInjective(d.chain) => IsInjective(left)
    BY <2>2, CandidatesGive DEF IsDecision
  <2> HIDE DEF left
  <2>4. CASE left = <<>>
    <3>1. IsRequest(q) /\ q.phase = "failed" /\ q.failed = <<>> /\ q.object = req[r].object
      BY <1>0, <2>2, <2>4, OverGives DEF Ended
    <3> HIDE DEF q, d
    <3>2. NamesDiffer(q.failed)
      BY <3>1 DEF NamesDiffer
    <3>3. GoodWalk(q, heap) /\ Numbered(heap, r, q)
      BY <2>2, NothingIsSeq, <3>1, <3>2 DEF GoodWalk, Numbered, Ended, Busy
    <3>. QED
      BY <1>0, <2>1, <3>3, WalkOne
  <2>5. CASE left # <<>>
    <3>1. /\ DOMAIN q = Fields /\ q.phase = "calling" /\ q.failed = <<>> /\ q.object = req[r].object
          /\ q.candidates = left /\ q.idx = 1 /\ q.ask = req[r].ask
      BY <1>0, <2>2, <2>5 DEF IsRequest, Fields
    <3>2. IsInjective(heap[q.object].chain) => IsInjective(q.candidates)
      BY <2>3, <3>1
    <3> HIDE DEF q, d
    <3>3. IsRequest(q)
      BY <3>1 DEF IsRequest, Phases, Busy
    <3>4. IsSequence(<<>>) /\ Len(<<>>) = 0
      BY NothingIsSeq
    <3>5. Walked(q, q.idx - 1)
      BY <2>3, <2>5, <3>1, <3>4 DEF Walked
    <3>6. GoodWalk(q, heap)
      BY <2>2, <3>4, <3>1, <3>2, <3>3, <3>5 DEF GoodWalk, Ended, Busy
    <3>7. Room(q) = 2 /\ Room(req[r]) = 2
      BY <2>1, <2>2, <3>1, <3>4 DEF Room
    <3>8. Numbered(heap, r, q)
      BY <1>0, <2>1, <3>7 DEF Numbered, Ended
    <3>. QED
      BY <1>0, <2>1, <3>6, <3>8, WalkOne
  <2>. QED
    BY <2>4, <2>5
\* A request that was called and is sent on with what has failed it.
<1>11. ASSUME NEW r \in Reqs, NEW q, IsRequest(q), q.object \in DOMAIN heap, Walked(q, q.idx), q.ask \in Asks,
              IsInjective(heap[q.object].chain) => IsInjective(q.candidates),
              NEW next, \/ next = Advanced(q)
                        \/ \E name : name \notin FailedNames(q.failed) /\ next = Redirected(q, name),
              req' = [req EXCEPT ![r] = next], config' = config, Collected(heap),
              req[r].phase \notin Ended, Room(req[r]) <= 2 + Len(q.failed), Room(req[r]) \in Nat,
              \A key \in DOMAIN cache' : cache'[key].object \in DOMAIN heap
       PROVE  WalkInv'
  <2>1. /\ GoodWalk(next, heap) /\ next.failed = q.failed /\ next.phase \in {"calling", "failed"}
    BY <1>11, SentOn
  <2>2. Len(q.failed) \in Nat
    BY <1>11, OwnOfSeq DEF Walked
  <2>3. next.phase = "calling" => Room(next) = 2 + Len(q.failed)
    BY <2>1 DEF Room
  <2>4. Numbered(heap, r, next)
    <3> SUFFICES ASSUME next.phase \notin Ended, NEW id \in DOMAIN heap, id[1] = r
                 PROVE  id[2] \in Nat /\ id[2] < Room(next)
      BY DEF Numbered
    <3>1. id[2] \in Nat /\ id[2] < Room(req[r])
      BY <1>0, <1>11 DEF Numbered
    <3>2. next.phase = "calling"
      BY <2>1 DEF Ended
    <3>. QED
      BY <1>11, <2>2, <2>3, <3>1, <3>2
  <2>. QED
    BY <1>0, <1>11, <2>1, <2>4, WalkOne
<1>12. ASSUME NEW r \in Reqs, NEW reply \in Wire, Fail(r, reply) PROVE WalkInv'
  <2> DEFINE class == Reply(r, reply).class
             entry == [name |-> Candidate(r), class |-> class]
             failed == Append(req[r].failed, entry)
             q == [req[r] EXCEPT !.failed = failed]
             rule == RuleTarget(r, class, failed)
             key == RetryKey(req[r].ask, req[r].sent, failed)
             asks == rule = None /\ TriggersOnError(class)
             used == [q EXCEPT !.judged = TRUE]
             asking == [q EXCEPT !.phase = "asking_retry", !.asked = Question(key)]
             to == CachedTarget(key, failed)
             next == IF rule # None THEN Redirected(q, rule)
                     ELSE IF ~asks THEN Advanced(q)
                     ELSE IF ~Has(key) THEN asking
                     ELSE IF to = None THEN Advanced(used) ELSE Redirected(used, to)
  <2>1. /\ config' = config /\ req[r].phase = "calling" /\ Collected(heap)
        /\ req' = [req EXCEPT ![r] = next]
        /\ cache' = IF asks THEN LookedUp(key) ELSE cache
    BY <1>12 DEF Fail
  <2>2. entry.name = req[r].candidates[req[r].idx]
    BY DEF Candidate
  <2>3. /\ rule # None => rule \notin FailedNames(failed)
        /\ to # None => to \notin FailedNames(failed)
    BY DEF RuleTarget, CachedTarget
  <2>4. \A k \in DOMAIN cache' : cache'[k].object \in DOMAIN heap
    BY <1>0, <2>1 DEF LookedUp, Dropped
  <2>5. /\ req[r].object \in DOMAIN heap /\ req[r].ask \in Asks /\ Walked(req[r], req[r].idx - 1)
        /\ IsInjective(heap[req[r].object].chain) => IsInjective(req[r].candidates)
    BY <1>0, <2>1 DEF GoodWalk, Busy
  <2> HIDE DEF entry
  <2>6. /\ IsSequence(failed) /\ Len(failed) = Len(req[r].failed) + 1
        /\ failed[Len(req[r].failed) + 1] = entry
        /\ \A j \in 1..Len(req[r].failed) : failed[j] = req[r].failed[j]
    BY <2>5, AppendOwn DEF Walked
  <2> HIDE DEF failed, class, rule, key, asks, to
  <2>7. /\ DOMAIN q = Fields /\ q.phase = "calling" /\ q.ask = req[r].ask /\ q.object = req[r].object
        /\ q.idx = req[r].idx /\ q.candidates = req[r].candidates /\ q.failed = failed
    BY <1>0, <2>1 DEF IsRequest, Fields
  <2>8. /\ DOMAIN used = Fields /\ used.phase = "calling" /\ used.ask = q.ask /\ used.object = q.object
        /\ used.idx = q.idx /\ used.candidates = q.candidates /\ used.failed = failed
        /\ DOMAIN asking = Fields /\ asking.phase = "asking_retry" /\ asking.ask = q.ask
        /\ asking.object = q.object /\ asking.idx = q.idx /\ asking.candidates = q.candidates
        /\ asking.failed = failed
    BY <2>7 DEF Fields
  <2> HIDE DEF q, used, asking
  <2>9. Walked(q, q.idx)
    <3>1. /\ IsSequence(req[r].candidates) /\ req[r].idx \in 1..Len(req[r].candidates)
          /\ Len(req[r].failed) = req[r].idx - 1
          /\ \A j \in 1..(req[r].idx - 1) : req[r].failed[j].name = req[r].candidates[j]
      BY <2>5 DEF Walked
    <3>2. req[r].idx \in Nat /\ Len(req[r].failed) + 1 = req[r].idx
      BY <3>1, OwnOfSeq
    <3>3. \A j \in 1..req[r].idx : failed[j].name = req[r].candidates[j]
      <4> TAKE j \in 1..req[r].idx
      <4>1. CASE j = req[r].idx
        BY <2>2, <2>6, <3>2, <4>1
      <4>2. CASE j # req[r].idx
        <5>1. j \in 1..Len(req[r].failed) /\ j \in 1..(req[r].idx - 1)
          BY <3>1, <3>2, <4>2
        <5>. QED
          BY <2>6, <3>1, <5>1
      <4>. QED
        BY <4>1, <4>2
    <3>. QED
      BY <2>6, <2>7, <3>1, <3>2, <3>3 DEF Walked
  <2>10. Walked(used, used.idx) /\ Walked(asking, asking.idx)
    BY <2>7, <2>8, <2>9 DEF Walked
  <2>11. IsRequest(q) /\ IsRequest(used) /\ IsRequest(asking)
    BY <2>7, <2>8 DEF IsRequest, Phases, Busy
  <2>12. /\ Len(req[r].failed) \in Nat /\ Room(req[r]) = 2 + Len(req[r].failed)
    BY <2>1, <2>5, OwnOfSeq DEF Walked, Room
  <2>13. req[r].phase \notin Ended /\ Room(req[r]) <= 2 + Len(failed) /\ Room(req[r]) \in Nat
    BY <2>1, <2>6, <2>12 DEF Ended
  <2>14. CASE next = asking
    <3>1. GoodWalk(asking, heap)
      BY <2>5, <2>6, <2>7, <2>8, <2>10, <2>11 DEF GoodWalk, Ended, Busy
    <3>2. Room(asking) = Room(req[r])
      <4>1. Room(asking) = 1 + Len(failed)
        BY <2>8 DEF Room
      <4>. QED
        BY <2>6, <2>12, <4>1
    <3>3. Numbered(heap, r, asking)
      BY <1>0, <2>13, <3>2 DEF Numbered
    <3> HIDE DEF next
    <3>4. req' = [req EXCEPT ![r] = asking]
      BY <2>1, <2>14
    <3>. QED
      BY <1>0, <2>1, <2>4, <3>1, <3>3, <3>4, WalkOne
  <2>15. CASE next = Advanced(q) \/ \E name : name \notin FailedNames(q.failed) /\ next = Redirected(q, name)
    <3> HIDE DEF next
    <3>. QED
      BY <1>11, <2>1, <2>4, <2>5, <2>7, <2>9, <2>11, <2>13, <2>15
  <2>16. CASE next = Advanced(used) \/ \E name : name \notin FailedNames(used.failed) /\ next = Redirected(used, name)
    <3> HIDE DEF next
    <3>. QED
      BY <1>11, <2>1, <2>4, <2>5, <2>7, <2>8, <2>10, <2>11, <2>13, <2>16
  <2>. QED
    BY <2>3, <2>7, <2>8, <2>14, <2>15, <2>16
<1>13. ASSUME NEW r \in Reqs, req[r].phase = "asking_retry"
       PROVE  /\ req[r].object \in DOMAIN heap /\ req[r].ask \in Asks /\ Walked(req[r], req[r].idx)
              /\ IsInjective(heap[req[r].object].chain) => IsInjective(req[r].candidates)
              /\ Len(req[r].failed) \in Nat /\ Room(req[r]) = 1 + Len(req[r].failed)
              /\ req[r].phase \notin Ended /\ Room(req[r]) <= 2 + Len(req[r].failed)
              /\ Room(req[r]) \in Nat
  <2>1. /\ req[r].object \in DOMAIN heap /\ req[r].ask \in Asks /\ Walked(req[r], req[r].idx)
        /\ IsInjective(heap[req[r].object].chain) => IsInjective(req[r].candidates)
    BY <1>0, <1>13 DEF GoodWalk, Busy
  <2>2. Len(req[r].failed) \in Nat /\ Room(req[r]) = 1 + Len(req[r].failed)
    BY <1>13, <2>1, OwnOfSeq DEF Walked, Room
  <2>. QED
    BY <1>13, <2>1, <2>2 DEF Ended
<1>14. ASSUME NEW r \in Reqs, NEW verdict \in Verdicts, AnswerRetry(r, verdict) PROVE WalkInv'
  <2> DEFINE n == 1 + Len(req[r].failed)
             i == <<r, n>>
             d == JudgeDecision(verdict)
             h == With(heap, i, d)
             sent == Redirected(req[r], verdict.provider)
             q == [sent EXCEPT !.judged = TRUE]
  <2>1. /\ req[r].phase = "asking_retry" /\ verdict.provider \notin FailedNames(req[r].failed)
        /\ config' = config /\ cache' = Kept(r, i) /\ Collected(h)
        /\ req' = [req EXCEPT ![r] = q]
    BY <1>14 DEF AnswerRetry, Taken, WalkInv, RequestsTyped
  <2>2. <<r, n>> \notin DOMAIN heap
    BY <2>1, NumbersAreFree
  <2>3. IsDecision(d)
    BY VerdictTyped
  <2> HIDE DEF d
  <2>4. Extends(h, r) /\ DOMAIN h = DOMAIN heap \cup {i} /\ \A id \in DOMAIN heap : h[id] = heap[id]
    <3> HIDE DEF n
    <3>. QED
      BY <2>2, <2>3, HeapGrown
  <2>5. n \in Nat /\ Room(req[r]) = n /\ req[r].phase \notin Ended /\ Len(req[r].failed) \in Nat
    BY <1>13, <2>1
  <2>6. i[1] = r /\ i[2] = n
    OBVIOUS
  <2> HIDE DEF h, i
  <2>7. req[r].object \in DOMAIN h /\ h[req[r].object].chain = heap[req[r].object].chain
    BY <1>13, <2>1, <2>4
  <2>8. /\ GoodWalk(sent, h) /\ sent.failed = req[r].failed /\ sent.phase \in {"calling", "failed"}
        /\ sent.phase = "calling"
    <3>1. /\ GoodWalk(sent, h) /\ sent.failed = req[r].failed /\ sent.phase \in {"calling", "failed"}
      BY <1>0, <1>13, <2>1, <2>7, SentOn
    <3>2. sent.phase = "calling"
      BY <1>0 DEF Redirected, IsRequest, Fields
    <3>. QED
      BY <3>1, <3>2
  <2>9. /\ DOMAIN q = Fields /\ q.phase = "calling" /\ q.failed = req[r].failed /\ q.ask = sent.ask
        /\ q.object = sent.object /\ q.idx = sent.idx /\ q.candidates = sent.candidates
    <3>1. DOMAIN sent = Fields
      BY <2>8 DEF GoodWalk, IsRequest
    <3> HIDE DEF sent
    <3>. QED
      BY <2>8, <3>1 DEF Fields
  <2> HIDE DEF sent, q
  <2>10. GoodWalk(q, h)
    BY <2>8, <2>9 DEF GoodWalk, Walked, IsRequest, Ended
  <2>11. Room(q) = 1 + n
    BY <2>5, <2>9 DEF Room, n
  <2>12. Numbered(h, r, q)
    <3> HIDE DEF n
    <3>1. \A id \in DOMAIN heap : id[1] = r => id[2] \in Nat /\ id[2] < n
      BY <1>0, <2>5 DEF Numbered
    <3>. QED
      BY <2>4, <2>5, <2>6, <2>11, <3>1 DEF Numbered
  <2>13. \A key \in DOMAIN cache' : cache'[key].object \in DOMAIN h
    BY <1>0, <2>1, <2>4 DEF Kept, With
  <2>. QED
    BY <2>1, <2>4, <2>10, <2>12, <2>13, WalkOne
<1>15. ASSUME NEW r \in Reqs, NoAnswerRetry(r) PROVE WalkInv'
  <2>1. /\ req[r].phase = "asking_retry" /\ config' = config /\ cache' = cache /\ Collected(heap)
        /\ req' = [req EXCEPT ![r] = Advanced(req[r])]
    BY <1>15 DEF NoAnswerRetry, WalkInv, RequestsTyped
  <2>. QED
    BY <1>0, <1>11, <1>13, <2>1
<1>16. ASSUME NEW new \in Configs, Reload(new) PROVE WalkInv'
  <2> DEFINE on(r) == req[r].sawOn \/ (new.judge.enabled /\ req[r].phase \notin Ended \cup {"idle"})
  <2>1. /\ config' = new /\ cache' = cache /\ heap' = heap
        /\ req' = [r \in Reqs |-> [req[r] EXCEPT !.sawOn = on(r)]]
    BY <1>16 DEF Reload
  <2> HIDE DEF on
  <2>2. ASSUME NEW r \in Reqs
        PROVE  IsRequest(req'[r]) /\ GoodWalk(req'[r], heap) /\ Numbered(heap, r, req'[r])
    <3>1. /\ DOMAIN req'[r] = Fields /\ req'[r].phase = req[r].phase /\ req'[r].ask = req[r].ask
          /\ req'[r].object = req[r].object /\ req'[r].candidates = req[r].candidates
          /\ req'[r].idx = req[r].idx /\ req'[r].failed = req[r].failed
      BY <1>0, <2>1 DEF IsRequest, Fields
    <3>2. IsRequest(req'[r])
      BY <1>0, <3>1 DEF IsRequest
    <3>3. GoodWalk(req'[r], heap)
      BY <1>0, <3>1, <3>2 DEF GoodWalk, Walked
    <3>. QED
      BY <1>0, <3>1, <3>2, <3>3 DEF Numbered, Room
  <2>3. RequestsTyped'
    BY <2>1, <2>2 DEF RequestsTyped
  <2>. QED
    BY <2>1, <2>2, <2>3 DEF WalkInv, HeapTyped, GoodWalk, Numbered, Walked, Room
<1>17. CASE Tick \/ UNCHANGED vars
  <2>1. UNCHANGED <<config, cache, heap, req>>
    BY <1>17 DEF Tick, vars
  <2>. QED
    BY <2>1 DEF WalkInv, RequestsTyped, HeapTyped, GoodWalk, Numbered, Walked, Room
<1>. QED
  BY <1>3, <1>4, <1>5, <1>6, <1>7, <1>8, <1>9, <1>10, <1>12, <1>14, <1>15, <1>16, <1>17
     DEF Next, StartsAny, Moves, AnswersAny, CallsAny

LEMMA WalkInit == Init => WalkInv
PROOF
<1> SUFFICES ASSUME Init PROVE WalkInv
  OBVIOUS
<1>1. config \in Configs /\ req = [r \in Reqs |-> Fresh] /\ DOMAIN heap = {} /\ DOMAIN cache = {}
  BY FirstConfigAssumption DEF Init
<1>2. IsRequest(Fresh) /\ Fresh.phase = "idle" /\ Fresh.failed = <<>>
  BY FreshTyped DEF Fresh
<1>3. RequestsTyped
  BY <1>1, <1>2 DEF RequestsTyped
<1>4. GoodWalk(Fresh, heap)
  BY <1>2, NothingIsSeq DEF GoodWalk, Busy, Ended
<1>. QED
  BY <1>1, <1>3, <1>4 DEF WalkInv, HeapTyped, Numbered

\* No provider fails a request twice, whatever the rules, the judge and its cache redirect
\* it to, if the decision's own chain names none twice.
THEOREM NoneFailsTwice == Spec => []NoProviderFailsTwice
PROOF
<1>1. Init => WalkInv
  BY WalkInit
<1>2. WalkInv => NoProviderFailsTwice
  <2> SUFFICES ASSUME WalkInv, NEW r \in Reqs, req[r].failed # <<>>,
                      IsInjective(heap[req[r].object].chain)
               PROVE  NamesDiffer(req[r].failed)
    BY DEF NoProviderFailsTwice, NamesDiffer
  <2>1. GoodWalk(req[r], heap)
    BY DEF WalkInv
  <2>2. req[r].phase \in {"calling", "asking_retry", "failed"}
    BY <2>1 DEF GoodWalk, IsRequest, Phases, Busy
  <2>3. CASE req[r].phase = "failed"
    BY <2>1, <2>3 DEF GoodWalk
  <2>4. ASSUME NEW n, Walked(req[r], n), n <= req[r].idx, IsInjective(req[r].candidates), n \in Int
        PROVE  NamesDiffer(req[r].failed)
    <3>1. /\ IsSequence(req[r].candidates) /\ IsSequence(req[r].failed) /\ Len(req[r].failed) = n
          /\ req[r].idx \in 1..Len(req[r].candidates)
          /\ \A j \in 1..n : req[r].failed[j].name = req[r].candidates[j]
      BY <2>4 DEF Walked
    <3>2. /\ DOMAIN req[r].failed = 1..n /\ n \in Nat
          /\ DOMAIN req[r].candidates = 1..Len(req[r].candidates) /\ Len(req[r].candidates) \in Nat
      BY <3>1, OwnOfSeq
    <3>3. \A j \in 1..n : j \in DOMAIN req[r].candidates
      BY <2>4, <3>1, <3>2
    <3>. QED
      BY <2>4, <3>1, <3>2, <3>3 DEF NamesDiffer, IsInjective
  <2>5. CASE req[r].phase \in {"calling", "asking_retry"}
    <3>1. IsInjective(req[r].candidates)
      BY <2>1, <2>5 DEF GoodWalk
    <3>2. req[r].idx \in Int
      BY <2>1, <2>5, OwnOfSeq DEF GoodWalk, Walked
    <3>3. Walked(req[r], req[r].idx) \/ Walked(req[r], req[r].idx - 1)
      BY <2>1, <2>5 DEF GoodWalk
    <3>. QED
      BY <2>4, <3>1, <3>2, <3>3
  <2>. QED
    BY <2>2, <2>3, <2>5
<1>. QED
  BY <1>1, <1>2, WalkStep, PTL DEF Spec
-----------------------------------------------------------------------------
(* The screen *)

Alike(a, b) == a.content = b.content /\ a.text = b.text

LEMMA MissKeysDiffer ==
  ASSUME NEW a, NEW b, MissKey(a) = MissKey(b)
  PROVE  Alike(a, b)
PROOF
<1>1. MissKey(a)[2] = MissKey(b)[2] /\ MissKey(a)[3] = MissKey(b)[3]
  OBVIOUS
<1>. QED
  BY <1>1 DEF MissKey, Alike

LEMMA RetryKeysDiffer ==
  ASSUME NEW a, NEW b, NEW sent, NEW failed
  PROVE  RetryKey(a, sent, failed) # MissKey(b)
PROOF
<1>1. RetryKey(a, sent, failed)[1] = "on_retry" /\ MissKey(b)[1] = "on_policy_miss"
  BY DEF RetryKey, MissKey
<1>. QED
  BY <1>1

\* What the screen has sent on is cleared for the provider it was screened for.
LEMMA ScreenedIsCleared ==
  ASSUME NEW ask \in Asks, NEW provider, Out(ask, provider).action \notin {"block", "reroute"},
         NEW sent, sent = IF ask.content = "search" THEN Out(ask, provider).text ELSE ask.text
  PROVE  Cleared(provider, ask.content, sent)
PROOF
<1> SUFFICES ASSUME NEW p \in DOMAIN Policies, Policies[p].enabled,
                    p = SelectPolicy(Policies, provider), NEW i \in DOMAIN Policies[p].outbound
             PROVE  LET rules == Policies[p].outbound
                        found == rules[i].pattern \cap sent \cap (IF rules[i].luhn THEN Cards ELSE sent)
                        hits == IF ask.content = "search" THEN found
                                ELSE found \ RedactedBefore(rules, i)
                    IN  hits = {} \/ rules[i].action = "log"
                                  \/ (rules[i].action = "redact" /\ ask.content = "extract")
  BY DEF Cleared
<1> DEFINE rules == Policies[p].outbound
           found == rules[i].pattern \cap sent \cap (IF rules[i].luhn THEN Cards ELSE sent)
           hits == IF ask.content = "search" THEN found ELSE found \ RedactedBefore(rules, i)
<1>1. /\ Policies \in Seq(Range(Policies))
      /\ \A k \in DOMAIN Policies : Policies[k].outbound \in Seq(Range(Policies[k].outbound))
      /\ rules[i].action \in {"block", "reroute", "redact", "log"}
      /\ ask.content \in {"search", "extract"}
  BY PoliciesAssumption, AsksAssumption DEF IsSequence
<1>2. ASSUME NEW m \in rules[i].pattern, rules[i].luhn => m \in Cards
      PROVE  /\ m \in Out(ask, provider).text => rules[i].action \notin {"block", "reroute", "redact"}
             /\ m \in ask.text /\ (\A j \in 1..i-1 : rules[j].action = "redact" =>
                                      m \notin rules[j].pattern)
                  => rules[i].action \notin {"block", "reroute"}
  BY <1>1, <1>2, OutboundClears DEF Out
<1>3. ASSUME NEW m \in hits PROVE m \in rules[i].pattern /\ m \in sent /\ (rules[i].luhn => m \in Cards)
  BY <1>3
<1>4. CASE ask.content = "search"
  BY <1>1, <1>2, <1>3, <1>4
<1>5. CASE ask.content = "extract"
  <2> SUFFICES ASSUME NEW m \in hits PROVE rules[i].action \notin {"block", "reroute"}
    BY <1>1, <1>5
  <2>1. m \notin RedactedBefore(rules, i)
    BY <1>5
  <2>2. \A j \in 1..i-1 : rules[j].action = "redact" => m \notin rules[j].pattern
    BY <2>1 DEF RedactedBefore
  <2> HIDE DEF hits, found, rules
  <2>. QED
    BY <1>2, <1>3, <1>5, <2>2
<1>. QED
  BY <1>1, <1>4, <1>5

\* The decisions the judge has cached for a policy miss are its own, one for each question,
\* and none is the one that Tier 1 has made for a request.
GoodCache(c, h) ==
    /\ \A key \in DOMAIN c : c[key].object[2] # 0
    /\ \A a \in Asks : MissKey(a) \in DOMAIN c => h[c[MissKey(a)].object].policy = Judge
    /\ \A a, b \in Asks : /\ MissKey(a) \in DOMAIN c /\ MissKey(b) \in DOMAIN c
                          /\ c[MissKey(a)].object = c[MissKey(b)].object
                          => Alike(a, b)

\* A screened request's text may go to the provider its decision names, and who else is
\* handed that decision from the cache asks the same.
GoodScreen(r, q, c, h) ==
    /\ q.phase \in Busy /\ q.object[2] = 0 => q.object[1] = r
    /\ q.phase = "asking" => q.object = <<r, 0>> /\ q.asked.key = MissKey(q.ask)
    /\ q.phase = "asking_retry" => \A ask \in Asks : q.asked.key # MissKey(ask)
    /\ q.phase = "screened" =>
         /\ MayGo(q.ask, h[q.object].provider, q.sent)
         /\ \A ask \in Asks : MissKey(ask) \in DOMAIN c /\ c[MissKey(ask)].object = q.object
                              => Alike(ask, q.ask)
    /\ q.phase = "calling" /\ q.idx = 1 =>
         \/ Cleared(q.head, q.ask.content, q.sent)
         \/ SentUnscreened(q.ask, q.head) /\ q.sent = q.ask.text

ScreenInv == GoodCache(cache, heap) /\ \A r \in Reqs : GoodScreen(r, req[r], cache, heap)

LEMMA GoodScreenMoves ==
  ASSUME NEW r, NEW q, NEW c, NEW d, NEW h, NEW g, GoodScreen(r, q, c, h),
         q.phase = "screened" =>
           /\ \/ g[q.object].provider = h[q.object].provider
              \/ MayGo(q.ask, g[q.object].provider, q.sent)
           /\ \A ask \in Asks : MissKey(ask) \in DOMAIN d /\ d[MissKey(ask)].object = q.object
                                => MissKey(ask) \in DOMAIN c /\ c[MissKey(ask)].object = q.object
  PROVE  GoodScreen(r, q, d, g)
PROOF BY DEF GoodScreen

LEMMA ScreenOne ==
  ASSUME WalkInv, ScreenInv, NEW r \in Reqs, NEW q, req' = [req EXCEPT ![r] = q],
         NEW h, Collected(h), GoodScreen(r, q, cache', h), GoodCache(cache', h),
         q.phase \in Busy => q.object \in DOMAIN h,
         DOMAIN heap \subseteq DOMAIN h,
         \A key \in DOMAIN cache' : cache'[key].object \in DOMAIN h,
         \A p \in Reqs \ {r} : req[p].phase = "screened" =>
           /\ \/ h[req[p].object].provider = heap[req[p].object].provider
              \/ MayGo(req[p].ask, h[req[p].object].provider, req[p].sent)
           /\ \A ask \in Asks :
                MissKey(ask) \in DOMAIN cache' /\ cache'[MissKey(ask)].object = req[p].object
                => MissKey(ask) \in DOMAIN cache /\ cache[MissKey(ask)].object = req[p].object
  PROVE  ScreenInv'
PROOF
<1>1. req'[r] = q /\ \A p \in Reqs : p # r => req'[p] = req[p]
  BY DEF WalkInv, RequestsTyped
<1>2. /\ \A id \in DOMAIN heap' : heap'[id] = h[id]
      /\ \A p \in Reqs : req'[p].object \in DOMAIN h => req'[p].object \in DOMAIN heap'
      /\ \A key \in DOMAIN cache' : cache'[key].object \in DOMAIN heap'
  BY DEF Collected, InUse
<1>3. GoodCache(cache', heap')
  BY <1>2 DEF GoodCache
<1>4. ASSUME NEW p \in Reqs PROVE GoodScreen(p, req'[p], cache', heap')
  <2>1. CASE p = r
    <3>1. q.phase = "screened" => heap'[q.object].provider = h[q.object].provider
      BY <1>1, <1>2 DEF Busy
    <3>. QED
      BY <1>1, <2>1, <3>1, GoodScreenMoves
  <2>2. CASE p # r
    <3>1. GoodScreen(p, req[p], cache, heap) /\ req'[p] = req[p]
      BY <1>1, <2>2 DEF ScreenInv
    <3>2. req[p].phase = "screened" => req[p].object \in DOMAIN heap
      BY DEF WalkInv, GoodWalk, Busy
    <3>3. req[p].phase = "screened" =>
            \/ heap'[req[p].object].provider = heap[req[p].object].provider
            \/ MayGo(req[p].ask, heap'[req[p].object].provider, req[p].sent)
      BY <1>2, <2>2, <3>1, <3>2
    <3>4. GoodScreen(p, req[p], cache', heap')
      BY <2>2, <3>1, <3>3, GoodScreenMoves
    <3>. QED
      BY <3>1, <3>4
  <2>. QED
    BY <2>1, <2>2
<1>. QED
  BY <1>3, <1>4 DEF ScreenInv, GoodCache, GoodScreen, MissKey, Alike, MayGo, Out, Cleared, SentUnscreened

\* What was looked up and not found is not in the cache any more; nothing else is lost.
Shrinks == \A key \in DOMAIN cache' : key \in DOMAIN cache /\ cache'[key] = cache[key]

LEMMA ShrunkGives ==
  ASSUME WalkInv, ScreenInv, Shrinks, NEW h, DOMAIN heap \subseteq DOMAIN h,
         \A id \in DOMAIN heap : h[id].policy = heap[id].policy
  PROVE  /\ GoodCache(cache', h)
         /\ \A key \in DOMAIN cache' : cache'[key].object \in DOMAIN h
PROOF
<1>1. \A key \in DOMAIN cache : cache[key].object \in DOMAIN heap
  BY DEF WalkInv
<1>. QED
  BY <1>1 DEF ScreenInv, GoodCache, Shrinks

\* A request moves that is not screened afterwards, and the decisions stay as they are.
LEMMA ScreenSame ==
  ASSUME WalkInv, ScreenInv, NEW r \in Reqs, NEW q, req' = [req EXCEPT ![r] = q], Shrinks,
         Collected(heap), GoodScreen(r, q, cache', heap), q.phase \in Busy => q.object \in DOMAIN heap
  PROVE  ScreenInv'
PROOF
<1>1. GoodCache(cache', heap) /\ \A key \in DOMAIN cache' : cache'[key].object \in DOMAIN heap
  BY ShrunkGives
<1>. QED
  BY <1>1, ScreenOne DEF Shrinks

\* A request goes on with a decision that no screened request holds, or that is the judge's
\* and held by requests that ask the same.
LEMMA ScreenGoesOn ==
  ASSUME WalkInv, ScreenInv, NEW r \in Reqs, NEW ask \in Asks, NEW h, HeapTyped(h), NEW i \in DOMAIN h,
         NEW seen, IsRequest(seen), GoesOn(r, ask, h, i, seen),
         DOMAIN heap \subseteq DOMAIN h, \A id \in DOMAIN heap : h[id] = heap[id],
         i[2] = 0 => i[1] = r, GoodCache(cache', h),
         \A key \in DOMAIN cache' : cache'[key].object \in DOMAIN h,
         \A a \in Asks : MissKey(a) \in DOMAIN cache' /\ cache'[MissKey(a)].object = i => Alike(a, ask),
         \A p \in Reqs \ {r} : req[p].phase = "screened" =>
           /\ req[p].object = i => h[i].policy = Judge /\ Alike(ask, req[p].ask)
           /\ \A a \in Asks :
                MissKey(a) \in DOMAIN cache' /\ cache'[MissKey(a)].object = req[p].object
                => MissKey(a) \in DOMAIN cache /\ cache[MissKey(a)].object = req[p].object
  PROVE  ScreenInv'
PROOF
<1> DEFINE s == Screened(ask, h, i)
           q == req'[r]
<1>1. /\ DOMAIN s.heap = DOMAIN h
      /\ \A id \in DOMAIN h : s.heap[id].policy = h[id].policy /\ (id # i => s.heap[id] = h[id])
      /\ s.phase = "screened" => MayGo(ask, s.heap[i].provider, s.sent)
      /\ h[i].policy = Judge =>
           \/ s.heap = h
           \/ /\ Out(ask, h[i].provider).action = "reroute"
              /\ s.heap[i].provider = Out(ask, h[i].provider).to
  BY ScreenGives
<1>2. /\ req' = [req EXCEPT ![r] = q] /\ q.phase = s.phase
      /\ q.phase \in {"dry", "blocked", "screened"} /\ q.object = i /\ q.ask = ask /\ q.sent = s.sent
  BY GoesOnGives DEF WalkInv
<1>3. Collected(s.heap)
  BY DEF GoesOn
<1> HIDE DEF s, q
<1>4. GoodCache(cache', s.heap)
  BY <1>1 DEF GoodCache
<1>5. GoodScreen(r, q, cache', s.heap)
  BY <1>1, <1>2 DEF GoodScreen
<1>6. \A p \in Reqs \ {r} : req[p].phase = "screened" =>
        \/ s.heap[req[p].object].provider = heap[req[p].object].provider
        \/ MayGo(req[p].ask, s.heap[req[p].object].provider, req[p].sent)
  <2> TAKE p \in Reqs \ {r}
  <2> HAVE req[p].phase = "screened"
  <2>1. req[p].object \in DOMAIN heap /\ h[req[p].object] = heap[req[p].object]
    BY DEF WalkInv, GoodWalk, Busy
  <2>2. CASE req[p].object # i \/ s.heap = h
    BY <1>1, <2>1, <2>2
  \* Who holds the decision already holds it by a reroute if the text is rerouted from here.
  <2>3. CASE req[p].object = i /\ s.heap # h
    <3>1. /\ Alike(ask, req[p].ask) /\ Out(ask, h[i].provider).action = "reroute"
          /\ s.heap[i].provider = Out(ask, h[i].provider).to
      BY <1>1, <2>3
    <3>2. MayGo(req[p].ask, h[i].provider, req[p].sent)
      BY <2>1, <2>3 DEF ScreenInv, GoodScreen
    <3>3. req[p].sent = ask.text
      BY <3>1, <3>2 DEF MayGo, Alike, Out
    <3>4. MayGo(ask, s.heap[i].provider, ask.text)
      BY <3>1, RerouteMayGo
    <3>. QED
      BY <2>3, <3>1, <3>3, <3>4 DEF MayGo, Alike, Out, SentUnscreened
  <2>. QED
    BY <2>2, <2>3
<1>. QED
  BY <1>1, <1>2, <1>3, <1>4, <1>5, <1>6, ScreenOne

\* Who has failed, served or been interrupted is screened no more.
LEMMA OverIsGood ==
  ASSUME NEW r, NEW q, IsRequest(q), NEW phase \in Ended, NEW c, NEW h
  PROVE  GoodScreen(r, Over(q, phase), c, h) /\ Over(q, phase).phase \notin Busy
PROOF
<1>1. Over(q, phase).phase = phase
  BY OverGives
<1>. QED
  BY <1>1 DEF GoodScreen, Ended, Busy

\* A failed request that is sent on is past its first candidate.
LEMMA NextIsGood ==
  ASSUME NEW r, NEW q, IsRequest(q), q.idx \in Nat \ {0}, q.object[2] = 0 => q.object[1] = r,
         NEW next, next = Advanced(q) \/ \E name : next = Redirected(q, name), NEW c, NEW h
  PROVE  GoodScreen(r, next, c, h) /\ (next.phase \in Busy => next.object = q.object)
PROOF
<1>1. DOMAIN q = Fields
  BY DEF IsRequest
<1>2. CASE next = Over(q, "failed")
  BY <1>2, OverIsGood DEF Ended
<1>3. CASE next.phase = "calling" /\ next.object = q.object /\ next.idx = q.idx + 1
  <2>1. next.idx # 1
    BY <1>3
  <2>. QED
    BY <1>3, <2>1 DEF GoodScreen
<1>4. \/ next = Over(q, "failed")
      \/ next.phase = "calling" /\ next.object = q.object /\ next.idx = q.idx + 1
  BY <1>1 DEF Advanced, Redirected, Fields
<1>. QED
  BY <1>2, <1>3, <1>4

LEMMA ScreenStep == WalkInv /\ ScreenInv /\ [Next]_vars => ScreenInv'
PROOF
<1> SUFFICES ASSUME WalkInv, ScreenInv, [Next]_vars PROVE ScreenInv'
  OBVIOUS
<1>0. ASSUME NEW r \in Reqs
      PROVE  /\ IsRequest(req[r]) /\ GoodWalk(req[r], heap) /\ GoodScreen(r, req[r], cache, heap)
             /\ HeapTyped(heap) /\ config \in Configs /\ GoodCache(cache, heap)
             /\ \A key \in DOMAIN cache : cache[key].object \in DOMAIN heap
             /\ req[r].phase \in Busy => req[r].object \in DOMAIN heap
  BY DEF WalkInv, RequestsTyped, ScreenInv, GoodWalk
<1>1. ASSUME NEW p \in Reqs, req[p].phase = "screened"
      PROVE  /\ req[p].object \in DOMAIN heap /\ (req[p].object[2] = 0 => req[p].object[1] = p)
             /\ req[p].ask \in Asks
             /\ MayGo(req[p].ask, heap[req[p].object].provider, req[p].sent)
             /\ \A a \in Asks : MissKey(a) \in DOMAIN cache /\ cache[MissKey(a)].object = req[p].object
                                => Alike(a, req[p].ask)
  BY <1>0, <1>1 DEF GoodScreen, GoodWalk, Busy
\* A decision with a new number goes on a heap, and into the cache at most.
<1>2. ASSUME NEW r \in Reqs, NEW k, NEW d, IsDecision(d), <<r, k>> \notin DOMAIN heap,
             NEW h, h = With(heap, <<r, k>>, d), cache' = cache
      PROVE  /\ HeapTyped(h) /\ <<r, k>> \in DOMAIN h
             /\ DOMAIN heap \subseteq DOMAIN h /\ \A id \in DOMAIN heap : h[id] = heap[id]
             /\ GoodCache(cache', h) /\ \A key \in DOMAIN cache' : cache'[key].object \in DOMAIN h
  <2>1. /\ HeapTyped(h) /\ DOMAIN h = DOMAIN heap \cup {<<r, k>>}
        /\ \A id \in DOMAIN heap : h[id] = heap[id]
    BY <1>2, HeapGrown DEF Extends
  <2>2. \A id \in DOMAIN heap : h[id].policy = heap[id].policy
    BY <2>1
  <2>3. DOMAIN heap \subseteq DOMAIN h /\ <<r, k>> \in DOMAIN h
    BY <2>1
  <2>4. Shrinks
    BY <1>2 DEF Shrinks
  <2>. QED
    BY <2>1, <2>2, <2>3, <2>4, ShrunkGives
<1>3. ASSUME NEW r \in Reqs, NEW ask \in Asks, Start(r, ask) PROVE ScreenInv'
  <2> DEFINE d == Evaluate(config, ask)
             i == <<r, 0>>
             h == With(heap, i, d)
  <2>1. IsDecision(d)
    BY <1>0, EvaluateTyped
  <2>2. /\ GoesOn(r, ask, h, i, Begun(ask)) /\ cache' = cache /\ req[r].phase = "idle"
    BY <1>3 DEF Start
  <2>3. <<r, 0>> \notin DOMAIN heap
    BY <2>2, NumbersAreFree
  <2> HIDE DEF d
  <2>4. /\ HeapTyped(h) /\ i \in DOMAIN h
        /\ DOMAIN heap \subseteq DOMAIN h /\ \A id \in DOMAIN heap : h[id] = heap[id]
        /\ GoodCache(cache', h) /\ \A key \in DOMAIN cache' : cache'[key].object \in DOMAIN h
    BY <1>2, <2>1, <2>2, <2>3
  <2>5. i[1] = r /\ i \notin DOMAIN heap
    BY <2>3
  <2> HIDE DEF h, i
  <2>6. \A p \in Reqs \ {r} : req[p].phase = "screened" => req[p].object # i
    BY <1>1, <2>5
  <2>7. \A a \in Asks : MissKey(a) \in DOMAIN cache' => cache'[MissKey(a)].object # i
    BY <1>0, <2>2, <2>5
  <2>. QED
    BY <2>2, <2>4, <2>5, <2>6, <2>7, BegunTyped, ScreenGoesOn
<1>4. ASSUME NEW r \in Reqs, NEW ask \in Asks, StartCached(r, ask) PROVE ScreenInv'
  <2> DEFINE seen == [Begun(ask) EXCEPT !.judged = TRUE]
             i == cache[MissKey(ask)].object
  <2>1. IsRequest(seen)
    BY BegunTyped DEF IsRequest, Fields
  <2>2. /\ GoesOn(r, ask, heap, i, seen) /\ cache' = cache /\ MissKey(ask) \in DOMAIN cache
    BY <1>4 DEF StartCached, Has
  <2>3. i \in DOMAIN heap /\ i[2] # 0 /\ heap[i].policy = Judge
    BY <1>0, <2>2 DEF GoodCache
  <2>4. \A a \in Asks : MissKey(a) \in DOMAIN cache /\ cache[MissKey(a)].object = i => Alike(a, ask)
    BY <1>0, <2>2 DEF GoodCache
  <2>5. ASSUME NEW p \in Reqs, req[p].phase = "screened", req[p].object = i
        PROVE  Alike(ask, req[p].ask)
    BY <1>1, <2>2, <2>5
  <2> HIDE DEF seen, i
  <2>. QED
    BY <1>0, <2>1, <2>2, <2>3, <2>4, <2>5, ScreenGoesOn
<1>5. ASSUME NEW r \in Reqs, NEW ask \in Asks, StartAsking(r, ask) PROVE ScreenInv'
  <2> DEFINE d == Evaluate(config, ask)
             h == With(heap, <<r, 0>>, d)
             question == Question(MissKey(ask))
             q == [Begun(ask) EXCEPT !.phase = "asking", !.object = <<r, 0>>, !.asked = question]
  <2>1. IsDecision(d)
    BY <1>0, EvaluateTyped
  <2>2. /\ req' = [req EXCEPT ![r] = q] /\ cache' = LookedUp(MissKey(ask))
        /\ req[r].phase = "idle" /\ Collected(h)
    BY <1>5 DEF StartAsking
  <2>3. <<r, 0>> \notin DOMAIN heap
    BY <2>2, NumbersAreFree
  <2> HIDE DEF d
  <2>4. HeapTyped(h) /\ DOMAIN h = DOMAIN heap \cup {<<r, 0>>} /\ \A id \in DOMAIN heap : h[id] = heap[id]
    BY <2>1, <2>3, HeapGrown DEF Extends
  <2>5. question.key = MissKey(ask)
    BY DEF Question
  <2> HIDE DEF question
  <2>6. q.phase = "asking" /\ q.object = <<r, 0>> /\ q.ask = ask /\ q.asked = question
    BY DEF Begun, Fresh
  <2> HIDE DEF q, h
  <2>7. GoodScreen(r, q, cache', h)
    BY <2>5, <2>6 DEF GoodScreen
  <2>8. Shrinks
    BY <2>2 DEF LookedUp, Dropped, Shrinks
  <2>9. GoodCache(cache', h) /\ \A key \in DOMAIN cache' : cache'[key].object \in DOMAIN h
    BY <2>4, <2>8, ShrunkGives
  <2>. QED
    BY <1>1, <2>2, <2>4, <2>6, <2>7, <2>8, <2>9, ScreenOne DEF Shrinks
<1>6. ASSUME NEW r \in Reqs, NEW verdict \in Verdicts, AnswerMiss(r, verdict) PROVE ScreenInv'
  <2> DEFINE i == <<r, 1>>
             d == JudgeDecision(verdict)
             h == With(heap, i, d)
             seen == [req[r] EXCEPT !.judged = TRUE]
             ask == req[r].ask
  <2>1. /\ GoesOn(r, ask, h, i, seen) /\ cache' = Kept(r, i) /\ req[r].phase = "asking"
    BY <1>6 DEF AnswerMiss
  <2>2. IsDecision(d) /\ d.policy = Judge
    BY VerdictTyped DEF JudgeDecision
  <2>3. <<r, 1>> \notin DOMAIN heap
    BY <2>1, NumbersAreFree
  <2> HIDE DEF d
  <2>4. /\ HeapTyped(h) /\ DOMAIN h = DOMAIN heap \cup {i} /\ h[i] = d
        /\ \A id \in DOMAIN heap : h[id] = heap[id]
    BY <2>2, <2>3, HeapGrown DEF Extends
  <2>5. i[1] = r /\ i[2] # 0 /\ i \notin DOMAIN heap
    BY <2>3
  <2>6. IsRequest(seen) /\ ask \in Asks /\ req[r].asked.key = MissKey(ask)
    BY <1>0, <2>1 DEF IsRequest, Fields, GoodScreen, GoodWalk, Busy
  <2> HIDE DEF h, i, seen, ask
  <2>7. \A a \in Asks : MissKey(a) \in DOMAIN cache' =>
          \/ cache'[MissKey(a)].object = i /\ Alike(a, ask)
          \/ /\ MissKey(a) \in DOMAIN cache /\ cache'[MissKey(a)] = cache[MissKey(a)]
             /\ cache[MissKey(a)].object \in DOMAIN heap
    BY <1>0, <2>1, <2>6, MissKeysDiffer DEF Kept, With
  <2>8. \A key \in DOMAIN cache' :
          cache'[key].object = i \/ (key \in DOMAIN cache /\ cache'[key] = cache[key])
    BY <2>1 DEF Kept, With
  <2>9. GoodCache(cache', h)
    <3>1. \A key \in DOMAIN cache' : cache'[key].object[2] # 0
      BY <1>0, <2>5, <2>8 DEF GoodCache
    <3>2. \A a \in Asks : MissKey(a) \in DOMAIN cache' => h[cache'[MissKey(a)].object].policy = Judge
      BY <1>0, <2>2, <2>4, <2>7 DEF GoodCache
    <3>3. \A a, b \in Asks : /\ MissKey(a) \in DOMAIN cache' /\ MissKey(b) \in DOMAIN cache'
                             /\ cache'[MissKey(a)].object = cache'[MissKey(b)].object
                             => Alike(a, b)
      <4> TAKE a, b \in Asks
      <4> HAVE /\ MissKey(a) \in DOMAIN cache' /\ MissKey(b) \in DOMAIN cache'
               /\ cache'[MissKey(a)].object = cache'[MissKey(b)].object
      <4>1. CASE Alike(a, ask) /\ Alike(b, ask)
        BY <4>1 DEF Alike
      <4>2. CASE /\ MissKey(a) \in DOMAIN cache /\ cache'[MissKey(a)] = cache[MissKey(a)]
                 /\ MissKey(b) \in DOMAIN cache /\ cache'[MissKey(b)] = cache[MissKey(b)]
        BY <1>0, <4>2 DEF GoodCache
      <4>. QED
        BY <2>5, <2>7, <4>1, <4>2
    <3>. QED
      BY <3>1, <3>2, <3>3 DEF GoodCache
  <2>10. \A key \in DOMAIN cache' : cache'[key].object \in DOMAIN h
    BY <1>0, <2>4, <2>8
  <2>11. \A a \in Asks : MissKey(a) \in DOMAIN cache' /\ cache'[MissKey(a)].object = i => Alike(a, ask)
    BY <2>5, <2>7
  <2>12. \A p \in Reqs \ {r} : req[p].phase = "screened" =>
           /\ req[p].object # i
           /\ \A a \in Asks :
                MissKey(a) \in DOMAIN cache' /\ cache'[MissKey(a)].object = req[p].object
                => MissKey(a) \in DOMAIN cache /\ cache[MissKey(a)].object = req[p].object
    BY <1>1, <2>5, <2>7
  <2>. QED
    BY <2>1, <2>4, <2>5, <2>6, <2>9, <2>10, <2>11, <2>12, ScreenGoesOn
<1>7. ASSUME NEW r \in Reqs, NoAnswerMiss(r) PROVE ScreenInv'
  <2> DEFINE i == req[r].object
             ask == req[r].ask
  <2>1. GoesOn(r, ask, heap, i, req[r]) /\ cache' = cache /\ req[r].phase = "asking"
    BY <1>7 DEF NoAnswerMiss
  <2>2. i = <<r, 0>> /\ i \in DOMAIN heap /\ ask \in Asks
    BY <1>0, <2>1 DEF GoodScreen, GoodWalk, Busy
  <2>3. i[1] = r /\ i[2] = 0
    BY <2>2
  <2>4. \A a \in Asks : MissKey(a) \in DOMAIN cache => cache[MissKey(a)].object # i
    BY <1>0, <2>3 DEF GoodCache
  <2>5. \A p \in Reqs \ {r} : req[p].phase = "screened" => req[p].object # i
    BY <1>1, <2>3
  <2> HIDE DEF i, ask
  <2>. QED
    BY <1>0, <2>1, <2>2, <2>3, <2>4, <2>5, ScreenGoesOn
\* A request that ends.
<1>8. ASSUME NEW r \in Reqs, NEW phase \in Ended, req' = [req EXCEPT ![r] = Over(@, phase)],
             cache' = cache, Collected(heap)
      PROVE  ScreenInv'
  <2>1. req' = [req EXCEPT ![r] = Over(req[r], phase)]
    BY <1>8 DEF WalkInv, RequestsTyped
  <2>2. GoodScreen(r, Over(req[r], phase), cache', heap) /\ Over(req[r], phase).phase \notin Busy
    BY <1>0, OverIsGood
  <2>. QED
    BY <1>8, <2>1, <2>2, ScreenSame DEF Shrinks
<1>9. ASSUME NEW r \in Reqs, JudgeBreaks(r) PROVE ScreenInv'
  BY <1>8, <1>9 DEF JudgeBreaks, Ended
<1>10. ASSUME NEW r \in Reqs, NEW reply \in Wire, Served(r, reply) \/ Crashed(r, reply) PROVE ScreenInv'
  BY <1>8, <1>10 DEF Served, Crashed, Ended
<1>11. ASSUME NEW r \in Reqs, NEW groups \in Filters, Walk(r, groups) PROVE ScreenInv'
  <2> DEFINE d == heap[req[r].object]
             left == Filtered(<<d.provider>> \o Without(d.chain, {d.provider}), groups)
             q == [req[r] EXCEPT !.phase = "calling", !.candidates = left, !.head = d.provider,
                                 !.idx = 1]
  <2>1. /\ req[r].phase = "screened" /\ cache' = cache /\ Collected(heap)
        /\ (req' = [req EXCEPT ![r] = Over(@, "failed")] \/ req' = [req EXCEPT ![r] = q])
    BY <1>11 DEF Walk
  <2>2. CASE req' = [req EXCEPT ![r] = Over(@, "failed")]
    BY <1>8, <2>1, <2>2 DEF Ended
  <2>3. CASE req' = [req EXCEPT ![r] = q]
    <3> HIDE DEF left, d
    <3>1. /\ q.phase = "calling" /\ q.head = d.provider /\ q.ask = req[r].ask
          /\ q.sent = req[r].sent /\ q.object = req[r].object
      BY <1>0 DEF IsRequest, Fields
    <3>2. \/ Cleared(d.provider, req[r].ask.content, req[r].sent)
          \/ SentUnscreened(req[r].ask, d.provider) /\ req[r].sent = req[r].ask.text
      BY <1>1, <2>1, ScreenedIsCleared DEF MayGo, d
    <3>3. req[r].object \in DOMAIN heap /\ (req[r].object[2] = 0 => req[r].object[1] = r)
      BY <1>1, <2>1
    <3> HIDE DEF q
    <3>4. GoodScreen(r, q, cache', heap)
      BY <3>1, <3>2, <3>3 DEF GoodScreen
    <3>. QED
      BY <2>1, <2>3, <3>1, <3>3, <3>4, ScreenSame DEF Shrinks
  <2>. QED
    BY <2>1, <2>2, <2>3
<1>12. ASSUME NEW r \in Reqs, req[r].phase \in {"calling", "asking_retry"}
       PROVE  /\ req[r].idx \in Nat \ {0} /\ req[r].object \in DOMAIN heap
              /\ req[r].object[2] = 0 => req[r].object[1] = r
  <2>1. req[r].idx \in 1..Len(req[r].candidates) /\ IsSequence(req[r].candidates)
    BY <1>0, <1>12 DEF GoodWalk, Walked
  <2>2. req[r].idx \in Nat \ {0}
    BY <2>1, OwnOfSeq
  <2>. QED
    BY <1>0, <1>12, <2>2 DEF GoodScreen, Busy
<1>13. ASSUME NEW r \in Reqs, NEW reply \in Wire, Fail(r, reply) PROVE ScreenInv'
  <2> DEFINE class == Reply(r, reply).class
             failed == Append(req[r].failed, [name |-> Candidate(r), class |-> class])
             q == [req[r] EXCEPT !.failed = failed]
             rule == RuleTarget(r, class, failed)
             key == RetryKey(req[r].ask, req[r].sent, failed)
             asks == rule = None /\ TriggersOnError(class)
             used == [q EXCEPT !.judged = TRUE]
             question == Question(key)
             asking == [q EXCEPT !.phase = "asking_retry", !.asked = question]
             to == CachedTarget(key, failed)
             next == IF rule # None THEN Redirected(q, rule)
                     ELSE IF ~asks THEN Advanced(q)
                     ELSE IF ~Has(key) THEN asking
                     ELSE IF to = None THEN Advanced(used) ELSE Redirected(used, to)
  <2>1. /\ req[r].phase = "calling" /\ Collected(heap) /\ req' = [req EXCEPT ![r] = next]
        /\ cache' = IF asks THEN LookedUp(key) ELSE cache
    BY <1>13 DEF Fail
  <2>2. Shrinks
    BY <2>1 DEF LookedUp, Dropped, Shrinks
  <2>3. \A ask \in Asks : question.key # MissKey(ask)
    BY RetryKeysDiffer DEF Question
  <2> HIDE DEF failed, class, rule, key, asks, to, question
  <2>4. /\ IsRequest(q) /\ q.idx = req[r].idx /\ q.object = req[r].object
        /\ IsRequest(used) /\ used.idx = req[r].idx /\ used.object = req[r].object
        /\ asking.phase = "asking_retry" /\ asking.object = req[r].object /\ asking.asked = question
    BY <1>0 DEF IsRequest, Fields
  <2> HIDE DEF q, used, asking
  <2>5. GoodScreen(r, asking, cache', heap)
    BY <1>12, <2>1, <2>3, <2>4 DEF GoodScreen
  <2>6. GoodScreen(r, next, cache', heap) /\ (next.phase \in Busy => next.object = req[r].object)
    <3>1. \/ next = asking
          \/ next = Advanced(q) \/ \E name : next = Redirected(q, name)
          \/ next = Advanced(used) \/ \E name : next = Redirected(used, name)
      OBVIOUS
    <3> HIDE DEF next
    <3>. QED
      <4>1. /\ q.idx \in Nat \ {0} /\ (q.object[2] = 0 => q.object[1] = r)
            /\ used.idx \in Nat \ {0} /\ (used.object[2] = 0 => used.object[1] = r)
        BY <1>12, <2>1, <2>4
      <4>2. CASE next = asking
        BY <2>4, <2>5, <4>2
      <4>3. CASE next = Advanced(q) \/ \E name : next = Redirected(q, name)
        <5>1. GoodScreen(r, next, cache', heap) /\ (next.phase \in Busy => next.object = q.object)
          BY <2>4, <4>1, <4>3, NextIsGood
        <5>. QED
          BY <2>4, <5>1
      <4>4. CASE next = Advanced(used) \/ \E name : next = Redirected(used, name)
        <5>1. GoodScreen(r, next, cache', heap) /\ (next.phase \in Busy => next.object = used.object)
          BY <2>4, <4>1, <4>4, NextIsGood
        <5>. QED
          BY <2>4, <5>1
      <4>. QED
        BY <3>1, <4>2, <4>3, <4>4
  <2> HIDE DEF next
  <2>. QED
    BY <1>12, <2>1, <2>2, <2>6, ScreenSame
<1>14. ASSUME NEW r \in Reqs, NEW verdict \in Verdicts, AnswerRetry(r, verdict) PROVE ScreenInv'
  <2> DEFINE n == 1 + Len(req[r].failed)
             i == <<r, n>>
             d == JudgeDecision(verdict)
             h == With(heap, i, d)
             sent == Redirected(req[r], verdict.provider)
             q == [sent EXCEPT !.judged = TRUE]
  <2>1. /\ req[r].phase = "asking_retry" /\ cache' = Kept(r, i) /\ Collected(h)
        /\ req' = [req EXCEPT ![r] = q]
    BY <1>14 DEF AnswerRetry, WalkInv, RequestsTyped
  <2>2. <<r, n>> \notin DOMAIN heap
    BY <2>1, NumbersAreFree
  <2>3. n # 0
    <3>1. IsSequence(req[r].failed)
      BY <1>0, <2>1 DEF GoodWalk, Walked
    <3>2. Len(req[r].failed) \in Nat
      BY <3>1, OwnOfSeq
    <3>. QED
      BY <3>2
  <2>4. IsDecision(d)
    BY VerdictTyped
  <2> HIDE DEF d, n
  <2>5. DOMAIN h = DOMAIN heap \cup {i} /\ \A id \in DOMAIN heap : h[id] = heap[id]
    BY <2>2, <2>4, HeapGrown DEF Extends
  <2>6. i[2] # 0 /\ i \notin DOMAIN heap
    BY <2>2, <2>3
  <2>7. /\ GoodScreen(r, sent, cache', h) /\ (sent.phase \in Busy => sent.object = req[r].object)
    BY <1>0, <1>12, <2>1, NextIsGood
  <2>8. sent.phase = "calling" /\ DOMAIN sent = Fields
    BY <1>0 DEF Redirected, IsRequest, Fields
  <2> HIDE DEF sent, h, i
  <2>9. /\ q.phase = "calling" /\ q.object = sent.object /\ q.idx = sent.idx /\ q.head = sent.head
        /\ q.ask = sent.ask /\ q.sent = sent.sent
    BY <2>8 DEF Fields
  <2> HIDE DEF q
  <2>10. GoodScreen(r, q, cache', h)
    BY <2>7, <2>8, <2>9 DEF GoodScreen, Busy
  <2>11. q.object \in DOMAIN h
    BY <1>12, <2>1, <2>5, <2>7, <2>8, <2>9 DEF Busy
  <2>12. \A key \in DOMAIN cache' :
           cache'[key].object = i \/ (key \in DOMAIN cache /\ cache'[key] = cache[key])
    BY <2>1 DEF Kept, With
  <2>13. \A a \in Asks : MissKey(a) \in DOMAIN cache' =>
           MissKey(a) \in DOMAIN cache /\ cache'[MissKey(a)] = cache[MissKey(a)]
    <3>1. \A a \in Asks : req[r].asked.key # MissKey(a)
      BY <1>0, <2>1 DEF GoodScreen
    <3>. QED
      BY <2>1, <3>1 DEF Kept, With
  <2>14. GoodCache(cache', h)
    BY <1>0, <2>5, <2>6, <2>12, <2>13 DEF GoodCache
  <2>15. \A key \in DOMAIN cache' : cache'[key].object \in DOMAIN h
    BY <1>0, <2>5, <2>12
  <2>. QED
    BY <1>1, <2>1, <2>5, <2>10, <2>11, <2>13, <2>14, <2>15, ScreenOne
<1>15. ASSUME NEW r \in Reqs, NoAnswerRetry(r) PROVE ScreenInv'
  <2>1. /\ req[r].phase = "asking_retry" /\ cache' = cache /\ Collected(heap)
        /\ req' = [req EXCEPT ![r] = Advanced(req[r])]
    BY <1>15 DEF NoAnswerRetry, WalkInv, RequestsTyped
  <2> DEFINE next == Advanced(req[r])
  <2>2. GoodScreen(r, next, cache', heap) /\ (next.phase \in Busy => next.object = req[r].object)
    <3> HIDE DEF next
    <3>1. next = Advanced(req[r])
      BY DEF next
    <3>. QED
      BY <1>0, <1>12, <2>1, <3>1, NextIsGood
  <2> HIDE DEF next
  <2>3. req' = [req EXCEPT ![r] = next]
    BY <2>1 DEF next
  <2>. QED
    BY <1>12, <2>1, <2>2, <2>3, ScreenSame DEF Shrinks
<1>16. ASSUME NEW new \in Configs, Reload(new) PROVE ScreenInv'
  <2> DEFINE on(r) == req[r].sawOn \/ (new.judge.enabled /\ req[r].phase \notin Ended \cup {"idle"})
  <2>1. /\ cache' = cache /\ heap' = heap
        /\ req' = [r \in Reqs |-> [req[r] EXCEPT !.sawOn = on(r)]]
    BY <1>16 DEF Reload
  <2> HIDE DEF on
  <2>2. ASSUME NEW r \in Reqs PROVE GoodScreen(r, req'[r], cache, heap)
    <3>1. /\ req'[r].phase = req[r].phase /\ req'[r].ask = req[r].ask /\ req'[r].asked = req[r].asked
          /\ req'[r].object = req[r].object /\ req'[r].sent = req[r].sent
          /\ req'[r].idx = req[r].idx /\ req'[r].head = req[r].head
      BY <1>0, <2>1 DEF IsRequest, Fields
    <3>. QED
      BY <1>0, <3>1 DEF GoodScreen
  <2>3. \A r \in Reqs : GoodScreen(r, req'[r], cache', heap')
    BY <2>1, <2>2
  <2>4. GoodCache(cache', heap')
    BY <2>1 DEF ScreenInv
  <2>. QED
    BY <2>3, <2>4 DEF ScreenInv, GoodCache, GoodScreen, MissKey, Alike, MayGo, Out, Cleared, SentUnscreened
<1>17. CASE Tick \/ UNCHANGED vars
  <2>1. UNCHANGED <<config, cache, heap, req>>
    BY <1>17 DEF Tick, vars
  <2>2. \A r \in Reqs : GoodScreen(r, req'[r], cache', heap')
    BY <2>1 DEF ScreenInv
  <2>3. GoodCache(cache', heap')
    BY <2>1 DEF ScreenInv
  <2>. QED
    BY <2>2, <2>3 DEF ScreenInv, GoodCache, GoodScreen, MissKey, Alike, MayGo, Out, Cleared, SentUnscreened
<1>. QED
  BY <1>3, <1>4, <1>5, <1>6, <1>7, <1>9, <1>10, <1>11, <1>13, <1>14, <1>15, <1>16, <1>17
     DEF Next, StartsAny, Moves, AnswersAny, CallsAny

\* The provider a request is sent to first may have its text as it is sent, or a policy
\* reroutes the text there, whatever other requests have written into a decision they
\* share, and however the configuration changes.
THEOREM HeadIsCleared == Spec => []HeadCleared
PROOF
<1>1. Init => WalkInv /\ ScreenInv
  <2> SUFFICES ASSUME Init PROVE ScreenInv
    BY WalkInit
  <2>1. req = [r \in Reqs |-> Fresh] /\ DOMAIN cache = {} /\ Fresh.phase = "idle"
    BY DEF Init, Fresh
  <2>. QED
    BY <2>1 DEF ScreenInv, GoodCache, GoodScreen, Busy
<1>2. ScreenInv => HeadCleared
  BY DEF ScreenInv, GoodScreen, HeadCleared
<1>. QED
  BY <1>1, <1>2, WalkStep, ScreenStep, PTL DEF Spec
-----------------------------------------------------------------------------
(* The rules about errors *)

\* Where the first rule that covers an error sends it.
LEMMA FirstRuleDecides ==
  ASSUME config \in Configs, NEW r \in Reqs, req[r].ask \in Asks, NEW class,
         NEW i \in Covering(r, class), \A j \in Covering(r, class) : i <= j
  PROVE  LET to == DecisionFromRule(config, config.rules[i], req[r].ask.content).provider
         IN  EvaluateForError(config, class, ErrorAsk(r)) = to /\ to # None
PROOF
<1> DEFINE ask == ErrorAsk(r)
           I == {k \in 1..Len(config.rules) :
                   class \in config.rules[k].errors /\ RuleMatches(config.rules[k], ask)}
           s == SelectInSeq(config.rules, LAMBDA rule : class \in rule.errors /\ RuleMatches(rule, ask))
<1>1. /\ IsSequence(config.rules) /\ DOMAIN config.rules = 1..Len(config.rules)
      /\ config.provider["search"] # None /\ config.provider["extract"] # None
  BY RulesAssumption, OwnOfSeq
<1>2. /\ {"content", "text", "key"} \subseteq DOMAIN req[r].ask
      /\ req[r].ask.content \in {"search", "extract"}
  BY AsksAssumption
<1>3. ask.content = req[r].ask.content /\ ask.key = Nobody /\ ask.text = req[r].sent
  BY <1>2 DEF ErrorAsk
<1> HIDE DEF ask
<1>4. I = Covering(r, class)
  BY <1>1, <1>3 DEF Covering, RuleMatches
<1>5. s = IF I # {} THEN Min(I) ELSE 0
  BY DEF SelectInSeq
<1>6. I \in SUBSET Nat /\ i \in I
  BY <1>4
<1> HIDE DEF I, s
<1>7. Min(I) \in I /\ \A y \in I : Min(I) <= y
  BY <1>6, MinExists
<1>8. s = i /\ i # 0
  <2>1. i <= Min(I) /\ Min(I) <= i
    BY <1>4, <1>6, <1>7
  <2>2. Min(I) \in Nat /\ i \in 1..Len(config.rules)
    BY <1>1, <1>4, <1>6, <1>7 DEF I
  <2>. QED
    BY <1>5, <1>6, <2>1, <2>2
<1>9. EvaluateForError(config, class, ask) =
        IF s = 0 THEN None ELSE DecisionFromRule(config, config.rules[s], ask.content).provider
  BY DEF EvaluateForError, s
<1>10. DecisionFromRule(config, config.rules[i], req[r].ask.content).provider # None
  BY <1>1, <1>2 DEF DecisionFromRule
<1>. QED
  BY <1>3, <1>8, <1>9, <1>10 DEF ask

\* A request's failures grow when a call of it fails, and never otherwise.
LEMMA OnlyCallsFail ==
  ASSUME WalkInv, Next, NEW r \in Reqs, JustFailed(r)
  PROVE  \E reply \in Wire : Fail(r, reply)
PROOF
<1>0. RequestsTyped
  BY DEF WalkInv
<1>1. \A p \in Reqs : IsRequest(req[p]) /\ DOMAIN req[p] = Fields /\ Len(req[p].failed) \in Nat
  BY OwnOfSeq DEF WalkInv, GoodWalk, IsRequest
<1>2. ASSUME NEW p \in Reqs, NEW next, req' = [req EXCEPT ![p] = next],
             next.failed \in {<<>>, req[p].failed}
      PROVE  FALSE
  <2>1. req'[r].failed \in {<<>>, req[r].failed}
    BY <1>0, <1>2 DEF RequestsTyped
  <2>. QED
    BY <1>1, <2>1, NothingIsSeq DEF JustFailed
<1>3. ASSUME NEW p \in Reqs, NEW ask, NEW h, NEW i, NEW seen, IsRequest(seen),
             seen.failed \in {<<>>, req[p].failed}, GoesOn(p, ask, h, i, seen)
      PROVE  FALSE
  <2>1. req' = [req EXCEPT ![p] = req'[p]] /\ req'[p].failed = seen.failed
    BY <1>0, <1>3, GoesOnGives
  <2>. QED
    BY <1>2, <1>3, <2>1
<1>4. ASSUME NEW ask PROVE Begun(ask).failed = <<>> /\ IsRequest(Begun(ask)) /\ DOMAIN Begun(ask) = Fields
  BY BegunTyped DEF IsRequest
<1>5. ASSUME NEW p \in Reqs, NEW ask \in Asks, Start(p, ask) PROVE FALSE
  BY <1>3, <1>4, <1>5 DEF Start
<1>6. ASSUME NEW p \in Reqs, NEW ask \in Asks, StartCached(p, ask) PROVE FALSE
  <2> DEFINE seen == [Begun(ask) EXCEPT !.judged = TRUE]
  <2>1. IsRequest(seen) /\ seen.failed = <<>>
    BY <1>4 DEF IsRequest, Fields
  <2>2. GoesOn(p, ask, heap, cache[MissKey(ask)].object, seen)
    BY <1>6 DEF StartCached
  <2> HIDE DEF seen
  <2>. QED
    BY <1>3, <2>1, <2>2
<1>7. ASSUME NEW p \in Reqs, NEW ask \in Asks, StartAsking(p, ask) PROVE FALSE
  <2> DEFINE next == [Begun(ask) EXCEPT !.phase = "asking", !.object = <<p, 0>>,
                                        !.asked = Question(MissKey(ask))]
  <2>1. req' = [req EXCEPT ![p] = next]
    BY <1>7 DEF StartAsking
  <2>2. next.failed = <<>>
    BY <1>4 DEF Fields
  <2> HIDE DEF next
  <2>. QED
    BY <1>2, <2>1, <2>2
<1>8. ASSUME NEW p \in Reqs, NEW verdict \in Verdicts, AnswerMiss(p, verdict) PROVE FALSE
  <2> DEFINE seen == [req[p] EXCEPT !.judged = TRUE]
             h == With(heap, <<p, 1>>, JudgeDecision(verdict))
  <2>1. IsRequest(seen) /\ seen.failed = req[p].failed
    BY <1>1 DEF IsRequest, Fields
  <2>2. GoesOn(p, req[p].ask, h, <<p, 1>>, seen)
    BY <1>8 DEF AnswerMiss
  <2> HIDE DEF seen, h
  <2>. QED
    BY <1>3, <2>1, <2>2
<1>9. ASSUME NEW p \in Reqs, NoAnswerMiss(p) PROVE FALSE
  BY <1>1, <1>3, <1>9 DEF NoAnswerMiss
<1>10. ASSUME NEW p \in Reqs, NEW phase \in Ended, req' = [req EXCEPT ![p] = Over(@, phase)] PROVE FALSE
  <2>1. Over(req[p], phase).failed \in {<<>>, req[p].failed}
    BY <1>1, OverGives
  <2>. QED
    BY <1>0, <1>2, <1>10, <2>1 DEF RequestsTyped
<1>11. ASSUME NEW p \in Reqs, JudgeBreaks(p) PROVE FALSE
  BY <1>10, <1>11 DEF JudgeBreaks, Ended
<1>12. ASSUME NEW p \in Reqs, NEW reply \in Wire, Served(p, reply) \/ Crashed(p, reply) PROVE FALSE
  BY <1>10, <1>12 DEF Served, Crashed, Ended
<1>13. ASSUME NEW p \in Reqs, NEW groups \in Filters, Walk(p, groups) PROVE FALSE
  <2>1. PICK left, head :
          req' = [req EXCEPT ![p] =
                    IF left = <<>> THEN Over(@, "failed")
                    ELSE [@ EXCEPT !.phase = "calling", !.candidates = left, !.head = head, !.idx = 1]]
    BY <1>13 DEF Walk
  <2>2. CASE left = <<>>
    BY <1>10, <2>1, <2>2 DEF Ended
  <2>3. CASE left # <<>>
    <3> DEFINE next == [req[p] EXCEPT !.phase = "calling", !.candidates = left, !.head = head, !.idx = 1]
    <3>1. req' = [req EXCEPT ![p] = next]
      BY <1>0, <2>1, <2>3 DEF RequestsTyped
    <3>2. next.failed = req[p].failed
      BY <1>1 DEF Fields
    <3> HIDE DEF next
    <3>. QED
      BY <1>2, <3>1, <3>2
  <2>. QED
    BY <2>2, <2>3
<1>14. ASSUME NEW p \in Reqs, NEW verdict \in Verdicts, AnswerRetry(p, verdict) PROVE FALSE
  <2> DEFINE next == [Redirected(req[p], verdict.provider) EXCEPT !.judged = TRUE]
  <2>1. req' = [req EXCEPT ![p] = next]
    BY <1>0, <1>14 DEF AnswerRetry, RequestsTyped
  <2>2. next.failed = req[p].failed
    BY <1>1 DEF Redirected, Fields
  <2> HIDE DEF next
  <2>. QED
    BY <1>2, <2>1, <2>2
<1>15. ASSUME NEW p \in Reqs, NoAnswerRetry(p) PROVE FALSE
  <2>1. req' = [req EXCEPT ![p] = Advanced(req[p])]
    BY <1>0, <1>15 DEF NoAnswerRetry, RequestsTyped
  <2>2. Advanced(req[p]).failed = req[p].failed
    BY <1>1, OverGives DEF Advanced, Fields, Ended
  <2>. QED
    BY <1>2, <2>1, <2>2
<1>16. ASSUME NEW new \in Configs, Reload(new) PROVE FALSE
  <2>1. req'[r].failed = req[r].failed
    BY <1>1, <1>16 DEF Reload, Fields
  <2>. QED
    BY <1>1, <2>1 DEF JustFailed
<1>17. ~Tick
  BY <1>1 DEF Tick, JustFailed
<1>18. ASSUME NEW p \in Reqs, NEW reply \in Wire, Fail(p, reply) PROVE p = r
  <2>1. PICK next : req' = [req EXCEPT ![p] = next]
    BY <1>18 DEF Fail
  <2>2. p # r => req'[r] = req[r]
    BY <1>0, <2>1 DEF RequestsTyped
  <2>. QED
    BY <1>1, <2>2 DEF JustFailed
<1>. QED
  BY <1>5, <1>6, <1>7, <1>8, <1>9, <1>11, <1>12, <1>13, <1>14, <1>15, <1>16, <1>17, <1>18
     DEF Next, StartsAny, Moves, AnswersAny, CallsAny

\* A call that fails with an error a rule covers.
LEMMA RuleStep ==
  ASSUME WalkInv, NEW r \in Reqs, NEW reply \in Wire, Fail(r, reply)
  PROVE  RuleDecides(r)
PROOF
<1> DEFINE class == Reply(r, reply).class
           entry == [name |-> Candidate(r), class |-> class]
           failed == Append(req[r].failed, entry)
           q == [req[r] EXCEPT !.failed = failed]
           rule == RuleTarget(r, class, failed)
<1>1. /\ IsRequest(req[r]) /\ DOMAIN req[r] = Fields /\ GoodWalk(req[r], heap) /\ RequestsTyped
      /\ config \in Configs /\ req[r].phase = "calling"
  BY DEF WalkInv, RequestsTyped, IsRequest, Fail
<1>2. /\ req[r].ask \in Asks /\ IsSequence(req[r].failed) /\ IsSequence(req[r].candidates)
      /\ req[r].idx \in 1..Len(req[r].candidates)
  BY <1>1 DEF GoodWalk, Busy, Walked
<1> DEFINE key == RetryKey(req[r].ask, req[r].sent, failed)
           used == [q EXCEPT !.judged = TRUE]
           asking == [q EXCEPT !.phase = "asking_retry", !.asked = Question(key)]
           other == IF ~(rule = None /\ TriggersOnError(class)) THEN Advanced(q)
                    ELSE IF ~Has(key) THEN asking
                    ELSE LET to == CachedTarget(key, failed)
                         IN  IF to = None THEN Advanced(used) ELSE Redirected(used, to)
<1>3. req' = [req EXCEPT ![r] = IF rule # None THEN Redirected(q, rule) ELSE other]
  BY DEF Fail
<1>4. /\ DOMAIN q = Fields /\ IsRequest(q) /\ q.failed = failed
      /\ q.candidates = req[r].candidates /\ q.idx = req[r].idx
      /\ IsRequest(used) /\ DOMAIN used = Fields /\ used.failed = failed /\ asking.failed = failed
  BY <1>1 DEF IsRequest, Fields, Phases, Busy
<1>5. /\ failed[Len(failed)] = entry /\ entry.class = class
  BY <1>2, AppendOwn
<1> HIDE DEF class, entry, failed, key
<1>6. RuleTarget(r, class, failed) = rule
  OBVIOUS
<1> HIDE DEF rule
<1> HIDE DEF q, used, asking
<1>7. ASSUME NEW p, IsRequest(p), DOMAIN p = Fields
      PROVE  /\ Advanced(p).failed = p.failed
             /\ \A name : /\ Redirected(p, name).failed = p.failed
                          /\ Redirected(p, name).phase = "calling"
                          /\ Redirected(p, name).idx = p.idx + 1
                          /\ Redirected(p, name).candidates = Inserted(p.candidates, name, p.idx + 1)
  BY <1>7, OverGives DEF Advanced, Redirected, Fields, Ended
<1>8. req'[r] = IF rule # None THEN Redirected(q, rule) ELSE other
  BY <1>1, <1>3 DEF RequestsTyped
<1>9. req'[r].failed = failed
  BY <1>4, <1>7, <1>8
<1> HIDE DEF other
<1> SUFFICES ASSUME NEW i \in Covering(r, class), \A j \in Covering(r, class) : i <= j,
                    DecisionFromRule(config, config.rules[i], req[r].ask.content).provider
                      \notin FailedNames(failed)
             PROVE  LET to == DecisionFromRule(config, config.rules[i], req[r].ask.content).provider
                    IN  req'[r].phase = "calling" /\ req'[r].candidates[req'[r].idx] = to
  BY <1>5, <1>9 DEF RuleDecides
<1> DEFINE to == DecisionFromRule(config, config.rules[i], req[r].ask.content).provider
<1>10. EvaluateForError(config, class, ErrorAsk(r)) = to /\ to # None
  BY <1>1, <1>2, FirstRuleDecides
<1> HIDE DEF to
<1>11. rule = to
  BY <1>6, <1>10 DEF RuleTarget, to
<1>12. req'[r] = Redirected(q, to)
  BY <1>8, <1>10, <1>11
<1>13. Inserted(q.candidates, to, q.idx + 1)[q.idx + 1] = to
  BY <1>2, <1>4, InsertedGives
<1>. QED
  BY <1>4, <1>7, <1>12, <1>13 DEF to

\* An error that rules cover sends the request where the first of them says, unless that
\* provider has failed it: neither the judge nor the order of the candidates comes first.
THEOREM RulesGoFirst == Spec => RuleGoesFirst
PROOF
<1>1. WalkInv /\ [Next]_vars => [\A r \in Reqs : JustFailed(r) => RuleDecides(r)]_vars
  BY OnlyCallsFail, RuleStep
<1>. QED
  BY <1>1, WalkInit, WalkStep, PTL DEF Spec, RuleGoesFirst
=============================================================================
