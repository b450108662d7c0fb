--------------------------- MODULE RateLimiterProofs ---------------------------
(***************************************************************************)
(* The rate limiter admits nobody over the limit and refuses nobody below  *)
(* it, for all clients, tokens, limits, windows and reloads.               *)
(*                                                                         *)
(* What is compared are numbers: how many of the requests charged to a     *)
(* bucket, and how many of those admitted under its name, are no older     *)
(* than some age.  For the ages the limiter remembers the two are the same;*)
(* for all up to the longest window no more are charged than were admitted.*)
(***************************************************************************)
EXTENDS RateLimiter, DataProofs, SequenceTheorems

-------------------------------------------------------------------------------
(* Least and greatest                                                          *)

LEMMA MaxIsGreatest ==
  ASSUME NEW bound \in Nat, NEW S \in SUBSET (0..bound), S # {}
  PROVE  Max(S) \in S /\ \A y \in S : y <= Max(S)
PROOF
<1> DEFINE T == {bound - x : x \in S}
<1>1. T \in SUBSET Nat /\ T # {}
  <2>1. \A x \in S : bound - x \in Nat
    OBVIOUS
  <2>2. PICK x \in S : TRUE
    OBVIOUS
  <2>3. bound - x \in T
    OBVIOUS
  <2>. QED
    BY <2>1, <2>3
<1>2. Min(T) \in T /\ \A y \in T : Min(T) <= y
  BY <1>1, MinExists
<1>3. PICK x \in S : Min(T) = bound - x
  BY <1>2
<1>4. ASSUME NEW y \in S PROVE y <= x
  <2>1. bound - y \in T
    OBVIOUS
  <2>2. bound - x <= bound - y
    BY <1>2, <1>3, <2>1
  <2>. QED
    BY <2>2
<1>. QED
  BY <1>4 DEF Max

\* Of two windows.
LEMMA LongerWindow ==
  ASSUME NEW c \in Configs
  PROVE  /\ LongestWindow(c) \in Nat /\ 2 * LongestWindow(c) < MaxAge
         /\ c.by_ip.window \in Nat /\ c.by_ip.window <= LongestWindow(c)
         /\ c.by_key.window \in Nat /\ c.by_key.window <= LongestWindow(c)
         /\ c.by_ip.requests \in Nat /\ c.by_key.requests \in Nat
PROOF
<1>1. /\ c.by_ip.window \in Nat /\ c.by_key.window \in Nat
      /\ c.by_ip.requests \in Nat /\ c.by_key.requests \in Nat
      /\ 2 * LongestWindow(c) < MaxAge
  BY RateAssumption DEF Rule
<1> DEFINE a == c.by_ip.window
           b == c.by_key.window
<1>2. \E m \in {a, b} : \A y \in {a, b} : m >= y
  BY <1>1
<1>3. Max({a, b}) \in {a, b} /\ \A y \in {a, b} : Max({a, b}) >= y
  BY <1>2 DEF Max
<1>. QED
  BY <1>1, <1>3 DEF LongestWindow

LEMMA Horizons ==
  /\ Horizon \in Nat /\ Horizon < MaxAge /\ MaxAge \in Nat \ {0}
  /\ \A c \in Configs : LongestWindow(c) <= Horizon
PROOF
<1> DEFINE S == {LongestWindow(c) : c \in Configs}
<1>1. MaxAge \in Nat /\ Configs # {}
  BY RateAssumption
<1>2. S \in SUBSET (0..MaxAge) /\ S # {}
  BY <1>1, LongerWindow
<1>3. Max(S) \in S /\ \A y \in S : y <= Max(S)
  BY <1>1, <1>2, MaxIsGreatest
<1>4. Horizon = Max(S)
  BY DEF Horizon
<1>. QED
  BY <1>1, <1>3, <1>4, LongerWindow

\* The window in force is none longer than the longest.
LEMMA Windows ==
  ASSUME config \in Configs, NEW name \in Names
  PROVE  /\ RuleOf(name).window \in Nat /\ RuleOf(name).requests \in Nat
         /\ RuleOf(name).window <= Horizon
PROOF
<1>1. /\ RuleOf(name).window \in Nat /\ RuleOf(name).requests \in Nat
      /\ RuleOf(name).window <= LongestWindow(config)
  BY LongerWindow DEF RuleOf, RuleIn
<1>2. LongestWindow(config) \in Nat /\ Horizon \in Nat /\ LongestWindow(config) <= Horizon
  BY LongerWindow, Horizons
<1>. QED
  BY <1>1, <1>2

-------------------------------------------------------------------------------
(* How many are recent                                                         *)

OldestFirst(s) ==
  /\ s \in Seq(0..MaxAge)
  /\ \A i, j \in 1..Len(s) : i < j => s[i] >= s[j]

\* The first m are too old, and the others are not.
CutAt(s, w, m) ==
  /\ m \in 0..Len(s)
  /\ \A i \in 1..Len(s) : s[i] <= w <=> i > m

Tally(s, w) == Len(Within(s, w))

LEMMA OldestFirstTyped ==
  ASSUME NEW s, OldestFirst(s)
  PROVE  /\ Len(s) \in Nat /\ DOMAIN s = 1..Len(s) /\ s \in Seq(0..MaxAge)
         /\ \A i \in 1..Len(s) : s[i] \in 0..MaxAge /\ s[i] \in Nat
         /\ \A i, j \in 1..Len(s) : i < j => s[i] >= s[j]
PROOF
<1>1. s \in Seq(0..MaxAge)
  BY DEF OldestFirst
<1>2. Len(s) \in Nat /\ DOMAIN s = 1..Len(s)
  BY <1>1
<1>3. \A i \in 1..Len(s) : s[i] \in 0..MaxAge
  <2> DEFINE A == 0..MaxAge
  <2>1. s \in Seq(A)
    BY <1>1
  <2> HIDE DEF A
  <2>2. \A i \in 1..Len(s) : s[i] \in A
    BY <2>1
  <2>. QED
    BY <2>2 DEF A
<1>4. MaxAge \in Nat
  BY RateAssumption
<1>5. \A i, j \in 1..Len(s) : i < j => s[i] >= s[j]
  BY DEF OldestFirst
<1>. QED
  BY <1>1, <1>2, <1>3, <1>4, <1>5

LEMMA CutTyped ==
  ASSUME NEW s, NEW w, NEW m, CutAt(s, w, m)
  PROVE  m \in 0..Len(s) /\ \A i \in 1..Len(s) : s[i] <= w <=> i > m
PROOF
<1>. QED
  BY DEF CutAt

LEMMA CutExists ==
  ASSUME NEW s, OldestFirst(s), NEW w \in Nat
  PROVE  \E m : CutAt(s, w, m)
PROOF
<1>1. /\ Len(s) \in Nat /\ DOMAIN s = 1..Len(s) /\ \A i \in 1..Len(s) : s[i] \in Nat
      /\ \A i, j \in 1..Len(s) : i < j => s[i] >= s[j]
  BY OldestFirstTyped
<1> DEFINE kept == {i \in 1..Len(s) : s[i] <= w}
<1>2. CASE kept = {}
  <2>1. CutAt(s, w, Len(s))
    BY <1>1, <1>2 DEF CutAt
  <2>. QED
    BY <2>1
<1>3. CASE kept # {}
  <2> DEFINE least == Min(kept)
  <2>1. kept \in SUBSET Nat
    BY <1>1
  <2>2. least \in kept /\ \A y \in kept : least <= y
    BY <1>3, <2>1, MinExists
  <2> HIDE DEF least
  <2>3. least \in 1..Len(s) /\ s[least] <= w /\ \A i \in 1..Len(s) : s[i] <= w => least <= i
    BY <2>2
  <2>4. ASSUME NEW i \in 1..Len(s) PROVE s[i] <= w <=> i > least - 1
    <3>1. CASE i < least
      BY <1>1, <2>3, <3>1
    <3>2. CASE i = least
      BY <1>1, <2>3, <3>2
    <3>3. CASE i > least
      <4>1. s[least] >= s[i] /\ s[least] \in Nat /\ s[i] \in Nat
        BY <1>1, <2>3, <3>3
      <4>. QED
        BY <1>1, <2>3, <3>3, <4>1
    <3>. QED
      BY <1>1, <2>3, <3>1, <3>2, <3>3
  <2>5. CutAt(s, w, least - 1)
    BY <1>1, <2>3, <2>4 DEF CutAt
  <2>. QED
    BY <2>5
<1>. QED
  BY <1>2, <1>3

\* A sorted list cut at its left is the rest of it.
LEMMA CutIs ==
  ASSUME NEW s, OldestFirst(s), NEW w \in Nat, NEW m, CutAt(s, w, m)
  PROVE  /\ OldestFirst(Within(s, w)) /\ Tally(s, w) = Len(s) - m /\ Tally(s, w) \in Nat
         /\ \A i \in 1..(Len(s) - m) : Within(s, w)[i] = s[m + i]
PROOF
<1>1. /\ Len(s) \in Nat /\ DOMAIN s = 1..Len(s) /\ \A i \in 1..Len(s) : s[i] \in 0..MaxAge
      /\ \A i, j \in 1..Len(s) : i < j => s[i] >= s[j]
  BY OldestFirstTyped
<1>2. m \in 0..Len(s) /\ \A i \in 1..Len(s) : s[i] <= w <=> i > m
  BY CutTyped
<1> DEFINE kept == {i \in DOMAIN s : s[i] <= w}
           t == Within(s, w)
<1>3. CASE m = Len(s)
  <2>1. kept = {}
    BY <1>1, <1>2, <1>3
  <2>2. t = << >>
    BY <2>1 DEF Within
  <2> HIDE DEF t
  <2>3. Len(t) = 0
    BY <2>2
  <2>. QED
    BY <1>1, <1>3, <2>2, <2>3 DEF OldestFirst, Tally, t
<1>4. CASE m # Len(s)
  <2>0. m \in Nat /\ m + 1 \in 1..Len(s) /\ m + 1 <= Len(s) /\ Len(s) - (m + 1) + 1 = Len(s) - m
    <3>1. Len(s) \in Nat /\ m \in 0..Len(s) /\ m # Len(s)
      BY <1>1, <1>2, <1>4
    <3>2. \A n \in Nat : \A k \in 0..n :
            k # n => k \in Nat /\ k + 1 \in 1..n /\ k + 1 <= n /\ n - (k + 1) + 1 = n - k
      OBVIOUS
    <3>. QED
      BY ONLY <3>1, <3>2
  <2>1. m + 1 \in kept /\ \A i \in kept : m + 1 <= i
    <3>1. s[m + 1] <= w
      BY <1>2, <2>0
    <3>2. ASSUME NEW i \in 1..Len(s), s[i] <= w PROVE m + 1 <= i
      BY <1>2, <2>0, <3>2
    <3>. QED
      BY <1>1, <2>0, <3>1, <3>2
  <2>2. Min(kept) = m + 1
    <3>1. kept \in SUBSET Nat /\ kept # {}
      BY <1>1, <2>1
    <3>2. Min(kept) \in kept /\ \A y \in kept : Min(kept) <= y
      BY <3>1, MinExists
    <3>3. Min(kept) \in Nat /\ m + 1 \in Nat /\ Min(kept) <= m + 1 /\ m + 1 <= Min(kept)
      BY <1>1, <1>2, <2>1, <3>1, <3>2
    <3>. QED
      BY <3>3
  <2>3. t = SubSeq(s, m + 1, Len(s))
    BY <2>1, <2>2 DEF Within
  <2> HIDE DEF t, kept
  <2>4. \A i \in (m + 1)..Len(s) : s[i] \in 0..MaxAge
    BY <1>1, <1>2
  <2>5. /\ t \in Seq(0..MaxAge)
        /\ Len(t) = IF m + 1 <= Len(s) THEN Len(s) - (m + 1) + 1 ELSE 0
        /\ \A i \in 1..(Len(s) - (m + 1) + 1) : t[i] = s[(m + 1) + i - 1]
    BY <1>1, <1>2, <2>3, <2>4, SubSeqProperties
  <2>6. m \in Nat /\ m + 1 <= Len(s) /\ Len(s) - (m + 1) + 1 = Len(s) - m
    BY <2>0
  <2>7. Len(t) = Len(s) - m /\ Len(t) \in Nat
    BY <1>1, <2>5, <2>6
  <2>8. ASSUME NEW i \in 1..(Len(s) - m) PROVE t[i] = s[m + i] /\ m + i \in 1..Len(s)
    <3>1. (m + 1) + i - 1 = m + i /\ m + i \in 1..Len(s)
      BY <1>1, <2>6
    <3>. QED
      BY <2>5, <2>6, <3>1
  <2>9. ASSUME NEW i \in 1..Len(t), NEW j \in 1..Len(t), i < j PROVE t[i] >= t[j]
    <3>1. /\ i \in 1..(Len(s) - m) /\ j \in 1..(Len(s) - m) /\ m + i < m + j
      BY <1>1, <2>6, <2>7, <2>9
    <3>. QED
      BY <1>1, <2>8, <3>1
  <2>. QED
    BY <2>5, <2>7, <2>8, <2>9 DEF OldestFirst, Tally, t
<1>. QED
  BY <1>3, <1>4

LEMMA CountedTyped ==
  ASSUME NEW s, OldestFirst(s), NEW w \in Nat
  PROVE  Tally(s, w) \in Nat
PROOF
<1>. QED
  BY CutExists, CutIs

\* The longer the window, the more.
LEMMA CountedMore ==
  ASSUME NEW s, OldestFirst(s), NEW w \in Nat, NEW v \in Nat, v <= w
  PROVE  Tally(s, v) <= Tally(s, w)
PROOF
<1>1. PICK m : CutAt(s, w, m)
  BY CutExists
<1>2. PICK k : CutAt(s, v, k)
  BY CutExists
<1>3. /\ Len(s) \in Nat /\ \A i \in 1..Len(s) : s[i] \in Nat
      /\ m \in 0..Len(s) /\ \A i \in 1..Len(s) : s[i] <= w <=> i > m
      /\ k \in 0..Len(s) /\ \A i \in 1..Len(s) : s[i] <= v <=> i > k
  BY <1>1, <1>2, OldestFirstTyped, CutTyped
<1>4. m <= k
  <2>1. CASE m = 0
    BY <1>3, <2>1
  <2>2. CASE m # 0
    <3>1. m \in 1..Len(s) /\ ~(s[m] <= w) /\ s[m] \in Nat
      BY <1>3, <2>2
    <3>2. ~(s[m] <= v)
      BY <3>1
    <3>. QED
      BY <1>3, <3>1, <3>2
  <2>. QED
    BY <2>1, <2>2
<1>5. Tally(s, w) = Len(s) - m /\ Tally(s, v) = Len(s) - k
  BY <1>1, <1>2, CutIs
<1>. QED
  BY <1>3, <1>4, <1>5

\* Trimming to a window changes nothing in a shorter one, and adds to none.
LEMMA CountedTrimmed ==
  ASSUME NEW s, OldestFirst(s), NEW w \in Nat, NEW v \in Nat
  PROVE  /\ OldestFirst(Within(s, w))
         /\ v <= w => Tally(Within(s, w), v) = Tally(s, v)
         /\ Tally(Within(s, w), v) <= Tally(s, v)
PROOF
<1> DEFINE t == Within(s, w)
<1>1. PICK m : CutAt(s, w, m)
  BY CutExists
<1>2. PICK k : CutAt(s, v, k)
  BY CutExists
<1>3. /\ OldestFirst(t) /\ Len(t) = Len(s) - m
      /\ \A i \in 1..(Len(s) - m) : t[i] = s[m + i]
  BY <1>1, CutIs DEF Tally
<1>4. /\ Len(s) \in Nat /\ \A i \in 1..Len(s) : s[i] \in Nat
      /\ m \in 0..Len(s) /\ \A i \in 1..Len(s) : s[i] <= w <=> i > m
      /\ k \in 0..Len(s) /\ \A i \in 1..Len(s) : s[i] <= v <=> i > k
  BY <1>1, <1>2, OldestFirstTyped, CutTyped
<1> HIDE DEF t
<1>5. Tally(s, v) = Len(s) - k
  BY <1>2, CutIs
<1>6. CASE k >= m
  <2>1. CutAt(t, v, k - m)
    <3>1. ASSUME NEW i \in 1..Len(t) PROVE t[i] <= v <=> i > k - m
      <4>1. m + i \in 1..Len(s) /\ t[i] = s[m + i]
        BY <1>3, <1>4
      <4>2. s[m + i] <= v <=> m + i > k
        BY <1>4, <4>1
      <4>. QED
        BY <1>4, <4>1, <4>2
    <3>. QED
      BY <1>3, <1>4, <1>6, <3>1 DEF CutAt
  <2>2. Tally(t, v) = Len(t) - (k - m)
    BY <1>3, <2>1, CutIs
  <2>. QED
    BY <1>3, <1>4, <1>5, <2>2 DEF t
<1>7. CASE k < m
  <2>1. ~(v <= w)
    <3>1. m \in 1..Len(s) /\ ~(s[m] <= w) /\ s[m] <= v /\ s[m] \in Nat
      BY <1>4, <1>7
    <3>. QED
      BY <3>1
  <2>2. CutAt(t, v, 0)
    <3>1. ASSUME NEW i \in 1..Len(t) PROVE t[i] <= v
      <4>1. m + i \in 1..Len(s) /\ t[i] = s[m + i] /\ m + i > k
        BY <1>3, <1>4, <1>7
      <4>. QED
        BY <1>4, <4>1
    <3>2. Len(t) \in Nat
      BY <1>3 DEF OldestFirst
    <3>. QED
      BY <3>1, <3>2 DEF CutAt
  <2>3. Tally(t, v) = Len(t) - 0
    BY <1>3, <2>2, CutIs
  <2>. QED
    BY <1>3, <1>4, <1>5, <1>7, <2>1, <2>3 DEF t
<1>. QED
  BY <1>4, <1>6, <1>7

\* One more request.
LEMMA CountedCharged ==
  ASSUME NEW s, OldestFirst(s), NEW w \in Nat
  PROVE  OldestFirst(Append(s, 0)) /\ Tally(Append(s, 0), w) = Tally(s, w) + 1
PROOF
<1> DEFINE t == Append(s, 0)
<1>1. PICK m : CutAt(s, w, m)
  BY CutExists
<1>2. /\ s \in Seq(0..MaxAge) /\ Len(s) \in Nat /\ \A i \in 1..Len(s) : s[i] \in 0..MaxAge
      /\ \A i, j \in 1..Len(s) : i < j => s[i] >= s[j]
      /\ m \in 0..Len(s) /\ \A i \in 1..Len(s) : s[i] <= w <=> i > m
  BY <1>1, OldestFirstTyped, CutTyped
<1>3. 0 \in 0..MaxAge
  BY RateAssumption
<1>4. /\ t \in Seq(0..MaxAge) /\ Len(t) = Len(s) + 1 /\ t[Len(s) + 1] = 0
      /\ \A i \in 1..Len(s) : t[i] = s[i]
  BY <1>2, <1>3
<1> HIDE DEF t
<1>5. ASSUME NEW i \in 1..Len(t), NEW j \in 1..Len(t), i < j PROVE t[i] >= t[j]
  <2>1. i \in 1..Len(s) /\ (j \in 1..Len(s) \/ j = Len(s) + 1)
    BY <1>2, <1>4, <1>5
  <2>. QED
    BY <1>2, <1>4, <1>5, <2>1
<1>6. OldestFirst(t)
  BY <1>4, <1>5 DEF OldestFirst
<1>7. CutAt(t, w, m)
  <2>1. ASSUME NEW i \in 1..Len(t) PROVE t[i] <= w <=> i > m
    <3>1. i \in 1..Len(s) \/ i = Len(s) + 1
      BY <1>2, <1>4
    <3>. QED
      BY <1>2, <1>4, <3>1
  <2>. QED
    BY <1>2, <1>4, <2>1 DEF CutAt
<1>8. Tally(t, w) = Len(t) - m /\ Tally(s, w) = Len(s) - m
  BY <1>1, <1>6, <1>7, CutIs
<1>. QED
  BY <1>2, <1>4, <1>6, <1>8 DEF t

\* A tick later: what was recent in a window one shorter.
LEMMA CountedOlder ==
  ASSUME NEW s, OldestFirst(s), NEW w \in 0..Horizon
  PROVE  /\ OldestFirst(Older(s))
         /\ Tally(Older(s), w) = IF w = 0 THEN 0 ELSE Tally(s, w - 1)
PROOF
<1> DEFINE t == Older(s)
<1>1. /\ s \in Seq(0..MaxAge) /\ Len(s) \in Nat /\ \A i \in 1..Len(s) : s[i] \in 0..MaxAge
      /\ \A i, j \in 1..Len(s) : i < j => s[i] >= s[j]
      /\ DOMAIN s = 1..Len(s)
  BY OldestFirstTyped
<1>2. w \in Nat /\ w < MaxAge /\ MaxAge \in Nat \ {0}
  BY Horizons
<1>3. \A i \in 1..Len(s) : (IF s[i] < MaxAge THEN s[i] + 1 ELSE MaxAge) \in 0..MaxAge
  BY <1>1, <1>2
<1>4. /\ t \in Seq(0..MaxAge) /\ Len(t) = Len(s)
      /\ \A i \in 1..Len(s) : t[i] = IF s[i] < MaxAge THEN s[i] + 1 ELSE MaxAge
  BY <1>1, <1>3 DEF Older
<1> HIDE DEF t
<1>5. ASSUME NEW i \in 1..Len(t), NEW j \in 1..Len(t), i < j PROVE t[i] >= t[j]
  <2>1. s[i] \in 0..MaxAge /\ s[j] \in 0..MaxAge /\ s[i] >= s[j]
    BY <1>1, <1>4, <1>5
  <2>2. /\ t[i] = IF s[i] < MaxAge THEN s[i] + 1 ELSE MaxAge
        /\ t[j] = IF s[j] < MaxAge THEN s[j] + 1 ELSE MaxAge
    BY <1>4
  <2>. QED
    BY <1>2, <2>1, <2>2
<1>6. OldestFirst(t)
  BY <1>4, <1>5 DEF OldestFirst
<1>7. CASE w = 0
  <2>1. \A i \in 1..Len(t) : ~(t[i] <= w) /\ ~(i > Len(t))
    BY <1>1, <1>2, <1>4, <1>7
  <2>2. CutAt(t, w, Len(t))
    BY <1>1, <1>4, <2>1 DEF CutAt
  <2>3. Tally(t, w) = Len(t) - Len(t)
    BY <1>2, <1>6, <2>2, CutIs
  <2>. QED
    BY <1>1, <1>4, <1>6, <1>7, <2>3 DEF t
<1>8. CASE w # 0
  <2>1. w - 1 \in Nat
    BY <1>2, <1>8
  <2>2. PICK m : CutAt(s, w - 1, m)
    BY <2>1, CutExists
  <2>3. m \in 0..Len(s) /\ \A i \in 1..Len(s) : s[i] <= w - 1 <=> i > m
    BY <2>2 DEF CutAt
  <2>4. ASSUME NEW i \in 1..Len(t) PROVE t[i] <= w <=> i > m
    <3>1. s[i] \in 0..MaxAge /\ t[i] = IF s[i] < MaxAge THEN s[i] + 1 ELSE MaxAge
      BY <1>1, <1>4
    <3>2. t[i] <= w <=> s[i] <= w - 1
      BY <1>2, <3>1
    <3>. QED
      BY <1>4, <2>3, <3>2
  <2>5. CutAt(t, w, m)
    BY <1>4, <2>3, <2>4 DEF CutAt
  <2>6. Tally(t, w) = Len(t) - m /\ Tally(s, w - 1) = Len(s) - m
    BY <1>2, <1>6, <2>1, <2>2, <2>5, CutIs
  <2>. QED
    BY <1>4, <1>6, <1>8, <2>6 DEF t
<1>. QED
  BY <1>7, <1>8

\* Nobody is recent in a bucket whose last request is too old, or which is empty.
LEMMA CountedNone ==
  ASSUME NEW s, OldestFirst(s), NEW w \in Nat, s = << >> \/ s[Len(s)] > w
  PROVE  Tally(s, w) = 0
PROOF
<1>1. /\ Len(s) \in Nat /\ \A i \in 1..Len(s) : s[i] \in 0..MaxAge
      /\ \A i, j \in 1..Len(s) : i < j => s[i] >= s[j]
      /\ s = << >> => Len(s) = 0
  BY OldestFirstTyped
<1>2. ASSUME NEW i \in 1..Len(s) PROVE ~(s[i] <= w)
  <2>1. Len(s) \in 1..Len(s) /\ s[Len(s)] > w
    BY <1>1
  <2>2. i = Len(s) \/ i < Len(s)
    BY <1>1
  <2>3. s[i] \in Nat /\ s[Len(s)] \in Nat /\ s[i] >= s[Len(s)]
    BY <1>1, <2>1, <2>2
  <2>. QED
    BY <2>1, <2>3
<1>3. CutAt(s, w, Len(s))
  BY <1>1, <1>2 DEF CutAt
<1>4. Tally(s, w) = Len(s) - Len(s)
  BY <1>3, CutIs
<1>. QED
  BY <1>1, <1>4

-------------------------------------------------------------------------------
(* The invariant                                                               *)

Bucket(name) == IF name \in DOMAIN buckets THEN buckets[name] ELSE << >>

\* The ages up to which the limiter remembers who was admitted under a name.
Known(name) == {age \in 0..Horizon : Remembers(name, age)}

\* What is charged and what has been admitted, counted by age.
Agrees(charged, admitted, known) ==
  /\ OldestFirst(charged) /\ OldestFirst(admitted)
  /\ \A w \in 0..Horizon : Tally(charged, w) <= Tally(admitted, w)
  /\ \A w \in known : Tally(admitted, w) <= Tally(charged, w)

LimiterInv ==
  /\ config \in Configs /\ started \in Configs
  /\ recently \in [Configs -> 0..Horizon] /\ recently[config] = 0
  /\ DOMAIN buckets \subseteq Names
  /\ \A name \in Names : Agrees(Bucket(name), log[name], Known(name))

\* The limiter remembers no longer than the window in force, nor than the prune task.
LEMMA KnownIsRecent ==
  ASSUME LimiterInv, NEW name \in Names
  PROVE  /\ Known(name) \in SUBSET (0..Horizon)
         /\ \A w \in Known(name) : w <= RuleOf(name).window /\ w <= 2 * LongestWindow(started)
PROOF
<1>1. RuleOf(name).window \in Nat /\ Horizon \in Nat
  BY Windows, Horizons DEF LimiterInv
<1>2. ASSUME NEW w \in Known(name)
      PROVE  w <= RuleOf(name).window /\ w <= 2 * LongestWindow(started)
  <2>1. w \in 0..Horizon /\ Remembers(name, w)
    BY DEF Known
  <2>2. w <= RuleIn(config, name).window + recently[config] /\ recently[config] = 0
    BY <2>1 DEF Remembers, LimiterInv
  <2>3. w <= 2 * LongestWindow(started)
    BY <2>1 DEF Remembers
  <2>. QED
    BY <1>1, <2>1, <2>2, <2>3 DEF RuleOf
<1>3. Known(name) \in SUBSET (0..Horizon)
  BY DEF Known
<1>. QED
  BY <1>2, <1>3

LEMMA EmptyOldestFirst == OldestFirst(<< >>)
PROOF
<1>1. << >> \in Seq(0..MaxAge) /\ Len(<< >>) = 0
  OBVIOUS
<1>. QED
  BY <1>1 DEF OldestFirst

LEMMA EmptyAgrees ==
  ASSUME NEW known \in SUBSET (0..Horizon)
  PROVE  Agrees(<< >>, << >>, known)
PROOF
<1>1. \A w \in Nat : Tally(<< >>, w) = 0
  BY EmptyOldestFirst, CountedNone
<1>2. Horizon \in Nat
  BY Horizons
<1>3. \A w \in 0..Horizon : w \in Nat
  BY <1>2
<1>. QED
  BY <1>1, <1>3, EmptyOldestFirst DEF Agrees

\* Who remembers less still agrees.
LEMMA ForgotAgrees ==
  ASSUME NEW known, NEW less \in SUBSET known, NEW charged, NEW admitted,
         Agrees(charged, admitted, known)
  PROVE  Agrees(charged, admitted, less)
PROOF
<1>. QED
  BY DEF Agrees

\* A trimmed bucket.
LEMMA TrimmedAgrees ==
  ASSUME NEW known \in SUBSET (0..Horizon), NEW charged, NEW admitted,
         Agrees(charged, admitted, known),
         NEW window \in Nat, \A w \in known : w <= window
  PROVE  Agrees(Within(charged, window), admitted, known)
PROOF
<1> DEFINE t == Within(charged, window)
<1>1. Horizon \in Nat
  BY Horizons
<1>2. /\ OldestFirst(charged) /\ OldestFirst(admitted)
      /\ \A w \in 0..Horizon : Tally(charged, w) <= Tally(admitted, w)
      /\ \A w \in known : Tally(admitted, w) <= Tally(charged, w)
  BY DEF Agrees
<1>3. OldestFirst(t)
  BY <1>1, <1>2, CountedTrimmed
<1>4. ASSUME NEW w \in 0..Horizon PROVE Tally(t, w) <= Tally(admitted, w)
  <2>1. w \in Nat /\ Tally(t, w) <= Tally(charged, w) /\ Tally(charged, w) <= Tally(admitted, w)
    BY <1>1, <1>2, CountedTrimmed
  <2>2. Tally(t, w) \in Nat /\ Tally(charged, w) \in Nat /\ Tally(admitted, w) \in Nat
    BY <1>2, <1>3, <2>1, CountedTyped
  <2> HIDE DEF t
  <2>. QED
    BY <2>1, <2>2
<1>5. ASSUME NEW w \in known PROVE Tally(admitted, w) <= Tally(t, w)
  <2>1. w \in Nat /\ w <= window
    BY <1>1
  <2>2. Tally(t, w) = Tally(charged, w)
    BY <1>2, <2>1, CountedTrimmed
  <2>. QED
    BY <1>2, <2>2
<1>. QED
  BY <1>2, <1>3, <1>4, <1>5 DEF Agrees

LEMMA ChargedAgrees ==
  ASSUME NEW known \in SUBSET (0..Horizon), NEW charged, NEW admitted,
         Agrees(charged, admitted, known)
  PROVE  Agrees(Append(charged, 0), Append(admitted, 0), known)
PROOF
<1>1. Horizon \in Nat /\ \A w \in 0..Horizon : w \in Nat
  BY Horizons
<1>2. /\ OldestFirst(charged) /\ OldestFirst(admitted)
      /\ \A w \in 0..Horizon : Tally(charged, w) <= Tally(admitted, w)
      /\ \A w \in known : Tally(admitted, w) <= Tally(charged, w)
  BY DEF Agrees
<1>3. OldestFirst(Append(charged, 0)) /\ OldestFirst(Append(admitted, 0))
  BY <1>1, <1>2, CountedCharged
<1>4. ASSUME NEW w \in Nat
      PROVE  /\ Tally(charged, w) \in Nat /\ Tally(admitted, w) \in Nat
             /\ Tally(Append(charged, 0), w) = Tally(charged, w) + 1
             /\ Tally(Append(admitted, 0), w) = Tally(admitted, w) + 1
  BY <1>2, CountedCharged, CountedTyped
<1>5. ASSUME NEW w \in 0..Horizon
      PROVE  Tally(Append(charged, 0), w) <= Tally(Append(admitted, 0), w)
  <2>1. w \in Nat /\ Tally(charged, w) <= Tally(admitted, w)
    BY <1>1, <1>2
  <2>. QED
    BY <1>4, <2>1
<1>6. ASSUME NEW w \in known
      PROVE  Tally(Append(admitted, 0), w) <= Tally(Append(charged, 0), w)
  <2>1. w \in Nat /\ Tally(admitted, w) <= Tally(charged, w)
    BY <1>1, <1>2
  <2>. QED
    BY <1>4, <2>1
<1>. QED
  BY <1>3, <1>5, <1>6 DEF Agrees

\* A tick later, if no age is remembered now that was not, one shorter, before.
LEMMA AgedAgrees ==
  ASSUME NEW known \in SUBSET (0..Horizon), NEW charged, NEW admitted,
         Agrees(charged, admitted, known),
         NEW later \in SUBSET (0..Horizon), \A w \in later : w # 0 => w - 1 \in known
  PROVE  Agrees(Older(charged), Within(Older(admitted), Horizon), later)
PROOF
<1> DEFINE b == Older(charged)
           l == Older(admitted)
           t == Within(l, Horizon)
<1>1. Horizon \in Nat
  BY Horizons
<1>2. /\ OldestFirst(charged) /\ OldestFirst(admitted)
      /\ \A w \in 0..Horizon : Tally(charged, w) <= Tally(admitted, w)
      /\ \A w \in known : Tally(admitted, w) <= Tally(charged, w)
  BY DEF Agrees
<1>3. ASSUME NEW w \in 0..Horizon
      PROVE  /\ OldestFirst(b) /\ OldestFirst(l)
             /\ Tally(b, w) = IF w = 0 THEN 0 ELSE Tally(charged, w - 1)
             /\ Tally(l, w) = IF w = 0 THEN 0 ELSE Tally(admitted, w - 1)
  BY <1>2, CountedOlder
<1>4. OldestFirst(b) /\ OldestFirst(l)
  <2>1. 0 \in 0..Horizon
    BY <1>1
  <2>. QED
    BY <1>3, <2>1
<1> HIDE DEF b, l
<1>5. OldestFirst(t) /\ \A w \in 0..Horizon : Tally(t, w) = Tally(l, w)
  <2>1. OldestFirst(t)
    BY <1>1, <1>4, CountedTrimmed
  <2>2. ASSUME NEW w \in 0..Horizon PROVE Tally(t, w) = Tally(l, w)
    <3>1. w \in Nat /\ w <= Horizon
      BY <1>1
    <3>. QED
      BY <1>1, <1>4, <3>1, CountedTrimmed
  <2>. QED
    BY <2>1, <2>2
<1> HIDE DEF t
<1>6. ASSUME NEW w \in 0..Horizon PROVE Tally(b, w) <= Tally(t, w)
  <2>1. w = 0 \/ w - 1 \in 0..Horizon
    BY <1>1
  <2>. QED
    BY <1>2, <1>3, <1>5, <2>1
<1>7. ASSUME NEW w \in later PROVE Tally(t, w) <= Tally(b, w)
  <2>1. w \in 0..Horizon /\ (w = 0 \/ w - 1 \in known)
    BY <1>1
  <2>. QED
    BY <1>2, <1>3, <1>5, <2>1
<1>. QED
  BY <1>4, <1>5, <1>6, <1>7 DEF Agrees, b, l, t

\* A bucket the task drops holds nothing that is still remembered.
LEMMA DroppedAgrees ==
  ASSUME NEW known \in SUBSET (0..Horizon), NEW charged, NEW admitted,
         Agrees(charged, admitted, known),
         NEW age \in Nat, \A w \in known : w <= age,
         charged = << >> \/ charged[Len(charged)] > age
  PROVE  Agrees(<< >>, admitted, known)
PROOF
<1>1. Horizon \in Nat
  BY Horizons
<1>2. /\ OldestFirst(charged) /\ OldestFirst(admitted)
      /\ \A w \in known : Tally(admitted, w) <= Tally(charged, w)
  BY DEF Agrees
<1>3. \A w \in Nat : Tally(<< >>, w) = 0
  BY EmptyOldestFirst, CountedNone
<1>4. ASSUME NEW w \in 0..Horizon PROVE Tally(<< >>, w) <= Tally(admitted, w)
  <2>1. w \in Nat
    BY <1>1
  <2>2. Tally(admitted, w) \in Nat
    BY <1>2, <2>1, CountedTyped
  <2>3. Tally(<< >>, w) = 0
    BY <1>3, <2>1
  <2>. QED
    BY <2>2, <2>3
<1>5. ASSUME NEW w \in known PROVE Tally(admitted, w) <= Tally(<< >>, w)
  <2>1. w \in Nat /\ w <= age
    BY <1>1
  <2>2. charged = << >> \/ charged[Len(charged)] > w
    <3>1. CASE charged # << >>
      <4>1. Len(charged) \in 1..Len(charged)
        BY <1>2, <3>1, OldestFirstTyped
      <4>2. charged[Len(charged)] \in Nat
        BY <1>2, <4>1, OldestFirstTyped
      <4>3. charged[Len(charged)] > age
        BY <3>1
      <4> DEFINE youngest == charged[Len(charged)]
      <4> HIDE DEF youngest
      <4>4. youngest \in Nat /\ youngest > age
        BY <4>2, <4>3 DEF youngest
      <4>5. youngest > w
        BY <2>1, <4>4
      <4>. QED
        BY <4>5 DEF youngest
    <3>. QED
      BY <3>1
  <2>3. Tally(charged, w) = 0
    BY <1>2, <2>1, <2>2, CountedNone
  <2>. QED
    BY <1>2, <1>3, <2>1, <2>3
<1>. QED
  BY <1>2, <1>4, <1>5, EmptyOldestFirst DEF Agrees

-------------------------------------------------------------------------------
(* The steps                                                                   *)

\* What a refused check looks at is part of what an admitted one does.
LEMMA NamesChecked ==
  ASSUME NEW client \in Clients, NEW token
  PROVE  Examined(client, token) \subseteq Checks(client, token)
PROOF
<1>. QED
  BY DEF Examined, Checks

LEMMA ChecksNames ==
  ASSUME LimiterInv, NEW client \in Clients, NEW token
  PROVE  Checks(client, token) \subseteq Names
PROOF
<1>1. config.keys \subseteq Tokens
  BY RateAssumption DEF LimiterInv
<1>. QED
  BY <1>1 DEF Checks, Names

\* What is left of each bucket after a check.
LEMMA ChargeBuckets ==
  ASSUME LimiterInv, NEW names \in SUBSET Names, NEW charged \in SUBSET names,
         Charge(names, charged)
  PROVE  /\ DOMAIN buckets' \subseteq Names
         /\ \A n \in Names \ names : Bucket(n)' = Bucket(n)
         /\ \A n \in names : /\ n \in charged => Bucket(n)' = Append(Recent(n), 0)
                             /\ n \notin charged => Bucket(n)' = Recent(n)
PROOF
<1>1. DOMAIN buckets' = DOMAIN buckets \cup names
  BY DEF Charge
<1>2. \A n \in DOMAIN buckets \cup names :
        buckets'[n] = IF n \notin names THEN buckets[n]
                      ELSE IF n \in charged THEN Append(Recent(n), 0) ELSE Recent(n)
  BY DEF Charge
<1>. QED
  BY <1>1, <1>2 DEF LimiterInv, Bucket

LEMMA RecentIsTrimmed ==
  ASSUME LimiterInv, NEW n \in Names
  PROVE  /\ Recent(n) = Within(Bucket(n), RuleOf(n).window)
         /\ Agrees(Recent(n), log[n], Known(n))
PROOF
<1>1. \A w : Within(<< >>, w) = << >>
  BY DEF Within
<1>2. Recent(n) = Within(Bucket(n), RuleOf(n).window)
  BY <1>1 DEF Recent, Bucket
<1>3. RuleOf(n).window \in Nat
  BY Windows DEF LimiterInv
<1>4. Known(n) \in SUBSET (0..Horizon) /\ \A w \in Known(n) : w <= RuleOf(n).window
  BY KnownIsRecent
<1>5. Agrees(Bucket(n), log[n], Known(n))
  BY DEF LimiterInv
<1>. QED
  BY <1>2, <1>3, <1>4, <1>5, TrimmedAgrees

\* What is remembered depends on the configurations alone.
LEMMA KnownStays ==
  ASSUME UNCHANGED <<started, recently>>, NEW n
  PROVE  Known(n)' = Known(n)
PROOF
<1>. QED
  BY DEF Known, Remembers, RuleIn, Horizon, LongestWindow

LEMMA AdmittedInv ==
  ASSUME LimiterInv, NEW client \in Clients, NEW token, Admitted(client, token)
  PROVE  LimiterInv'
PROOF
<1> DEFINE names == Checks(client, token)
<1>1. names \in SUBSET Names /\ Charge(names, names)
  BY ChecksNames DEF Admitted
<1>2. \A n \in Names : log'[n] = IF n \in names THEN Append(log[n], 0) ELSE log[n]
  BY DEF Admitted
<1> HIDE DEF names
<1>3. /\ DOMAIN buckets' \subseteq Names
      /\ \A n \in Names \ names : Bucket(n)' = Bucket(n)
      /\ \A n \in names : Bucket(n)' = Append(Recent(n), 0)
  BY <1>1, ChargeBuckets
<1>4. ASSUME NEW n \in Names PROVE Agrees(Bucket(n)', log'[n], Known(n))
  <2>1. CASE n \in names
    <3>1. Agrees(Append(Recent(n), 0), Append(log[n], 0), Known(n))
      BY RecentIsTrimmed, KnownIsRecent, ChargedAgrees
    <3>. QED
      BY <1>2, <1>3, <2>1, <3>1
  <2>2. CASE n \notin names
    BY <1>2, <1>3, <2>2 DEF LimiterInv
  <2>. QED
    BY <2>1, <2>2
<1>. QED
  BY <1>3, <1>4, KnownStays DEF LimiterInv, Admitted, Agrees, OldestFirst, Tally, Horizon, Within

LEMMA RefusedInv ==
  ASSUME LimiterInv, NEW client \in Clients, NEW token, Refused(client, token)
  PROVE  LimiterInv'
PROOF
<1> DEFINE names == Examined(client, token)
<1>1. names \in SUBSET Names /\ Charge(names, {}) /\ {} \in SUBSET names
  BY ChecksNames, NamesChecked DEF Refused
<1> HIDE DEF names
<1>2. /\ DOMAIN buckets' \subseteq Names
      /\ \A n \in Names \ names : Bucket(n)' = Bucket(n)
      /\ \A n \in names : Bucket(n)' = Recent(n)
  BY <1>1, ChargeBuckets
<1>3. ASSUME NEW n \in Names PROVE Agrees(Bucket(n)', log[n], Known(n))
  BY <1>2, RecentIsTrimmed DEF LimiterInv
<1>. QED
  BY <1>2, <1>3, KnownStays DEF LimiterInv, Refused, Agrees, OldestFirst, Tally, Horizon, Within

LEMMA PruneInv ==
  ASSUME LimiterInv, Prune
  PROVE  LimiterInv'
PROOF
<1> DEFINE gone == {n \in DOMAIN buckets : Stale(n, 2 * LongestWindow(started))}
<1>1. /\ DOMAIN buckets' = {n \in DOMAIN buckets : ~Stale(n, 2 * LongestWindow(started))}
      /\ \A n \in DOMAIN buckets' : buckets'[n] = buckets[n]
  BY DEF Prune, Restrict
<1>2. ASSUME NEW n \in Names PROVE Agrees(Bucket(n)', log[n], Known(n))
  <2>1. Agrees(Bucket(n), log[n], Known(n))
    BY DEF LimiterInv
  <2>2. CASE n \in gone
    <3>1. Bucket(n)' = << >>
      BY <1>1, <2>2 DEF Bucket
    <3>2. Bucket(n) = << >> \/ Bucket(n)[Len(Bucket(n))] > 2 * LongestWindow(started)
      BY <2>2 DEF Bucket, Stale
    <3>3. LongestWindow(started) \in Nat /\ 2 * LongestWindow(started) \in Nat
      BY LongerWindow DEF LimiterInv
    <3>4. Agrees(<< >>, log[n], Known(n))
      BY <2>1, <3>2, <3>3, KnownIsRecent, DroppedAgrees
    <3>. QED
      BY <3>1, <3>4
  <2>3. CASE n \notin gone
    <3>1. Bucket(n)' = Bucket(n)
      BY <1>1, <2>3 DEF Bucket
    <3>. QED
      BY <2>1, <3>1
  <2>. QED
    BY <2>2, <2>3
<1>3. DOMAIN buckets' \subseteq Names
  BY <1>1 DEF LimiterInv
<1>4. ASSUME NEW n \in Names PROVE Agrees(Bucket(n)', log'[n], Known(n)')
  <2>1. log' = log /\ Known(n)' = Known(n)
    BY KnownStays DEF Prune
  <2>. QED
    BY <1>2, <2>1
<1>. QED
  BY <1>3, <1>4 DEF LimiterInv, Prune, Agrees, OldestFirst, Tally, Horizon, Within

\* A tick: what is remembered reaches at most one further back.
LEMMA KnownAges ==
  ASSUME LimiterInv, Tick
  PROVE  /\ recently' \in [Configs -> 0..Horizon] /\ recently'[config] = 0
         /\ \A n \in Names : /\ Known(n)' \in SUBSET (0..Horizon)
                             /\ \A w \in Known(n)' : w # 0 => w - 1 \in Known(n)
PROOF
<1>1. Horizon \in Nat /\ Horizon' = Horizon
  BY Horizons DEF Horizon
<1>2. ASSUME NEW c \in Configs
      PROVE  /\ recently[c] \in 0..Horizon /\ recently'[c] \in 0..Horizon
             /\ recently'[c] <= recently[c] + 1
  <2>1. recently'[c] = IF c = config THEN 0
                       ELSE IF recently[c] < Horizon THEN recently[c] + 1 ELSE Horizon
    BY DEF Tick
  <2>2. recently[c] \in 0..Horizon
    BY DEF LimiterInv
  <2>. QED
    BY <1>1, <2>1, <2>2
<1>3. recently' \in [Configs -> 0..Horizon] /\ recently'[config] = 0
  <2>1. recently' = [c \in Configs |-> recently'[c]]
    BY DEF Tick
  <2>2. recently'[config] = 0
    BY DEF Tick, LimiterInv
  <2>. QED
    BY <1>2, <2>1, <2>2
<1>4. ASSUME NEW n \in Names PROVE Known(n)' \in SUBSET (0..Horizon)
  BY <1>1 DEF Known
<1>5. ASSUME NEW n \in Names, NEW w \in Known(n)', w # 0 PROVE w - 1 \in Known(n)
  <2>1. w \in 0..Horizon /\ w - 1 \in 0..Horizon
    BY <1>1, <1>4, <1>5
  <2>2. /\ w <= 2 * LongestWindow(started)
        /\ \A c \in Configs : w <= RuleIn(c, n).window + recently'[c]
    BY DEF Known, Remembers, Tick, RuleIn, LongestWindow
  <2>3. LongestWindow(started) \in Nat /\ \A c \in Configs : RuleIn(c, n).window \in Nat
    BY LongerWindow DEF LimiterInv, RuleIn
  <2>4. ASSUME NEW c \in Configs PROVE w - 1 <= RuleIn(c, n).window + recently[c]
    BY <1>1, <1>2, <2>1, <2>2, <2>3
  <2>5. w - 1 <= 2 * LongestWindow(started)
    BY <1>1, <2>1, <2>2, <2>3
  <2>. QED
    BY <2>1, <2>4, <2>5 DEF Known, Remembers
<1>. QED
  BY <1>3, <1>4, <1>5

LEMMA TickInv ==
  ASSUME LimiterInv, Tick
  PROVE  LimiterInv'
PROOF
<1>1. /\ DOMAIN buckets' = DOMAIN buckets
      /\ \A n \in DOMAIN buckets : buckets'[n] = Older(buckets[n])
      /\ \A n \in Names : log'[n] = Within(Older(log[n]), Horizon)
  BY DEF Tick
<1>2. Older(<< >>) = << >>
  BY DEF Older
<1>3. ASSUME NEW n \in Names PROVE Agrees(Bucket(n)', log'[n], Known(n)')
  <2>1. Bucket(n)' = Older(Bucket(n))
    BY <1>1, <1>2 DEF Bucket
  <2> DEFINE later == Known(n)'
  <2>2. later \in SUBSET (0..Horizon) /\ \A w \in later : w # 0 => w - 1 \in Known(n)
    BY KnownAges
  <2>3. Known(n) \in SUBSET (0..Horizon) /\ Agrees(Bucket(n), log[n], Known(n))
    BY KnownIsRecent DEF LimiterInv
  <2> HIDE DEF later
  <2>4. Agrees(Older(Bucket(n)), Within(Older(log[n]), Horizon), later)
    BY <2>2, <2>3, AgedAgrees
  <2>. QED
    BY <1>1, <2>1, <2>4 DEF later
<1>4. recently' \in [Configs -> 0..Horizon] /\ recently'[config] = 0
  BY KnownAges
<1>5. config' = config /\ started' = started
  BY DEF Tick
<1>. QED
  BY <1>1, <1>3, <1>4, <1>5 DEF LimiterInv, Agrees, OldestFirst, Tally, Horizon, Within

LEMMA OnlyNowTyped ==
  ASSUME NEW c \in Configs
  PROVE  OnlyNow(c) \in [Configs -> 0..Horizon] /\ OnlyNow(c)[c] = 0
PROOF
<1>. QED
  BY Horizons DEF OnlyNow

LEMMA RestartInv ==
  ASSUME Restart
  PROVE  LimiterInv'
PROOF
<1>1. buckets' = << >> /\ DOMAIN << >> = {} /\ config' \in Configs /\ started' \in Configs
  BY DEF Restart
<1>2. ASSUME NEW n \in Names PROVE Bucket(n)' = << >> /\ log'[n] = << >>
  BY <1>1 DEF Restart, Bucket
<1>3. ASSUME NEW n \in Names PROVE Agrees(<< >>, << >>, Known(n)')
  <2> DEFINE known == Known(n)'
  <2>1. known \in SUBSET (0..Horizon)
    BY DEF Known, Horizon
  <2> HIDE DEF known
  <2>2. Agrees(<< >>, << >>, known)
    BY <2>1, EmptyAgrees
  <2>. QED
    BY <2>2 DEF known
<1>4. recently' \in [Configs -> 0..Horizon] /\ recently'[config'] = 0
  BY <1>1, OnlyNowTyped DEF Restart
<1>. QED
  BY <1>1, <1>2, <1>3, <1>4 DEF LimiterInv, Agrees, OldestFirst, Tally, Horizon, Within

\* A configuration that comes into force takes nothing into memory.
LEMMA ReloadInv ==
  ASSUME LimiterInv, Reload
  PROVE  LimiterInv'
PROOF
<1>1. /\ config' \in Configs /\ UNCHANGED <<started, buckets, log>>
      /\ recently' = [recently EXCEPT ![config'] = 0]
  BY DEF Reload
<1>2. \A c \in Configs : /\ recently[c] \in 0..Horizon /\ recently'[c] \in 0..Horizon
                         /\ recently'[c] <= recently[c]
  BY <1>1, Horizons DEF LimiterInv
<1>3. recently' \in [Configs -> 0..Horizon] /\ recently'[config'] = 0
  BY <1>1, <1>2 DEF LimiterInv
<1>4. ASSUME NEW n \in Names PROVE Agrees(Bucket(n)', log'[n], Known(n)')
  <2> DEFINE less == Known(n)'
  <2>1. ASSUME NEW w \in less PROVE w \in Known(n)
    <3>1. w \in 0..Horizon /\ w <= 2 * LongestWindow(started)
      BY <1>1 DEF Known, Remembers, Horizon, LongestWindow
    <3>2. ASSUME NEW c \in Configs PROVE w <= RuleIn(c, n).window + recently[c]
      <4>1. w <= RuleIn(c, n).window + recently'[c]
        BY DEF Known, Remembers, RuleIn
      <4>2. RuleIn(c, n).window \in Nat /\ Horizon \in Nat
        BY LongerWindow, Horizons DEF RuleIn
      <4>. QED
        BY <1>2, <3>1, <4>1, <4>2
    <3>. QED
      BY <3>1, <3>2 DEF Known, Remembers
  <2>2. less \in SUBSET Known(n)
    BY <2>1
  <2> HIDE DEF less
  <2>3. Agrees(Bucket(n), log[n], less)
    BY <2>2, ForgotAgrees DEF LimiterInv
  <2>4. Bucket(n)' = Bucket(n) /\ log'[n] = log[n]
    BY <1>1 DEF Bucket
  <2>. QED
    BY <2>3, <2>4 DEF less
<1>. QED
  BY <1>1, <1>3, <1>4 DEF LimiterInv, Agrees, OldestFirst, Tally, Horizon, Within

LEMMA InitInv == Init => LimiterInv
PROOF
<1> SUFFICES ASSUME Init PROVE LimiterInv
  OBVIOUS
<1>1. buckets = << >> /\ DOMAIN << >> = {} /\ config \in Configs /\ started \in Configs
  BY DEF Init
<1>2. ASSUME NEW n \in Names PROVE Bucket(n) = << >> /\ log[n] = << >>
  BY <1>1 DEF Init, Bucket
<1>3. \A n \in Names : Known(n) \in SUBSET (0..Horizon)
  BY DEF Known
<1>4. recently \in [Configs -> 0..Horizon] /\ recently[config] = 0
  BY <1>1, OnlyNowTyped DEF Init
<1>. QED
  BY <1>1, <1>2, <1>3, <1>4, EmptyAgrees DEF LimiterInv

LEMMA StepInv == LimiterInv /\ [Next]_vars => LimiterInv'
PROOF
<1> SUFFICES ASSUME LimiterInv, [Next]_vars PROVE LimiterInv'
  OBVIOUS
<1>1. CASE UNCHANGED vars
  <2>1. \A n : Known(n)' = Known(n) /\ Bucket(n)' = Bucket(n)
    BY <1>1, KnownStays DEF vars, Bucket
  <2>. QED
    BY <1>1, <2>1 DEF vars, LimiterInv
<1>2. ASSUME NEW client \in Clients, NEW token, Admitted(client, token) \/ Refused(client, token)
      PROVE  LimiterInv'
  BY <1>2, AdmittedInv, RefusedInv
<1>. QED
  BY <1>1, <1>2, ReloadInv, PruneInv, TickInv, RestartInv DEF Next

\* Every bucket is the deque of one name: non-increasing ages, within what is counted.
THEOREM LimiterTyped == Spec => []TypeOK
PROOF
<1>1. LimiterInv => TypeOK
  <2> SUFFICES ASSUME LimiterInv, NEW n \in DOMAIN buckets
               PROVE  /\ buckets[n] \in Seq(0..MaxAge)
                      /\ \A i, j \in DOMAIN buckets[n] : i < j => buckets[n][i] >= buckets[n][j]
    BY DEF LimiterInv, TypeOK
  <2>1. n \in Names /\ Bucket(n) = buckets[n]
    BY DEF LimiterInv, Bucket
  <2>2. OldestFirst(buckets[n])
    BY <2>1 DEF LimiterInv, Agrees
  <2>. QED
    BY <2>2, OldestFirstTyped
<1>. QED
  BY <1>1, InitInv, StepInv, PTL DEF Spec

-------------------------------------------------------------------------------
\* What is full has been admitted as often as it may be.
LEMMA FullIsAdmitted == LimiterInv => RefusedOnlyFull
PROOF
<1> SUFFICES ASSUME LimiterInv, NEW n \in Names, Full(n)
             PROVE  Len(Within(log[n], RuleOf(n).window)) >= RuleOf(n).requests
  BY DEF RefusedOnlyFull
<1>1. /\ Agrees(Bucket(n), log[n], Known(n)) /\ config \in Configs
  BY DEF LimiterInv
<1>2. /\ RuleOf(n).window \in Nat /\ RuleOf(n).requests \in Nat /\ Horizon \in Nat
      /\ RuleOf(n).window <= Horizon
  BY <1>1, Windows, Horizons
<1> DEFINE w == RuleOf(n).window
<1>3. w \in Nat /\ w \in 0..Horizon
  BY <1>2
<1>4. Tally(Bucket(n), w) >= RuleOf(n).requests
  BY RecentIsTrimmed DEF Full, Tally
<1> HIDE DEF w
<1>5. Tally(Bucket(n), w) <= Tally(log[n], w)
  BY <1>1, <1>3 DEF Agrees
<1>6. Tally(Bucket(n), w) \in Nat /\ Tally(log[n], w) \in Nat
  BY <1>1, <1>3, CountedTyped DEF Agrees
<1>7. Tally(log[n], w) >= RuleOf(n).requests
  BY <1>2, <1>4, <1>5, <1>6
<1>. QED
  BY <1>7 DEF w, Tally

LEMMA AdmittedBelow ==
  ASSUME LimiterInv, NEW client \in Clients, NEW token, Admitted(client, token),
         NEW n \in Checks(client, token), NEW age \in 0..Horizon, Remembers(n, age)
  PROVE  Len(Within(log'[n], age)) <= RuleOf(n).requests
PROOF
<1>1. n \in Names /\ ~Full(n) /\ log'[n] = Append(log[n], 0)
  BY ChecksNames DEF Admitted
<1>2. Agrees(Bucket(n), log[n], Known(n)) /\ config \in Configs /\ age \in Known(n)
  BY <1>1 DEF LimiterInv, Known
<1> DEFINE w == RuleOf(n).window
           limit == RuleOf(n).requests
<1>3. age \in Nat /\ w \in Nat /\ limit \in Nat /\ age <= w
  BY <1>1, <1>2, Windows, Horizons, KnownIsRecent
<1>4. Tally(Bucket(n), w) < limit
  <2>1. Recent(n) = Within(Bucket(n), w)
    BY <1>1, RecentIsTrimmed
  <2>2. Tally(Bucket(n), w) \in Nat
    BY <1>2, <1>3, CountedTyped DEF Agrees
  <2>3. ~(Tally(Bucket(n), w) >= limit)
    BY <1>1, <2>1 DEF Full, Tally
  <2> HIDE DEF w, limit
  <2>. QED
    BY <1>3, <2>2, <2>3
<1>5. Tally(log[n], age) <= Tally(Bucket(n), age)
  BY <1>2 DEF Agrees
<1> HIDE DEF w, limit
<1>6. Tally(Bucket(n), age) <= Tally(Bucket(n), w)
  BY <1>2, <1>3, CountedMore DEF Agrees
<1>7. Tally(Append(log[n], 0), age) = Tally(log[n], age) + 1
  BY <1>2, <1>3, CountedCharged DEF Agrees
<1>8. /\ Tally(log[n], age) \in Nat /\ Tally(Bucket(n), age) \in Nat
      /\ Tally(Bucket(n), w) \in Nat
  BY <1>2, <1>3, CountedTyped DEF Agrees
<1>9. Tally(log'[n], age) <= limit
  BY <1>1, <1>3, <1>4, <1>5, <1>6, <1>7, <1>8
<1>. QED
  BY <1>9 DEF limit, Tally

\* A client or key is refused only when the limit in force has been used up within the
\* window in force, by requests that were really admitted: not by refused ones, and
\* not by what a longer window, a reload or the prune task has left in the bucket.
THEOREM RefusedAreOver == Spec => []RefusedOnlyFull
PROOF
<1>. QED
  BY InitInv, StepInv, FullIsAdmitted, PTL DEF Spec

\* And whatever is trimmed, pruned and reloaded meanwhile, none is admitted more often
\* than its limit within the window in force, as far back as the limiter remembers:
\* all of it, but for what a reload that lengthened the window has lost.
THEOREM AdmittedAreUnder == Spec => NeverOverLimit
PROOF
<1>1. LimiterInv =>
        \A client \in Clients : \A token \in Tokens \cup {NoToken} :
          Admitted(client, token) =>
            \A n \in Checks(client, token) : \A age \in 0..Horizon :
              Remembers(n, age) => Len(Within(log'[n], age)) <= RuleOf(n).requests
  BY AdmittedBelow
<1>. QED
  BY <1>1, InitInv, StepInv, PTL DEF Spec, NeverOverLimit
===============================================================================
