---------------------------- MODULE UsageProofs ----------------------------
(***************************************************************************)
(* Proofs about the usage log and its alerts for any providers, limits,    *)
(* costs, calendars and any number of requests: the sums read from the log *)
(* are the counters of QuotaPromise, whose use stays bounded; a threshold  *)
(* is told once, and an alert is withheld only for one that was tried.     *)
(***************************************************************************)
EXTENDS Usage, DataProofs, FiniteSetTheorems, SequenceTheorems

-----------------------------------------------------------------------------
(* The calendar                                                            *)

LEMMA Division ==
    ASSUME NEW t \in Nat, NEW d \in Nat \ {0}
    PROVE  t = d * (t \div d) + (t % d) /\ t \div d \in Nat /\ t % d \in 0..(d - 1)
BY Z3

LEMMA DayInRange ==
    ASSUME NEW t \in Nat, NEW d \in Nat \ {0}, NEW last_ \in Nat, t < (last_ + 1) * d
    PROVE  t \div d \in 0..last_
BY Z3

LEMMA NextQuotient ==
    ASSUME NEW t \in Nat, NEW d \in Nat \ {0}
    PROVE  (t + 1) \div d = t \div d \/ (t + 1) \div d = (t \div d) + 1
BY Z3

LEMMA NextRemainder ==
    ASSUME NEW t \in Nat, NEW d \in Nat \ {0}
    PROVE  (t + 1) % d = 0 \/ (t + 1) % d = (t % d) + 1
<1> DEFINE q == t \div d
           k == (t + 1) \div d
           r == t % d
           s == (t + 1) % d
<1>1. t + 1 \in Nat
  OBVIOUS
<1>2. t = d * q + r /\ q \in Nat /\ r \in 0..(d - 1)
  BY Division
<1>3. t + 1 = d * k + s /\ k \in Nat /\ s \in 0..(d - 1)
  BY <1>1, Division
<1>4. k = q \/ k = q + 1
  BY NextQuotient
<1> HIDE DEF q, k, r, s
<1>5. CASE k = q
  BY <1>2, <1>3, <1>5, Z3 DEF r, s
<1>6. CASE k = q + 1
  <2>1. d * (q + 1) = d * q + d
    BY <1>2, Z3
  <2>2. s = r + 1 - d
    BY <1>2, <1>3, <1>6, <2>1, Z3
  <2>3. s = 0
    BY <1>2, <1>3, <2>2
  <2>. QED
    BY <2>3 DEF s
<1>. QED
  BY <1>4, <1>5, <1>6

\* A day lies in the month of t, or a later one, if it is not before its first.
LEMMA SameMonth ==
    ASSUME NEW d \in Nat, NEW t \in Nat, NEW n \in Nat \ {0}
    PROVE  d \div n >= t \div n <=> d >= t - (t % n)
BY Z3

FirstOfMonth == Today - (Today % DaysPerMonth)

LEMMA Calendar ==
    ASSUME clock \in Nat, clock < (MaxDay + 1) * TicksPerDay
    PROVE  /\ Today \in Days /\ Today \in Nat /\ 0 \in Days /\ Days \subseteq Nat
           /\ FirstOfMonth \in 0..Today
           /\ \A d \in Days : MonthOf(d) >= MonthOf(Today) <=> d >= FirstOfMonth
<1>1. TicksPerDay \in Nat \ {0} /\ DaysPerMonth \in Nat \ {0} /\ MaxDay \in Nat
  BY UsageAssumption
<1>2. Today \in 0..MaxDay
  BY <1>1, DayInRange DEF Today
<1>3. Today = DaysPerMonth * (Today \div DaysPerMonth) + (Today % DaysPerMonth)
      /\ Today \div DaysPerMonth \in Nat /\ Today % DaysPerMonth \in Nat
  BY <1>1, <1>2, Division
<1>4. DaysPerMonth * (Today \div DaysPerMonth) \in Nat
  BY <1>1, <1>3, Z3
<1>5. \A d \in Nat : MonthOf(d) >= MonthOf(Today) <=> d >= FirstOfMonth
  BY <1>1, <1>2, SameMonth DEF MonthOf, FirstOfMonth
<1>. QED
  BY <1>1, <1>2, <1>3, <1>4, <1>5 DEF Days, FirstOfMonth

-----------------------------------------------------------------------------
(* The sums                                                                *)

\* The function by which SumSince adds up a provider's days.
Adds(sum, row, first) ==
    \A d \in Days : sum[d] = IF d < first THEN 0
                             ELSE row[d] + (IF d = 0 THEN 0 ELSE sum[d - 1])

IsSumOf(sum, row, first) == sum \in [Days -> Int] /\ Adds(sum, row, first)

\* What is added up till a day depends on the rows till that day only.
LEMMA SumsAgree ==
    ASSUME NEW n \in Days, NEW first \in Int, NEW s, NEW row, NEW t, NEW other,
           Adds(s, row, first), Adds(t, other, first),
           \A d \in 0..n : d >= first => row[d] = other[d]
    PROVE  \A d \in 0..n : s[d] = t[d]
<1> DEFINE T == {d \in 0..n : s[d] = t[d]}
<1>0. n \in Nat /\ 0..n \subseteq Days /\ Days \subseteq Nat
  BY UsageAssumption DEF Days
<1>1. 0 \in T
  BY <1>0 DEF Adds
<1>2. ASSUME NEW d \in 0..n, d \in T, d < n PROVE d + 1 \in T
  <2>1. d + 1 \in 0..n /\ d + 1 # 0 /\ (d + 1) - 1 = d
    BY <1>0, <1>2
  <2>. QED
    BY <1>0, <1>2, <2>1 DEF Adds
<1> HIDE DEF T
<1>3. 0..n \subseteq T
  BY <1>0, <1>1, <1>2, IntervalInduction
<1>. QED
  BY <1>3 DEF T

LEMMA SumOfExists ==
    ASSUME NEW row \in [Days -> Int], NEW first \in Int
    PROVE  \E sum : IsSumOf(sum, row, first)
<1> DEFINE Upto(n, sum) ==
             /\ sum \in [0..n -> Int]
             /\ \A d \in 0..n : sum[d] = IF d < first THEN 0
                                         ELSE row[d] + (IF d = 0 THEN 0 ELSE sum[d - 1])
           T == {n \in 0..MaxDay : \E sum : Upto(n, sum)}
<1>0. MaxDay \in Nat /\ Days = 0..MaxDay
  BY UsageAssumption DEF Days
<1>1. 0 \in T
  <2> DEFINE sum == [d \in 0..0 |-> IF d < first THEN 0 ELSE row[d]]
  <2>1. Upto(0, sum)
    BY <1>0
  <2> HIDE DEF Upto, sum
  <2>. QED
    BY <1>0, <2>1
<1>2. ASSUME NEW n \in 0..MaxDay, n \in T, n < MaxDay PROVE n + 1 \in T
  <2>1. PICK old : Upto(n, old)
    BY <1>2
  <2> DEFINE here == IF n + 1 < first THEN 0 ELSE row[n + 1] + old[n]
             sum == [d \in 0..(n + 1) |-> IF d = n + 1 THEN here ELSE old[d]]
  <2>2. n + 1 \in 0..MaxDay /\ n \in 0..n /\ n + 1 # 0 /\ (n + 1) - 1 = n
    BY <1>0, <1>2
  <2>3. here \in Int
    BY <1>0, <2>1, <2>2
  <2> HIDE DEF here
  <2>4. sum \in [0..(n + 1) -> Int]
    BY <1>0, <2>1, <2>3
  <2>5. ASSUME NEW d \in 0..(n + 1)
        PROVE  sum[d] = IF d < first THEN 0 ELSE row[d] + (IF d = 0 THEN 0 ELSE sum[d - 1])
    <3>1. CASE d = n + 1
      BY <2>2, <3>1 DEF here
    <3>2. CASE d # n + 1
      <4>1. d \in 0..n /\ (d # 0 => d - 1 \in 0..n)
        BY <3>2
      <4>. QED
        BY <2>1, <3>2, <4>1
    <3>. QED
      BY <3>1, <3>2
  <2>6. Upto(n + 1, sum)
    BY <2>4, <2>5
  <2> HIDE DEF Upto, sum
  <2>. QED
    BY <2>2, <2>6
<1> HIDE DEF T
<1>3. 0..MaxDay \subseteq T
  BY <1>0, <1>1, <1>2, IntervalInduction
<1>4. MaxDay \in T
  BY <1>0, <1>3
<1>. QED
  BY <1>0, <1>4 DEF T, IsSumOf, Adds

\* What SumSince reads off such a function.
Total(row, first, day) ==
    LET sum[d \in Days] == IF d < first THEN 0
                           ELSE row[d] + (IF d = 0 THEN 0 ELSE sum[d - 1])
    IN  sum[day]

LEMMA TotalRead ==
    ASSUME NEW row \in [Days -> Int], NEW first \in Int
    PROVE  \E sum : IsSumOf(sum, row, first) /\ \A day : Total(row, first, day) = sum[day]
<1> DEFINE step(s, d) == IF d < first THEN 0 ELSE row[d] + (IF d = 0 THEN 0 ELSE s[d - 1])
           sum == CHOOSE s : s = [d \in Days |-> step(s, d)]
<1>1. PICK s : IsSumOf(s, row, first)
  BY SumOfExists
<1>2. s = [d \in Days |-> step(s, d)]
  BY <1>1 DEF IsSumOf, Adds
<1>3. sum = [d \in Days |-> step(sum, d)]
  <2> HIDE DEF step
  <2>. QED
    BY <1>2
<1>4. \A day : Total(row, first, day) = sum[day]
  BY DEF Total
<1> HIDE DEF sum
<1>5. Adds(sum, row, first) /\ DOMAIN sum = Days
  BY <1>3 DEF Adds
<1>6. MaxDay \in Days /\ Days = 0..MaxDay
  BY UsageAssumption DEF Days
<1>7. Adds(s, row, first)
  BY <1>1 DEF IsSumOf
<1>8. \A d \in 0..MaxDay : sum[d] = s[d]
  <2>1. \A d \in 0..MaxDay : d >= first => row[d] = row[d]
    OBVIOUS
  <2>2. /\ Adds(sum, row, first) /\ Adds(s, row, first)
        /\ first \in Int /\ MaxDay \in Days
    BY <1>5, <1>6, <1>7
  <2>. QED
    BY ONLY <2>1, <2>2, SumsAgree
<1>9. sum \in [Days -> Int]
  BY <1>1, <1>3, <1>6, <1>8 DEF IsSumOf
<1>. QED
  BY <1>4, <1>5, <1>9 DEF IsSumOf

LEMMA TotalTyped ==
    ASSUME NEW row \in [Days -> Int], NEW first \in Int, NEW day \in Days
    PROVE  Total(row, first, day) \in Int
BY TotalRead DEF IsSumOf

\* Rows that are the same up to the day that is read give the same.
LEMMA TotalSame ==
    ASSUME NEW row \in [Days -> Int], NEW other \in [Days -> Int], NEW first \in Int,
           NEW day \in Days, \A d \in 0..day : d >= first => row[d] = other[d]
    PROVE  Total(row, first, day) = Total(other, first, day)
<1>1. PICK s : IsSumOf(s, row, first) /\ \A x : Total(row, first, x) = s[x]
  BY TotalRead
<1>2. PICK t : IsSumOf(t, other, first) /\ \A x : Total(other, first, x) = t[x]
  BY TotalRead
<1>3. Adds(s, row, first) /\ Adds(t, other, first)
  BY <1>1, <1>2 DEF IsSumOf
<1>4. \A d \in 0..day : s[d] = t[d]
  BY <1>3, SumsAgree
<1>5. day \in 0..day
  BY UsageAssumption DEF Days
<1>. QED
  BY <1>1, <1>2, <1>4, <1>5

\* What a day adds.
LEMMA TotalStep ==
    ASSUME NEW row \in [Days -> Int], NEW first \in Int, NEW day \in Days, first <= day
    PROVE  Total(row, first, day) = row[day] + (IF day = 0 THEN 0 ELSE Total(row, first, day - 1))
<1>1. PICK sum : IsSumOf(sum, row, first) /\ \A x : Total(row, first, x) = sum[x]
  BY TotalRead
<1>2. sum[day] = row[day] + (IF day = 0 THEN 0 ELSE sum[day - 1])
  BY <1>1, UsageAssumption DEF IsSumOf, Adds, Days
<1>. QED
  BY <1>1, <1>2

LEMMA TotalBefore ==
    ASSUME NEW row \in [Days -> Int], NEW first \in Int, NEW day \in Days, day < first
    PROVE  Total(row, first, day) = 0
BY TotalRead DEF IsSumOf, Adds

\* A row of the present day adds its units.
LEMMA TotalAdded ==
    ASSUME NEW row \in [Days -> Int], NEW first \in Int, NEW day \in Days, first <= day,
           NEW units \in Int
    PROVE  Total([row EXCEPT ![day] = @ + units], first, day) = Total(row, first, day) + units
<1> DEFINE more == [row EXCEPT ![day] = @ + units]
<1>0. Days \subseteq Nat /\ \A d \in Days : d # 0 => d - 1 \in Days
  BY UsageAssumption DEF Days
<1>1. more \in [Days -> Int] /\ more[day] = row[day] + units
      /\ \A d \in 0..(day - 1) : more[d] = row[d]
  BY <1>0
<1> HIDE DEF more
<1>2. Total(more, first, day) = more[day] + (IF day = 0 THEN 0 ELSE Total(more, first, day - 1))
  BY <1>1, TotalStep
<1>3. Total(row, first, day) = row[day] + (IF day = 0 THEN 0 ELSE Total(row, first, day - 1))
  BY TotalStep
<1>4. day # 0 => Total(more, first, day - 1) = Total(row, first, day - 1)
  BY <1>0, <1>1, TotalSame
<1>5. day # 0 => Total(row, first, day - 1) \in Int
  BY <1>0, TotalTyped
<1>6. Total(more, first, day) = Total(row, first, day) + units
  BY <1>1, <1>2, <1>3, <1>4, <1>5
<1>. QED
  BY <1>6 DEF more

\* Rows of nothing add up to nothing.
LEMMA TotalZero ==
    ASSUME NEW row \in [Days -> Int], NEW first \in Int, NEW day \in Days,
           \A d \in 0..day : d >= first => row[d] = 0
    PROVE  Total(row, first, day) = 0
<1> DEFINE none == [d \in Days |-> 0]
           nil == [d \in Days |-> 0]
<1>0. day \in Nat /\ 0..day \subseteq Days /\ day \in 0..day
  BY UsageAssumption DEF Days
<1>1. none \in [Days -> Int] /\ \A d \in 0..day : d >= first => row[d] = none[d]
  BY <1>0
<1>2. Adds(nil, none, first)
  BY UsageAssumption DEF Adds, Days
<1>3. PICK t : Adds(t, none, first) /\ Total(none, first, day) = t[day]
  BY <1>1, TotalRead DEF IsSumOf
<1>4. \A d \in 0..day : nil[d] = t[d]
  BY <1>1, <1>2, <1>3, SumsAgree
<1>5. Total(row, first, day) = Total(none, first, day)
  BY <1>1, TotalSame
<1>. QED
  BY <1>0, <1>3, <1>4, <1>5

-----------------------------------------------------------------------------
(* The log: rows up to the present day, numbers all of them                *)

UsageInv ==
    /\ clock \in Nat /\ clock < (MaxDay + 1) * TicksPerDay
    /\ rows \in [Providers -> [Days -> Int]]
    /\ \A p \in Providers : \A d \in Days : d > Today => rows[p][d] = 0
    /\ held \in [Requests -> SUBSET Providers]

LEMMA MonthIsTotal ==
    ASSUME NEW p \in Providers
    PROVE  /\ MonthUse(p) = Total(rows[p], FirstOfMonth, Today)
           /\ DayUse(p) = Total(rows[p], Today, Today)
           /\ MonthUse(p)' = Total(rows'[p], FirstOfMonth', Today')
           /\ DayUse(p)' = Total(rows'[p], Today', Today')
BY DEF MonthUse, DayUse, SumSince, Total, FirstOfMonth

LEMMA UseTyped ==
    ASSUME UsageInv, NEW p \in Providers
    PROVE  MonthUse(p) \in Int /\ DayUse(p) \in Int
<1>1. /\ Today \in Days /\ Today \in Nat /\ FirstOfMonth \in 0..Today
      /\ rows[p] \in [Days -> Int]
  BY Calendar DEF UsageInv
<1>2. FirstOfMonth \in Int /\ Today \in Int
  BY <1>1
<1>3. Total(rows[p], FirstOfMonth, Today) \in Int
  BY <1>1, <1>2, TotalTyped
<1>4. Total(rows[p], Today, Today) \in Int
  BY <1>1, <1>2, TotalTyped
<1>. QED
  BY <1>3, <1>4, MonthIsTotal

\* A row of units is units more for its provider's month and day.
LEMMA RowAdded ==
    ASSUME UsageInv, NEW p \in Providers, NEW units \in Int, UNCHANGED clock,
           rows' = [rows EXCEPT ![p][Today] = @ + units], NEW q \in Providers
    PROVE  /\ MonthUse(q)' = IF q = p THEN MonthUse(p) + units ELSE MonthUse(q)
           /\ DayUse(q)' = IF q = p THEN DayUse(p) + units ELSE DayUse(q)
<1>1. /\ Today \in Days /\ Today \in Nat /\ FirstOfMonth \in 0..Today
      /\ rows[p] \in [Days -> Int]
  BY Calendar DEF UsageInv
<1>2. FirstOfMonth \in Int /\ Today \in Int /\ FirstOfMonth <= Today
  BY <1>1
<1>3. Today' = Today /\ FirstOfMonth' = FirstOfMonth
  BY DEF Today, FirstOfMonth
<1>4. CASE q = p
  <2>1. rows'[p] = [rows[p] EXCEPT ![Today] = @ + units]
    BY <1>1 DEF UsageInv
  <2>2. Total(rows'[p], FirstOfMonth, Today) = Total(rows[p], FirstOfMonth, Today) + units
    BY <1>1, <1>2, <2>1, TotalAdded
  <2>3. Total(rows'[p], Today, Today) = Total(rows[p], Today, Today) + units
    BY <1>1, <1>2, <2>1, TotalAdded
  <2>. QED
    BY <1>3, <1>4, <2>2, <2>3, MonthIsTotal
<1>5. CASE q # p
  <2>1. rows'[q] = rows[q]
    BY <1>5 DEF UsageInv
  <2>. QED
    BY <1>3, <1>5, <2>1, MonthIsTotal
<1>. QED
  BY <1>4, <1>5

\* Without a row nothing changes on a day.
LEMMA NoRow ==
    ASSUME UNCHANGED <<rows, clock>>, NEW q \in Providers
    PROVE  MonthUse(q)' = MonthUse(q) /\ DayUse(q)' = DayUse(q)
<1>1. Today' = Today /\ FirstOfMonth' = FirstOfMonth
  BY DEF Today, FirstOfMonth
<1>. QED
  BY <1>1, MonthIsTotal

LEMMA RowsDeleted ==
    ASSUME UsageInv, NEW p \in Providers, ResetQuota(p), NEW q \in Providers
    PROVE  /\ MonthUse(q)' = IF q = p THEN 0 ELSE MonthUse(q)
           /\ DayUse(q)' = IF q = p THEN 0 ELSE DayUse(q)
           /\ rows'[q] \in [Days -> Int]
<1>0. clock' = clock /\ UNCHANGED <<alerted, held>>
  BY DEF ResetQuota, alertVars
<1>1. /\ Today \in Days /\ Today \in Nat /\ FirstOfMonth \in 0..Today /\ Days \subseteq Nat
      /\ rows[p] \in [Days -> Int]
      /\ \A d \in Days : MonthOf(d) >= MonthOf(Today) <=> d >= FirstOfMonth
  BY Calendar DEF UsageInv
<1>2. FirstOfMonth \in Int /\ Today \in Int /\ FirstOfMonth <= Today
  BY <1>1
<1>3. Today' = Today /\ FirstOfMonth' = FirstOfMonth
  BY <1>0 DEF Today, FirstOfMonth
<1>4. CASE q = p
  <2>1. rows'[p] = [d \in Days |-> IF MonthOf(d) >= MonthOf(Today) THEN 0 ELSE rows[p][d]]
    BY DEF ResetQuota, UsageInv
  <2>2. rows'[p] \in [Days -> Int]
    BY <1>1, <2>1
  <2>3. 0..Today \subseteq Days
    BY <1>1, UsageAssumption DEF Days
  <2>4. \A d \in 0..Today : d >= FirstOfMonth => rows'[p][d] = 0
    BY <1>1, <2>1, <2>3
  <2>5. \A d \in 0..Today : d >= Today => rows'[p][d] = 0
    BY <1>1, <2>4
  <2>6. Total(rows'[p], FirstOfMonth, Today) = 0
    BY <1>1, <1>2, <2>2, <2>4, TotalZero
  <2>7. Total(rows'[p], Today, Today) = 0
    BY <1>1, <1>2, <2>2, <2>5, TotalZero
  <2>. QED
    BY <1>3, <1>4, <2>2, <2>6, <2>7, MonthIsTotal
<1>5. CASE q # p
  <2>1. rows'[q] = rows[q]
    BY <1>5 DEF ResetQuota, UsageInv
  <2>. QED
    BY <1>3, <1>5, <2>1, MonthIsTotal DEF UsageInv
<1>. QED
  BY <1>4, <1>5

\* The turn of the day, of the month, or neither.
LEMMA ClockTicks ==
    ASSUME UsageInv, Tick
    PROVE  /\ clock' \in Nat /\ clock' < (MaxDay + 1) * TicksPerDay
           /\ Today' \in Days /\ Today <= Today'
           /\ \/ \A q \in Providers : MonthUse(q)' = MonthUse(q) /\ DayUse(q)' = DayUse(q)
              \/ \A q \in Providers : MonthUse(q)' = MonthUse(q) /\ DayUse(q)' = 0
              \/ \A q \in Providers : MonthUse(q)' = 0 /\ DayUse(q)' = 0
<1>0. /\ clock' = clock + 1 /\ clock' < (MaxDay + 1) * TicksPerDay /\ rows' = rows
      /\ clock \in Nat /\ clock' \in Nat
  BY DEF Tick, UsageInv, usageVars
<1>1. /\ Today \in Days /\ Today \in Nat /\ FirstOfMonth \in 0..Today /\ Days \subseteq Nat
  BY Calendar DEF UsageInv
<1>2. TicksPerDay \in Nat \ {0} /\ DaysPerMonth \in Nat \ {0} /\ MaxDay \in Nat
  BY UsageAssumption
<1>3. Today' \in Days
  BY <1>0, <1>2, DayInRange DEF Today, Days
<1>4. Today' = Today \/ Today' = Today + 1
  BY <1>0, <1>2, NextQuotient DEF Today
<1>5. CASE Today' = Today
  <2>1. FirstOfMonth' = FirstOfMonth
    BY <1>5 DEF FirstOfMonth
  <2>. QED
    BY <1>0, <1>1, <1>3, <1>5, <2>1, MonthIsTotal
<1>6. CASE Today' = Today + 1
  <2>0. ASSUME NEW q \in Providers
        PROVE  /\ rows[q] \in [Days -> Int] /\ rows'[q] = rows[q] /\ rows[q][Today'] = 0
               /\ Total(rows[q], Today', Today') = 0
    <3>1. rows[q] \in [Days -> Int] /\ rows'[q] = rows[q] /\ rows[q][Today'] = 0
      BY <1>0, <1>1, <1>3, <1>6 DEF UsageInv
    <3>2. \A d \in 0..Today' : d >= Today' => rows[q][d] = 0
      BY <1>1, <1>6, <3>1
    <3>3. Today' \in Int
      BY <1>1, <1>6
    <3>4. Total(rows[q], Today', Today') = 0
      BY <1>3, <3>1, <3>2, <3>3, TotalZero
    <3>. QED
      BY <3>1, <3>4
  <2>1. ASSUME NEW q \in Providers PROVE DayUse(q)' = 0
    BY <2>0, <2>1, MonthIsTotal
  <2>2. Today' % DaysPerMonth = 0 \/ Today' % DaysPerMonth = (Today % DaysPerMonth) + 1
    BY <1>1, <1>2, <1>6, NextRemainder
  <2>3. CASE Today' % DaysPerMonth = 0
    <3>1. FirstOfMonth' = Today'
      BY <1>1, <1>6, <2>3 DEF FirstOfMonth
    <3>2. ASSUME NEW q \in Providers PROVE MonthUse(q)' = 0
      BY <2>0, <3>1, <3>2, MonthIsTotal
    <3>. QED
      BY <1>0, <1>1, <1>3, <1>6, <2>1, <3>2
  <2>4. CASE Today' % DaysPerMonth = (Today % DaysPerMonth) + 1
    <3>0. Today % DaysPerMonth \in Int
      BY <1>1, <1>2, Division
    <3>1. FirstOfMonth' = FirstOfMonth
      BY <1>1, <1>6, <2>4, <3>0 DEF FirstOfMonth
    <3>2. ASSUME NEW q \in Providers PROVE MonthUse(q)' = MonthUse(q)
      <4>1. FirstOfMonth \in Int /\ FirstOfMonth <= Today' /\ Today' # 0 /\ Today' - 1 = Today
        BY <1>1, <1>6
      <4>2. rows[q] \in [Days -> Int] /\ rows'[q] = rows[q] /\ rows[q][Today'] = 0
        BY <2>0
      <4>3. Total(rows[q], FirstOfMonth, Today')
              = rows[q][Today'] + (IF Today' = 0 THEN 0 ELSE Total(rows[q], FirstOfMonth, Today' - 1))
        BY <1>3, <4>1, <4>2, TotalStep
      <4>4. Total(rows[q], FirstOfMonth, Today) \in Int
        BY <1>1, <4>1, <4>2, TotalTyped
      <4>5. Total(rows[q], FirstOfMonth, Today') = Total(rows[q], FirstOfMonth, Today)
        BY <4>1, <4>2, <4>3, <4>4
      <4>. QED
        BY <3>1, <4>2, <4>5, MonthIsTotal
    <3>. QED
      BY <1>0, <1>1, <1>3, <1>6, <2>1, <3>2
  <2>. QED
    BY <2>2, <2>3, <2>4
<1>. QED
  BY <1>4, <1>5, <1>6

\* What an admin writes takes the month's use to what was asked for.
LEMMA OverrideTarget ==
    ASSUME NEW p \in Providers, NEW n \in Remaining, MonthlyLimit[p] # NoLimit
    PROVE  /\ Max({0, MonthlyLimit[p] - n}) = Promise!Target(p, n)
           /\ Promise!Target(p, n) \in Int
<1>1. MonthlyLimit[p] \in Int /\ n \in Int
  BY LimitsAssumption, AmountsAssumption
<1> DEFINE x == MonthlyLimit[p] - n
<1>2. x \in Int
  BY <1>1
<1>3. Promise!Target(p, n) = IF x > 0 THEN x ELSE 0
  BY DEF Promise!Target
<1> HIDE DEF x
<1>4. CASE x > 0
  <2>1. {0, x} \in SUBSET Int /\ x \in {0, x} /\ \A y \in {0, x} : y <= x
    BY <1>2, <1>4
  <2>2. Max({0, x}) = x
    BY ONLY <2>1, MaxKnown
  <2>. QED
    BY <1>2, <1>3, <1>4, <2>2 DEF x
<1>5. CASE ~(x > 0)
  <2>1. {0, x} \in SUBSET Int /\ 0 \in {0, x} /\ \A y \in {0, x} : y <= 0
    BY <1>2, <1>5
  <2>2. Max({0, x}) = 0
    BY ONLY <2>1, MaxKnown
  <2>. QED
    BY <1>3, <1>5, <2>2 DEF x
<1>. QED
  BY <1>4, <1>5

LEMMA UsageStep == UsageInv /\ [Next]_vars => UsageInv'
<1> SUFFICES ASSUME UsageInv, [Next]_vars PROVE UsageInv'
  OBVIOUS
<1>0. /\ Today \in Days /\ Today \in Nat /\ Days \subseteq Nat
      /\ clock' = clock => Today' = Today
  BY Calendar DEF UsageInv, Today
<1>1. ASSUME NEW p \in Providers, NEW units \in Int, AddRow(p, units), clock' = clock
      PROVE  /\ rows' \in [Providers -> [Days -> Int]]
             /\ \A q \in Providers : \A d \in Days : d > Today' => rows'[q][d] = 0
  BY <1>0, <1>1 DEF AddRow, UsageInv
<1>2. ASSUME NEW r \in Requests, NEW chain \in Chains, Admit(r, chain)
      PROVE  UsageInv'
  <2>1. ToSet(chain) \subseteq Providers
    BY UsageAssumption DEF ToSet
  <2>. QED
    BY <1>0, <1>2, <2>1 DEF Admit, UsageInv
<1>3. ASSUME NEW r \in Requests, NEW p \in Providers, NEW c \in Costs, Finish(r, p, c)
      PROVE  UsageInv'
  <2>1. c \in Int
    BY AmountsAssumption
  <2>2. AddRow(p, c) /\ clock' = clock /\ held' \in [Requests -> SUBSET Providers]
    BY <1>3 DEF Finish, alertVars, UsageInv
  <2>. QED
    BY <1>0, <1>1, <2>1, <2>2 DEF UsageInv
<1>4. ASSUME NEW r \in Requests, Fail(r)
      PROVE  UsageInv'
  BY <1>0, <1>4 DEF Fail, alertVars, UsageInv
<1>5. CASE GetSummary \/ OtherEvent \/ RunDispatch \/ UNCHANGED vars
  <2>1. UNCHANGED <<rows, held, clock>>
    BY <1>5 DEF GetSummary, OtherEvent, RunDispatch, Dispatch, usageVars, vars
  <2>. QED
    BY <1>0, <2>1 DEF UsageInv
<1>6. ASSUME NEW p \in Providers, NEW n \in Remaining, OverrideQuota(p, n)
      PROVE  UsageInv'
  <2>1. Max({0, MonthlyLimit[p] - n}) \in Int
    BY <1>6, OverrideTarget DEF OverrideQuota
  <2>2. Max({0, MonthlyLimit[p] - n}) - MonthUse(p) \in Int
    BY <2>1, UseTyped
  <2>3. /\ AddRow(p, Max({0, MonthlyLimit[p] - n}) - MonthUse(p))
        /\ clock' = clock /\ held' = held
    BY <1>6 DEF OverrideQuota
  <2>. QED
    BY <1>0, <1>1, <2>2, <2>3 DEF UsageInv
<1>7. ASSUME NEW p \in Providers, ResetQuota(p)
      PROVE  UsageInv'
  <2>1. clock' = clock /\ held' = held
        /\ rows' = [rows EXCEPT ![p] =
                      [d \in Days |-> IF MonthOf(d) >= MonthOf(Today) THEN 0 ELSE rows[p][d]]]
    BY <1>7 DEF ResetQuota, alertVars
  <2>. QED
    BY <1>0, <2>1 DEF UsageInv
<1>8. CASE Tick
  <2>1. rows' = rows /\ held' = held
    BY <1>8 DEF Tick, usageVars
  <2>2. /\ clock' \in Nat /\ clock' < (MaxDay + 1) * TicksPerDay
        /\ Today' \in Days /\ Today <= Today'
    BY <1>8, ClockTicks
  <2>3. ASSUME NEW q \in Providers, NEW d \in Days, d > Today' PROVE rows[q][d] = 0
    <3>1. d > Today
      BY <1>0, <2>2, <2>3
    <3>. QED
      BY <3>1 DEF UsageInv
  <2>. QED
    BY <2>1, <2>2, <2>3 DEF UsageInv
<1>9. CASE Restart
  BY <1>0, <1>9 DEF Restart, UsageInv
<1>. QED
  BY <1>2, <1>3, <1>4, <1>5, <1>6, <1>7, <1>8, <1>9 DEF Next

LEMMA UsageStart == Init => UsageInv
<1> SUFFICES ASSUME Init PROVE UsageInv
  OBVIOUS
<1>1. clock = 0
  BY DEF Init, AlertsInit
<1>2. 0 < (MaxDay + 1) * TicksPerDay
  BY UsageAssumption, Z3
<1>. QED
  BY <1>1, <1>2 DEF Init, UsageInv

LEMMA LogIsKept == Spec => []UsageInv
BY UsageStart, UsageStep, PTL DEF Spec

-----------------------------------------------------------------------------
(* The refinement                                                          *)

Months == [p \in Providers |-> MonthUse(p)]
DaysUse == [p \in Providers |-> DayUse(p)]

\* A provider is used up by the sums exactly if it is by the counters.
LEMMA UsedUpAlike ==
    ASSUME NEW p \in Providers
    PROVE  Promise!UsedUp(p) <=> Exhausted(p)
BY DEF Promise!UsedUp, Exhausted, Promise!Reached, Reached

LEMMA PromiseStarts == Init => Promise!PromiseInit
<1> SUFFICES ASSUME Init PROVE Promise!PromiseInit
  OBVIOUS
<1>1. UsageInv
  BY UsageStart
<1>2. ASSUME NEW p \in Providers PROVE MonthUse(p) = 0 /\ DayUse(p) = 0
  <2>1. Today \in Days /\ Today \in Nat /\ FirstOfMonth \in 0..Today /\ 0..Today \subseteq Days
    BY <1>1, Calendar, UsageAssumption DEF UsageInv, Days
  <2>2. FirstOfMonth \in Int /\ Today \in Int
    BY <2>1
  <2>3. rows[p] \in [Days -> Int] /\ \A d \in 0..Today : rows[p][d] = 0
    BY <2>1 DEF Init
  <2>4. Total(rows[p], FirstOfMonth, Today) = 0
    BY <2>1, <2>2, <2>3, TotalZero
  <2>5. Total(rows[p], Today, Today) = 0
    BY <2>1, <2>2, <2>3, TotalZero
  <2>. QED
    BY <2>4, <2>5, MonthIsTotal
<1>3. held = [r \in Requests |-> {}]
  BY DEF Init
<1>. QED
  BY <1>2, <1>3 DEF Promise!PromiseInit

LEMMA PromiseSteps == UsageInv /\ [Next]_vars => [Promise!PromiseNext]_(Promise!quotaVars)
<1> SUFFICES ASSUME UsageInv, [Next]_vars
             PROVE  Promise!PromiseNext \/ UNCHANGED Promise!quotaVars
  OBVIOUS
<1>0. ASSUME UNCHANGED <<rows, clock>>
      PROVE  UNCHANGED <<Months, DaysUse>>
  BY <1>0, NoRow DEF Months, DaysUse
<1>1. ASSUME NEW r \in Requests, NEW chain \in Chains, Admit(r, chain)
      PROVE  Promise!PromiseNext
  <2> DEFINE S == {p \in ToSet(chain) : ~(p \in Removes /\ Exhausted(p))}
  <2>1. S \in SUBSET Providers
    BY UsageAssumption DEF ToSet
  <2>2. \A p \in S : p \in Removes => ~Promise!UsedUp(p)
    BY <2>1, UsedUpAlike
  <2>3. UNCHANGED <<rows, clock>> /\ held[r] = {} /\ held' = [held EXCEPT ![r] = S]
    BY <1>1 DEF Admit
  <2>4. UNCHANGED <<Months, DaysUse>>
    BY <1>0, <2>3
  <2> HIDE DEF S
  <2>5. Promise!Admitted(r, S)
    BY <2>2, <2>3, <2>4 DEF Promise!Admitted, Months, DaysUse
  <2>. QED
    BY <2>1, <2>5 DEF Promise!PromiseNext
<1>2. ASSUME NEW r \in Requests, NEW p \in Providers, NEW c \in Costs, Finish(r, p, c)
      PROVE  Promise!PromiseNext
  <2>1. c \in Int
    BY AmountsAssumption
  <2>2. /\ held[r] # {} /\ p \in held[r] \cup Redirects /\ held' = [held EXCEPT ![r] = {}]
        /\ rows' = [rows EXCEPT ![p][Today] = @ + c] /\ clock' = clock
    BY <1>2 DEF Finish, AddRow, alertVars
  <2>3. /\ Months' = [Months EXCEPT ![p] = @ + c]
        /\ DaysUse' = [DaysUse EXCEPT ![p] = @ + c]
    BY <2>1, <2>2, RowAdded DEF Months, DaysUse
  <2>4. Promise!Charged(r, p, c)
    BY <2>2, <2>3 DEF Promise!Charged, Months, DaysUse
  <2>. QED
    BY <2>4 DEF Promise!PromiseNext
<1>3. ASSUME NEW S \in SUBSET Requests, UNCHANGED <<rows, clock>>,
             held' = [r \in Requests |-> IF r \in S THEN {} ELSE held[r]]
      PROVE  Promise!PromiseNext
  <2>1. UNCHANGED <<Months, DaysUse>>
    BY <1>0, <1>3
  <2>2. Promise!Dropped(S)
    BY <1>3, <2>1 DEF Promise!Dropped, Months, DaysUse
  <2>. QED
    BY <2>2 DEF Promise!PromiseNext
<1>4. ASSUME NEW r \in Requests, Fail(r)
      PROVE  Promise!PromiseNext
  <2>1. UNCHANGED <<rows, clock>> /\ held' = [held EXCEPT ![r] = {}]
    BY <1>4 DEF Fail, alertVars
  <2>2. held' = [q \in Requests |-> IF q \in {r} THEN {} ELSE held[q]]
    BY <2>1 DEF UsageInv
  <2>. QED
    BY <1>3, <2>1, <2>2
<1>5. CASE GetSummary \/ OtherEvent \/ RunDispatch \/ UNCHANGED vars
  <2>1. UNCHANGED <<rows, held, clock>>
    BY <1>5 DEF GetSummary, OtherEvent, RunDispatch, Dispatch, usageVars, vars
  <2>2. UNCHANGED <<Months, DaysUse>>
    BY <1>0, <2>1
  <2>. QED
    BY <2>1, <2>2 DEF Promise!quotaVars, Months, DaysUse
<1>6. ASSUME NEW p \in Providers, NEW n \in Remaining, OverrideQuota(p, n)
      PROVE  Promise!PromiseNext
  <2> DEFINE t == Promise!Target(p, n)
             units == t - MonthUse(p)
  <2>1. MonthlyLimit[p] # NoLimit /\ UNCHANGED <<clock, held>>
        /\ AddRow(p, Max({0, MonthlyLimit[p] - n}) - MonthUse(p))
    BY <1>6 DEF OverrideQuota
  <2>2. t \in Int /\ Max({0, MonthlyLimit[p] - n}) = t
    BY <2>1, OverrideTarget
  <2>3. MonthUse(p) \in Int /\ DayUse(p) \in Int
    BY UseTyped
  <2>4. rows' = [rows EXCEPT ![p][Today] = @ + units]
    BY <2>1, <2>2 DEF AddRow
  <2> HIDE DEF t
  <2>5. units \in Int /\ MonthUse(p) + units = t /\ DayUse(p) + units = DayUse(p) + t - MonthUse(p)
    BY <2>2, <2>3
  <2> HIDE DEF units
  <2>6. \A q \in Providers :
           /\ MonthUse(q)' = IF q = p THEN MonthUse(p) + units ELSE MonthUse(q)
           /\ DayUse(q)' = IF q = p THEN DayUse(p) + units ELSE DayUse(q)
    BY <2>1, <2>4, <2>5, RowAdded
  <2>7. /\ Months' = [Months EXCEPT ![p] = t]
        /\ DaysUse' = [DaysUse EXCEPT ![p] = @ + t - Months[p]]
    BY <2>5, <2>6 DEF Months, DaysUse
  <2>8. Promise!Overridden(p, n)
    BY <2>1, <2>7 DEF Promise!Overridden, Months, DaysUse, t
  <2>. QED
    BY <2>8 DEF Promise!PromiseNext
<1>7. ASSUME NEW p \in Providers, ResetQuota(p)
      PROVE  Promise!PromiseNext
  <2>1. held' = held
    BY <1>7 DEF ResetQuota
  <2>2. Months' = [Months EXCEPT ![p] = 0] /\ DaysUse' = [DaysUse EXCEPT ![p] = 0]
    BY <1>7, RowsDeleted DEF Months, DaysUse
  <2>3. Promise!Cleared(p)
    BY <2>1, <2>2 DEF Promise!Cleared, Months, DaysUse
  <2>. QED
    BY <2>3 DEF Promise!PromiseNext
<1>8. CASE Tick
  <2>1. held' = held
    BY <1>8 DEF Tick, usageVars
  <2>2. CASE \A q \in Providers : MonthUse(q)' = MonthUse(q) /\ DayUse(q)' = DayUse(q)
    BY <2>1, <2>2 DEF Promise!quotaVars
  <2>3. CASE \A q \in Providers : MonthUse(q)' = MonthUse(q) /\ DayUse(q)' = 0
    BY <2>1, <2>3 DEF Promise!NewDay, Promise!PromiseNext
  <2>4. CASE \A q \in Providers : MonthUse(q)' = 0 /\ DayUse(q)' = 0
    BY <2>1, <2>4 DEF Promise!NewMonth, Promise!PromiseNext
  <2>. QED
    BY <1>8, <2>2, <2>3, <2>4, ClockTicks
<1>9. CASE Restart
  <2>1. UNCHANGED <<rows, clock>> /\ held' = [r \in Requests |-> IF r \in Requests THEN {} ELSE held[r]]
    BY <1>9 DEF Restart
  <2>. QED
    BY <1>3, <2>1
<1>. QED
  BY <1>1, <1>2, <1>4, <1>5, <1>6, <1>7, <1>8, <1>9 DEF Next

\* The sums the two queries make are counters that start again with the month
\* and the day, whatever the calendar: every charge, override, reset, turn of the
\* day and restart of the log is a step of QuotaPromise or none at all.
THEOREM UsageKeepsPromise == Spec => KeepsPromise
<1>1. Init => Promise!PromiseInit
  BY PromiseStarts
<1>2. UsageInv /\ [Next]_vars => [Promise!PromiseNext]_(Promise!quotaVars)
  BY PromiseSteps
<1>. QED
  BY <1>1, <1>2, LogIsKept, PTL DEF Spec, KeepsPromise, Promise!PromiseSpec

-----------------------------------------------------------------------------
(* The bound on what a provider's month can come to                        *)

\* The limits, as far as the proofs need them.
LEMMA LimitsAreNumbers ==
    /\ \A p \in Promise!Capped : p \in Providers /\ MonthlyLimit[p] \in Nat
    /\ \A p \in Providers : MonthlyLimit[p] # NoLimit => MonthlyLimit[p] \in Nat
BY LimitsAssumption DEF Promise!Capped

\* Every provider's users are a finite set of requests.
LEMMA UsersCounted ==
    ASSUME NEW p \in Providers
    PROVE  /\ IsFiniteSet(Promise!Users(p))
           /\ Cardinality(Promise!Users(p)) \in 0..Cardinality(Requests)
           /\ Cardinality(Requests) \in Nat
<1>1. Promise!Users(p) \subseteq Requests
  BY DEF Promise!Users
<1>2. QED
  BY <1>1, RequestsAssumption, FS_Subset, FS_CardinalityType

\* One call more or fewer moves the bound by the dearest call.
LEMMA OneCall ==
    ASSUME NEW k \in Int, NEW c \in Int
    PROVE  (k + 1) * c = k * c + c
BY Z3

\* The bound is not below the limit.
LEMMA RoomLeft ==
    ASSUME NEW k \in Nat, NEW c \in Nat
    PROVE  k * c \in Nat
BY Z3

Bound(p) == MonthlyLimit[p] + Owed
            + (Cardinality(Requests) - Cardinality(Promise!Users(p))) * MaxCost

\* With fewer users a provider has at least as much room.
LEMMA FewerUsers ==
    ASSUME NEW p \in Promise!Capped, Promise!Users(p)' \subseteq Promise!Users(p)
    PROVE  Bound(p)' >= Bound(p) /\ Bound(p) \in Int /\ Bound(p)' \in Int
<1> DEFINE k == Cardinality(Requests) - Cardinality(Promise!Users(p))
           d == Cardinality(Promise!Users(p)) - Cardinality(Promise!Users(p)')
<1>1. p \in Providers /\ MonthlyLimit[p] \in Nat /\ Owed \in Nat /\ MaxCost \in Nat
  BY LimitsAreNumbers, AmountsAssumption
<1>2. Promise!Users(p) \subseteq Requests /\ Promise!Users(p)' \subseteq Requests
  BY DEF Promise!Users
<1>3. /\ IsFiniteSet(Promise!Users(p)) /\ IsFiniteSet(Promise!Users(p)')
      /\ Cardinality(Promise!Users(p)) \in Nat /\ Cardinality(Promise!Users(p)') \in Nat
      /\ Cardinality(Requests) \in Nat
      /\ Cardinality(Promise!Users(p)') <= Cardinality(Promise!Users(p))
  BY <1>2, RequestsAssumption, FS_Subset, FS_CardinalityType
<1>4. k \in Int /\ d \in Nat
  BY <1>3
<1>5. Cardinality(Requests) - Cardinality(Promise!Users(p)') = k + d
  BY <1>3
<1>6. d * MaxCost \in Nat /\ k * MaxCost \in Int
  BY <1>1, <1>4, RoomLeft
<1>7. (k + d) * MaxCost = k * MaxCost + d * MaxCost
  BY <1>1, <1>4, Z3
<1> HIDE DEF k, d
<1>8. Bound(p)' = MonthlyLimit[p] + Owed + (k + d) * MaxCost
  BY <1>5 DEF Bound
<1>9. Bound(p) = MonthlyLimit[p] + Owed + k * MaxCost
  BY DEF Bound, k
<1>10. QED
  BY <1>1, <1>6, <1>7, <1>8, <1>9

\* The bound is never below what an admin can set the month's use to.
LEMMA BoundAboveLimit ==
    ASSUME NEW p \in Promise!Capped
    PROVE  Bound(p) \in Int /\ Bound(p) >= MonthlyLimit[p] + Owed
<1> DEFINE k == Cardinality(Requests) - Cardinality(Promise!Users(p))
<1>1. p \in Providers /\ MonthlyLimit[p] \in Nat /\ Owed \in Nat /\ MaxCost \in Nat
  BY LimitsAreNumbers, AmountsAssumption
<1>2. k \in Nat
  BY <1>1, UsersCounted
<1>3. k * MaxCost \in Nat
  BY <1>1, <1>2, RoomLeft
<1> HIDE DEF k
<1>4. Bound(p) = MonthlyLimit[p] + Owed + k * MaxCost
  BY DEF Bound, k
<1>5. QED
  BY <1>1, <1>3, <1>4

\* When a request that held p is charged, its part of the room is used.
LEMMA UserLeaves ==
    ASSUME NEW p \in Promise!Capped, NEW r \in Requests,
           r \in Promise!Users(p), Promise!Users(p)' = Promise!Users(p) \ {r}
    PROVE  Bound(p)' = Bound(p) + MaxCost
<1> DEFINE k == Cardinality(Requests) - Cardinality(Promise!Users(p))
<1>1. p \in Providers /\ MonthlyLimit[p] \in Nat /\ Owed \in Nat /\ MaxCost \in Nat
  BY LimitsAreNumbers, AmountsAssumption
<1>2. IsFiniteSet(Promise!Users(p)) /\ Cardinality(Promise!Users(p)) \in Nat /\ k \in Nat
  BY <1>1, UsersCounted, FS_CardinalityType
<1>3. Cardinality(Promise!Users(p)') = Cardinality(Promise!Users(p)) - 1
  BY <1>2, FS_RemoveElement
<1>4. Cardinality(Requests) - Cardinality(Promise!Users(p)') = k + 1
  BY <1>2, <1>3, UsersCounted, <1>1
<1>5. (k + 1) * MaxCost = k * MaxCost + MaxCost
  BY <1>1, <1>2, OneCall
<1>6. k * MaxCost \in Nat
  BY <1>1, <1>2, RoomLeft
<1> HIDE DEF k
<1>7. Bound(p)' = MonthlyLimit[p] + Owed + (k + 1) * MaxCost
  BY <1>4 DEF Bound
<1>8. Bound(p) = MonthlyLimit[p] + Owed + k * MaxCost
  BY DEF Bound, k
<1>9. QED
  BY <1>1, <1>5, <1>6, <1>7, <1>8

\* A provider whose month is not used up is below its limit when a request is
\* admitted to it; the calls admitted then are all it can go beyond it.
Kept(p) == /\ Months[p] >= 0
           /\ p \in Promise!Capped => Months[p] <= Bound(p)

LEMMA SameCount ==
    ASSUME NEW S
    PROVE  Promise!Cardinality(S) = Cardinality(S)
BY DEF Promise!Cardinality, Cardinality

LEMMA AllKept ==
    /\ OvershootBounded <=> \A p \in Providers : Kept(p)
    /\ OvershootBounded' <=> \A p \in Providers : Kept(p)'
<1>1. \A p \in Providers : Months[p] = MonthUse(p) /\ Months'[p] = MonthUse(p)'
  BY DEF Months
<1>2. OvershootBounded <=> \A p \in Providers : Kept(p)
  BY <1>1, SameCount DEF OvershootBounded, Promise!OvershootBounded, Bound, Kept
<1>3. OvershootBounded' <=> \A p \in Providers : Kept(p)'
  BY <1>1, SameCount DEF OvershootBounded, Promise!OvershootBounded, Bound, Kept
<1>. QED
  BY <1>2, <1>3

LEMMA OvershootInductive ==
    ASSUME UsageInv, OvershootBounded, [Promise!PromiseNext]_(Promise!quotaVars)
    PROVE  OvershootBounded'
<1> SUFFICES ASSUME NEW p \in Providers
             PROVE  /\ Months'[p] >= 0
                    /\ p \in Promise!Capped => Months'[p] <= Bound(p)'
  BY AllKept DEF Kept
<1>a. /\ Months[p] \in Int /\ Months[p] >= 0
      /\ p \in Promise!Capped => Months[p] <= Bound(p)
  BY AllKept, UseTyped DEF Kept, Months
<1>c. held \in [Requests -> SUBSET Providers]
  BY DEF UsageInv
<1>b. Promise!Capped \subseteq Providers /\ Owed \in Nat /\ MaxCost \in Nat
  BY AmountsAssumption, LimitsAreNumbers
<1>1. ASSUME NEW r \in Requests, NEW S \in SUBSET Providers, Promise!Admitted(r, S)
      PROVE  /\ Months'[p] >= 0
             /\ p \in Promise!Capped => Months'[p] <= Bound(p)'
  <2>1. Months'[p] = Months[p]
    BY <1>1 DEF Promise!Admitted, Months
  <2>2. CASE p \in Promise!Capped /\ p \in S
    <3>1. ~Promise!UsedUp(p) /\ MonthlyLimit[p] \in Nat
      BY <1>1, <2>2, LimitsAreNumbers DEF Promise!Admitted, Promise!Capped, Months
    <3>2. Months[p] < MonthlyLimit[p]
      BY <1>a, <2>2, <3>1 DEF Promise!UsedUp, Promise!Reached, Promise!Capped, Months
    <3>3. Bound(p)' \in Int /\ Bound(p)' >= MonthlyLimit[p] + Owed
      <4>1. Promise!Users(p)' \subseteq Requests
        BY DEF Promise!Users
      <4>2. /\ Cardinality(Promise!Users(p)') \in 0..Cardinality(Requests)
            /\ Cardinality(Requests) \in Nat
        BY <4>1, RequestsAssumption, FS_Subset, FS_CardinalityType
      <4> DEFINE k == Cardinality(Requests) - Cardinality(Promise!Users(p)')
      <4>3. k \in Nat
        BY <4>2
      <4>4. k * MaxCost \in Nat
        BY <1>b, <4>3, RoomLeft
      <4> HIDE DEF k
      <4>5. Bound(p)' = MonthlyLimit[p] + Owed + k * MaxCost
        BY DEF Bound, k
      <4>6. QED
        BY <1>b, <3>1, <4>4, <4>5
    <3>4. QED
      BY <1>a, <1>b, <2>1, <3>1, <3>2, <3>3
  <2>3. CASE p \in Promise!Capped /\ p \notin S
    <3>1. Promise!Users(p)' \subseteq Promise!Users(p)
      BY <1>1, <2>3 DEF Promise!Users, Promise!Admitted, UsageInv, Months
    <3>2. QED
      BY <1>a, <2>1, <2>3, <3>1, FewerUsers
  <2>4. QED
    BY <1>a, <2>1, <2>2, <2>3
<1>2. ASSUME NEW r \in Requests, NEW q \in Providers, NEW c \in Costs, Promise!Charged(r, q, c)
      PROVE  /\ Months'[p] >= 0
             /\ p \in Promise!Capped => Months'[p] <= Bound(p)'
  <2>1. c \in Nat /\ c <= MaxCost
    BY AmountsAssumption
  <2>2. CASE p # q
    <3>1. Months'[p] = Months[p]
      BY <1>2, <2>2 DEF Promise!Charged, UsageInv, Months
    <3>2. Promise!Users(p)' \subseteq Promise!Users(p)
      BY <1>2 DEF Promise!Users, Promise!Charged, UsageInv, Months
    <3>3. QED
      BY <1>a, <3>1, <3>2, FewerUsers
  <2>3. CASE p = q
    <3>1. Months'[p] = Months[p] + c
      BY <1>2, <2>3 DEF Promise!Charged, UsageInv, Months
    <3>2. ASSUME p \in Promise!Capped
          PROVE  Months'[p] <= Bound(p)'
      <4>1. r \in Promise!Users(p)
        BY <1>2, <2>3, <3>2 DEF Promise!Users, Promise!Charged, Promise!Capped, Months
      <4>2. Promise!Users(p)' = Promise!Users(p) \ {r}
        BY <1>2 DEF Promise!Users, Promise!Charged, UsageInv, Months
      <4>3. Bound(p)' = Bound(p) + MaxCost
        BY <3>2, <4>1, <4>2, UserLeaves
      <4>4. Bound(p) \in Int
        BY <3>2, BoundAboveLimit
      <4>5. QED
        BY <1>a, <1>b, <2>1, <3>1, <3>2, <4>3, <4>4
    <3>3. QED
      BY <1>a, <2>1, <3>1, <3>2
  <2>4. QED
    BY <2>2, <2>3
<1>3. ASSUME NEW S \in SUBSET Requests, Promise!Dropped(S)
      PROVE  /\ Months'[p] >= 0
             /\ p \in Promise!Capped => Months'[p] <= Bound(p)'
  <2>1. Months'[p] = Months[p]
    BY <1>3 DEF Promise!Dropped, Months
  <2>2. Promise!Users(p)' \subseteq Promise!Users(p)
    BY <1>3 DEF Promise!Users, Promise!Dropped, UsageInv, Months
  <2>3. QED
    BY <1>a, <2>1, <2>2, FewerUsers
<1>4. ASSUME NEW q \in Providers, NEW n \in Remaining, Promise!Overridden(q, n)
      PROVE  /\ Months'[p] >= 0
             /\ p \in Promise!Capped => Months'[p] <= Bound(p)'
  <2>1. Promise!Users(p)' = Promise!Users(p) /\ Bound(p)' = Bound(p)
    BY <1>4 DEF Promise!Users, Bound, Promise!Overridden, Months
  <2>2. CASE p # q
    BY <1>4, <1>a, <2>1, <2>2 DEF Promise!Overridden, UsageInv, Months
  <2>3. CASE p = q
    <3>1. n \in Int /\ n >= 0 - Owed /\ MonthlyLimit[p] \in Nat
      BY <1>4, <2>3, AmountsAssumption, LimitsAreNumbers DEF Promise!Overridden, Months
    <3>2. Months'[p] = Promise!Target(p, n)
      BY <1>4, <2>3 DEF Promise!Overridden, UsageInv, Months
    <3>3. /\ Promise!Target(p, n) \in Nat
          /\ Promise!Target(p, n) <= MonthlyLimit[p] + Owed
      BY <1>b, <3>1 DEF Promise!Target
    <3>4. QED
      <4>1. ASSUME p \in Promise!Capped
            PROVE  Months'[p] <= Bound(p)'
        <5>1. Bound(p) \in Int /\ Bound(p) >= MonthlyLimit[p] + Owed
          BY <4>1, BoundAboveLimit
        <5>2. QED
          BY <1>a, <1>b, <2>1, <3>1, <3>2, <3>3, <5>1
      <4>2. QED
        BY <3>2, <3>3, <4>1
  <2>4. QED
    BY <2>2, <2>3
<1>5. ASSUME NEW q \in Providers, Promise!Cleared(q)
      PROVE  /\ Months'[p] >= 0
             /\ p \in Promise!Capped => Months'[p] <= Bound(p)'
  <2>1. Promise!Users(p)' = Promise!Users(p) /\ Bound(p)' = Bound(p)
    BY <1>5 DEF Promise!Users, Bound, Promise!Cleared, Months
  <2>2. Months'[p] = Months[p] \/ Months'[p] = 0
    BY <1>5 DEF Promise!Cleared, UsageInv, Months
  <2>3. p \in Promise!Capped => 0 <= Bound(p)
    BY <1>b, BoundAboveLimit, LimitsAreNumbers
  <2>4. QED
    BY <1>a, <2>1, <2>2, <2>3
<1>6. CASE Promise!NewDay \/ UNCHANGED Promise!quotaVars
  <2>1. Promise!Users(p)' = Promise!Users(p) /\ Bound(p)' = Bound(p) /\ Months'[p] = Months[p]
    BY <1>6 DEF Promise!Users, Bound, Promise!NewDay, Promise!quotaVars, Months
  <2>2. QED
    BY <1>a, <2>1
<1>7. CASE Promise!NewMonth
  <2>1. Promise!Users(p)' = Promise!Users(p) /\ Bound(p)' = Bound(p) /\ Months'[p] = 0
    BY <1>7 DEF Promise!Users, Bound, Promise!NewMonth, Months
  <2>2. p \in Promise!Capped => 0 <= Bound(p)
    BY <1>b, BoundAboveLimit, LimitsAreNumbers
  <2>3. QED
    BY <2>1, <2>2
<1>8. QED
  BY <1>1, <1>2, <1>3, <1>4, <1>5, <1>6, <1>7 DEF Promise!PromiseNext


\* The month's use, as it is read from the log, stays at or above zero and beyond
\* a limit only by what an admin put there and the calls admitted before it was
\* reached, for any number of requests, providers and any costs, across the turn
\* of the month, resets and restarts.
THEOREM OvershootIsBounded == Spec => []OvershootBounded
<1>1. Init => OvershootBounded
  <2> SUFFICES ASSUME Init, NEW p \in Providers
               PROVE  /\ Months[p] >= 0
                      /\ p \in Promise!Capped => Months[p] <= Bound(p)
    BY AllKept DEF Kept
  <2>1. Months[p] = 0
    <3>1. Promise!PromiseInit
      BY PromiseStarts
    <3>. QED
      BY <3>1 DEF Promise!PromiseInit, Months
  <2>2. p \in Promise!Capped => Bound(p) \in Int /\ 0 <= Bound(p)
    BY <2>1, BoundAboveLimit, LimitsAreNumbers, AmountsAssumption
  <2>3. QED
    BY <2>1, <2>2
<1>2. UsageInv /\ OvershootBounded /\ [Next]_vars => OvershootBounded'
  BY PromiseSteps, OvershootInductive
<1>3. QED
  BY <1>1, <1>2, LogIsKept, PTL DEF Spec

-----------------------------------------------------------------------------
(* The alerts                                                              *)

Alert(p) == Event("quota_alert", p)
Logged(ps) == FlattenSeq([i \in DOMAIN ps |-> Notices(ps, i)])

\* Dispatch tasks carry known events; the window of an event starts with the
\* last time it was tried, and is not open at all if it never was.
WindowsInv ==
    /\ tasks \in Seq(Keys(Providers))
    /\ last \in [Keys(Providers) -> Int]
    /\ tried \in [Keys(Providers) -> Int]
    /\ boots \in Nat
    /\ \A k \in Keys(Providers) :
          IF tried[k] = Never THEN last[k] = 0
          ELSE Suppress > 0 => last[k] = tried[k] + Uptime

\* An alert waits once at most and never after it was tried, and who waits or
\* was tried is flagged.  The alert of who is flagged waits or was tried, unless
\* nobody wants it or the machine is not up long enough for a first one.
Lossless == "quota_alert" \in Subscribed /\ Uptime >= Suppress

ToldInv ==
    \A p \in Providers :
        /\ Once(tasks, Alert(p))
        /\ tried[Alert(p)] # Never => ~Holds(tasks, Alert(p))
        /\ Holds(tasks, Alert(p)) \/ tried[Alert(p)] # Never => p \in alerted
        /\ Lossless /\ p \in alerted => Holds(tasks, Alert(p)) \/ tried[Alert(p)] # Never

AlertsInv == WindowsInv /\ ToldInv

LEMMA KeysKnown ==
    /\ \A e \in Events, p \in Providers : Event(e, p) \in Keys(Providers)
    /\ \A p \in Providers : Alert(p) \in Keys(Providers)
    /\ \A p, q : Alert(p) = Alert(q) => p = q
    /\ \A e, p, q : Event(e, q) = Alert(p) => e = "quota_alert" /\ p = q
    /\ OtherEvents \subseteq Keys(Providers)
    /\ \A e \in OtherEvents : \A p \in Providers : e # Alert(p)
<1>1. \A e \in Events, p \in Providers : Event(e, p) \in Keys(Providers)
  BY DEF Keys
<1>2. "quota_alert" \in Events /\ "circuit_open" \in Events /\ "injection_detected" \in Events
  BY DEF Events
<1>3. \A e, p, q : Event(e, q) = Alert(p) => e = "quota_alert" /\ p = q
  BY DEF Event, Alert
<1>4. \A o \in OtherEvents : \E e \in {"circuit_open", "injection_detected"}, p \in Providers :
         o = Event(e, p)
  BY UsageAssumption
<1>5. OtherEvents \subseteq Keys(Providers)
  BY <1>1, <1>2, <1>4
<1>6. \A e \in OtherEvents : \A p \in Providers : e # Alert(p)
  BY <1>3, <1>4
<1>. QED
  BY <1>1, <1>2, <1>3, <1>5, <1>6 DEF Alert

\* What reading one quota logs: an alert only for who was not read before.
LEMMA NoticesRead ==
    ASSUME NEW ps \in Seq(Providers), NEW i \in DOMAIN ps
    PROVE  /\ Notices(ps, i) \in Seq(Keys(Providers))
           /\ \A q \in Providers : Once(Notices(ps, i), Alert(q))
           /\ \A q \in Providers : Holds(Notices(ps, i), Alert(q)) <=>
                  q = ps[i] /\ AlertDue(q) /\ \A j \in 1..i-1 : ps[j] # q
<1> DEFINE p == ps[i]
           a == Event("quota_alert", p)
           e == Event("quota_exhausted", p)
           due == AlertDue(p) /\ \A j \in 1..i-1 : ps[j] # p
<1>0. p \in Providers
  OBVIOUS
<1>1. a \in Keys(Providers) /\ e \in Keys(Providers)
  BY <1>0, KeysKnown DEF Events
<1>2. \A q \in Providers : e # Alert(q) /\ (a = Alert(q) => q = p)
  <2>1. "quota_exhausted" # "quota_alert"
    OBVIOUS
  <2>. QED
    BY <2>1, KeysKnown
<1> HIDE DEF a, e
<1> DEFINE x == IF due THEN <<a>> ELSE <<>>
           y == IF Exhausted(p) THEN <<e>> ELSE <<>>
<1>3. Notices(ps, i) = x \o y
  BY DEF Notices, a, e
<1> HIDE DEF due
<1>4. x \in Seq(Keys(Providers)) /\ y \in Seq(Keys(Providers))
  BY <1>1
<1>5. \A q \in Providers : /\ Once(x, Alert(q)) /\ ~Holds(y, Alert(q)) /\ Once(y, Alert(q))
                           /\ Holds(x, Alert(q)) <=> q = p /\ due
  BY <1>2 DEF Once, Holds, a, Alert
<1> HIDE DEF x, y
<1>6. x \o y \in Seq(Keys(Providers))
  <2> HIDE DEF Keys
  <2>. QED
    BY <1>4
<1>7. \A q \in Providers : /\ Holds(x \o y, Alert(q)) <=> Holds(x, Alert(q)) \/ Holds(y, Alert(q))
                           /\ Once(x, Alert(q)) /\ Once(y, Alert(q))
                                /\ ~(Holds(x, Alert(q)) /\ Holds(y, Alert(q)))
                              => Once(x \o y, Alert(q))
  BY <1>4, Concatenated
<1>. QED
  BY <1>3, <1>5, <1>6, <1>7 DEF due

\* What reading the quotas of a sequence of providers logs: the alert of a provider is
\* among it once at most, and if and only if it was due.
LEMMA LoggedRead ==
    ASSUME NEW ps \in Seq(Providers)
    PROVE  /\ Logged(ps) \in Seq(Keys(Providers))
           /\ \A q \in Providers : Once(Logged(ps), Alert(q))
           /\ \A q \in Providers : Holds(Logged(ps), Alert(q)) <=> q \in ToSet(ps) /\ AlertDue(q)
<1> DEFINE A == Keys(Providers)
           seqs == [i \in DOMAIN ps |-> Notices(ps, i)]
<1>1. /\ Len(ps) \in Nat /\ DOMAIN ps = 1..Len(ps)
      /\ \A i \in DOMAIN ps : ps[i] \in Providers
  OBVIOUS
<1>2. \A i \in DOMAIN ps : Notices(ps, i) \in Seq(A)
  BY NoticesRead
<1> HIDE DEF A
<1>3. seqs \in Seq(Seq(A)) /\ DOMAIN seqs = DOMAIN ps
  BY <1>1, <1>2
<1>4. \A i \in DOMAIN ps : seqs[i] = Notices(ps, i)
  OBVIOUS
<1> HIDE DEF seqs
<1>5. ASSUME NEW q \in Providers
      PROVE  /\ Once(FlattenSeq(seqs), Alert(q))
             /\ Holds(FlattenSeq(seqs), Alert(q)) <=> q \in ToSet(ps) /\ AlertDue(q)
  <2>1. ASSUME NEW i \in DOMAIN seqs
        PROVE  /\ Once(seqs[i], Alert(q))
               /\ Holds(seqs[i], Alert(q)) <=>
                      q = ps[i] /\ AlertDue(q) /\ \A j \in 1..i-1 : ps[j] # q
    BY <1>3, <1>4, NoticesRead
  <2>2. ASSUME NEW i \in DOMAIN seqs, NEW j \in DOMAIN seqs,
               Holds(seqs[i], Alert(q)), Holds(seqs[j], Alert(q))
        PROVE  i = j
    <3>1. i \in Nat \ {0} /\ j \in Nat \ {0}
      BY <1>1, <1>3
    <3>2. ps[i] = q /\ ps[j] = q /\ i \notin 1..j-1 /\ j \notin 1..i-1
      BY <2>1, <2>2
    <3>. QED
      BY <3>1, <3>2
  <2>3. Once(FlattenSeq(seqs), Alert(q))
    BY <1>3, <2>1, <2>2, FlattenedHolds
  <2>4. ASSUME Holds(FlattenSeq(seqs), Alert(q))
        PROVE  q \in ToSet(ps) /\ AlertDue(q)
    <3>1. PICK i \in DOMAIN seqs : Holds(seqs[i], Alert(q))
      BY <1>3, <2>4, FlattenedHolds
    <3>. QED
      BY <1>3, <2>1, <3>1 DEF ToSet
  <2>5. ASSUME q \in ToSet(ps), AlertDue(q)
        PROVE  Holds(FlattenSeq(seqs), Alert(q))
    <3> DEFINE places == {i \in DOMAIN ps : ps[i] = q}
               first == Min(places)
    <3>1. places # {} /\ places \in SUBSET Nat
      BY <1>1, <2>5 DEF ToSet
    <3>2. first \in places /\ \A i \in places : first <= i
      <4> HIDE DEF places
      <4>. QED
        BY <3>1, MinExists
    <3> HIDE DEF first
    <3>3. first \in DOMAIN seqs /\ ps[first] = q
      BY <1>3, <3>2
    <3>4. \A j \in 1..first-1 : ps[j] # q
      BY <1>1, <3>2
    <3>5. Holds(seqs[first], Alert(q))
      BY <2>1, <2>5, <3>3, <3>4
    <3>. QED
      BY <1>3, <3>3, <3>5, FlattenedHolds
  <2>. QED
    BY <2>3, <2>4, <2>5
<1>6. FlattenSeq(seqs) \in Seq(A)
  BY <1>3, FlattenedHolds
<1>. QED
  BY <1>5, <1>6 DEF Logged, seqs, A

\* Events that hold no alert that waits or was tried leave the alerts in order.
LEMMA EventsLogged ==
    ASSUME AlertsInv, NEW es \in Seq(Keys(Providers)), LogEvents(es),
           UNCHANGED <<last, tried, boots>>,
           \A p \in Providers : Once(es, Alert(p)),
           \A p \in Providers : Holds(es, Alert(p)) => p \notin alerted /\ p \in alerted',
           alerted \subseteq alerted',
           \A p \in Providers : p \in alerted' \ alerted => Holds(es, Alert(p))
    PROVE  AlertsInv'
<1>1. tasks' = tasks \o es /\ tasks \in Seq(Keys(Providers)) /\ es \in Seq(Keys(Providers))
  BY DEF LogEvents, AlertsInv, WindowsInv
<1> HIDE DEF Keys
<1>2. tasks' \in Seq(Keys(Providers))
  BY <1>1
<1>3. WindowsInv'
  BY <1>2 DEF AlertsInv, WindowsInv
<1>4. ASSUME NEW p \in Providers
      PROVE  /\ Once(tasks', Alert(p))
             /\ tried[Alert(p)] # Never => ~Holds(tasks', Alert(p))
             /\ Holds(tasks', Alert(p)) \/ tried[Alert(p)] # Never => p \in alerted'
             /\ Lossless /\ p \in alerted' => Holds(tasks', Alert(p)) \/ tried[Alert(p)] # Never
  <2>1. /\ Once(tasks, Alert(p))
        /\ tried[Alert(p)] # Never => ~Holds(tasks, Alert(p))
        /\ Holds(tasks, Alert(p)) \/ tried[Alert(p)] # Never => p \in alerted
        /\ Lossless /\ p \in alerted => Holds(tasks, Alert(p)) \/ tried[Alert(p)] # Never
    BY DEF AlertsInv, ToldInv
  <2>2. /\ Once(es, Alert(p))
        /\ Holds(es, Alert(p)) => p \notin alerted /\ p \in alerted'
        /\ p \in alerted => p \in alerted'
        /\ p \in alerted' => p \in alerted \/ Holds(es, Alert(p))
    OBVIOUS
  <2>3. /\ Holds(tasks \o es, Alert(p)) <=> Holds(tasks, Alert(p)) \/ Holds(es, Alert(p))
        /\ Once(tasks, Alert(p)) /\ Once(es, Alert(p)) /\ ~(Holds(tasks, Alert(p)) /\ Holds(es, Alert(p)))
              => Once(tasks \o es, Alert(p))
    BY <1>1, Concatenated
  <2>. QED
    BY <1>1, <2>1, <2>2, <2>3
<1>5. ToldInv'
  BY <1>4 DEF ToldInv, Once, Holds, Alert, Event
<1>. QED
  BY <1>3, <1>5 DEF AlertsInv

LEMMA QuotasReadLogged ==
    ASSUME AlertsInv, NEW ps \in Seq(Providers), QuotasRead(ps),
           UNCHANGED <<last, tried, boots>>
    PROVE  AlertsInv'
<1>1. /\ Logged(ps) \in Seq(Keys(Providers))
      /\ \A q \in Providers : Once(Logged(ps), Alert(q))
      /\ \A q \in Providers : Holds(Logged(ps), Alert(q)) <=> q \in ToSet(ps) /\ AlertDue(q)
  BY LoggedRead
<1>2. LogEvents(Logged(ps)) /\ alerted' = alerted \cup {p \in ToSet(ps) : AlertDue(p)}
  BY DEF QuotasRead, Logged
<1>3. \A q \in Providers : AlertDue(q) => q \notin alerted
  BY DEF AlertDue
<1>4. \A q \in Providers : Holds(Logged(ps), Alert(q)) => q \notin alerted /\ q \in alerted'
  BY <1>1, <1>2, <1>3
<1>5. \A q \in Providers : q \in alerted' \ alerted => Holds(Logged(ps), Alert(q))
  BY <1>1, <1>2
<1>. QED
  BY <1>1, <1>2, <1>4, <1>5, EventsLogged

\* What a dispatch takes from the tasks.
LEMMA TaskTaken ==
    ASSUME tasks \in Seq(Keys(Providers)), tasks # <<>>, tasks' = Tail(tasks)
    PROVE  /\ Head(tasks) \in Keys(Providers) /\ tasks' \in Seq(Keys(Providers))
           /\ \A k : Once(tasks, k) => /\ Once(tasks', k)
                                       /\ Head(tasks) = k => ~Holds(tasks', k)
           /\ \A k : Holds(tasks', k) => Holds(tasks, k)
           /\ \A k : Holds(tasks, k) => Holds(tasks', k) \/ Head(tasks) = k
           /\ \A k : Head(tasks) = k => Holds(tasks, k)
           /\ Len(tasks') < Len(tasks)
<1> HIDE DEF Keys
<1>1. /\ Head(tasks) \in Keys(Providers) /\ Head(tasks) = tasks[1] /\ 1 \in DOMAIN tasks
      /\ tasks' \in Seq(Keys(Providers)) /\ Len(tasks') < Len(tasks)
  OBVIOUS
<1>2. \A i \in DOMAIN tasks' : i + 1 \in DOMAIN tasks /\ tasks'[i] = tasks[i + 1] /\ i \in Nat /\ i # 0
  OBVIOUS
<1>3. ASSUME NEW k, Once(tasks, k) PROVE Once(tasks', k)
  <2> SUFFICES ASSUME NEW i \in DOMAIN tasks', NEW j \in DOMAIN tasks',
                      tasks'[i] = k, tasks'[j] = k
               PROVE  i = j
    BY DEF Once
  <2>1. i + 1 = j + 1 /\ i \in Nat /\ j \in Nat
    BY <1>2, <1>3 DEF Once
  <2>. QED
    BY <2>1
<1>4. ASSUME NEW k, Once(tasks, k), Head(tasks) = k, Holds(tasks', k) PROVE FALSE
  <2>1. PICK i \in DOMAIN tasks' : tasks'[i] = k
    BY <1>4 DEF Holds
  <2>2. i + 1 = 1 /\ i \in Nat /\ i # 0
    BY <1>1, <1>2, <1>4, <2>1 DEF Once
  <2>. QED
    BY <2>2
<1>5. \A k : Holds(tasks', k) => Holds(tasks, k)
  BY <1>2 DEF Holds
<1>6. \A k : Head(tasks) = k => Holds(tasks, k)
  BY <1>1 DEF Holds
<1>7. \A i \in DOMAIN tasks : i = 1 \/ (i - 1 \in DOMAIN tasks' /\ tasks'[i - 1] = tasks[i])
  OBVIOUS
<1>8. \A k : Holds(tasks, k) => Holds(tasks', k) \/ Head(tasks) = k
  BY <1>1, <1>7 DEF Holds
<1>. QED
  BY <1>1, <1>3, <1>4, <1>5, <1>6, <1>8

LEMMA AlertsStart == Init => AlertsInv
<1> SUFFICES ASSUME Init PROVE AlertsInv
  OBVIOUS
<1>1. /\ tasks = <<>> /\ boots = 0
      /\ last = [k \in Keys(Providers) |-> 0]
      /\ tried = [k \in Keys(Providers) |-> Never]
  BY DEF Init, AlertsInit
<1>2. Never \in Int
  BY DEF Never
<1>3. WindowsInv
  BY <1>1, <1>2 DEF WindowsInv
<1>4. \A p \in Providers : tried[Alert(p)] = Never /\ ~Holds(tasks, Alert(p)) /\ Once(tasks, Alert(p))
  BY <1>1, KeysKnown DEF Holds, Once
<1>5. alerted = {}
  BY DEF Init
<1>. QED
  BY <1>3, <1>4, <1>5 DEF AlertsInv, ToldInv

LEMMA DispatchRuns ==
    ASSUME UsageInv, AlertsInv, Dispatch, UNCHANGED <<alerted, boots>>
    PROVE  AlertsInv'
<1> DEFINE e == Head(tasks)
           goes == ShouldDispatch(e) /\ ~Suppressed(e)
<1>1. /\ tasks \in Seq(Keys(Providers)) /\ tasks # <<>> /\ tasks' = Tail(tasks)
  BY DEF Dispatch, AlertsInv, WindowsInv
<1>2. /\ e \in Keys(Providers) /\ tasks' \in Seq(Keys(Providers))
      /\ \A k : Once(tasks, k) => Once(tasks', k) /\ (e = k => ~Holds(tasks', k))
      /\ \A k : Holds(tasks', k) => Holds(tasks, k)
      /\ \A k : Holds(tasks, k) => Holds(tasks', k) \/ e = k
      /\ Holds(tasks, e)
  BY <1>1, TaskTaken
<1>3. /\ last' = IF goes /\ Suppress > 0 THEN [last EXCEPT ![e] = Monotonic] ELSE last
      /\ tried' = IF goes THEN [tried EXCEPT ![e] = clock] ELSE tried
      /\ clock \in Nat
  BY DEF Dispatch, UsageInv
<1>4. /\ last \in [Keys(Providers) -> Int] /\ tried \in [Keys(Providers) -> Int] /\ boots \in Nat
      /\ \A k \in Keys(Providers) :
            IF tried[k] = Never THEN last[k] = 0
            ELSE Suppress > 0 => last[k] = tried[k] + Uptime
  BY DEF AlertsInv, WindowsInv
<1>5. Monotonic \in Int /\ Monotonic = clock + Uptime /\ clock # Never
  BY <1>3, AlertsAssumption DEF Monotonic, Never
<1>11. ASSUME NEW p \in Providers, Lossless, e = Alert(p), tried[e] = Never PROVE goes
  <2>1. e.event = "quota_alert"
    BY <1>11 DEF Alert, Event
  <2>2. last[e] = 0
    BY <1>2, <1>4, <1>11
  <2>3. ~(Suppress > 0 /\ Monotonic - last[e] < Suppress)
    BY <1>3, <1>5, <1>11, <2>2, AlertsAssumption DEF Lossless
  <2>. QED
    BY <1>11, <2>1, <2>3 DEF Lossless, ShouldDispatch, Suppressed
<1> HIDE DEF e, goes, Keys
<1>6. last' \in [Keys(Providers) -> Int] /\ tried' \in [Keys(Providers) -> Int]
  <2>1. last' \in [Keys(Providers) -> Int]
    BY <1>3, <1>4, <1>5
  <2>2. tried' \in [Keys(Providers) -> Int]
    <3>1. clock \in Int /\ (tried' = tried \/ tried' = [tried EXCEPT ![e] = clock])
      BY <1>3
    <3>2. tried \in [Keys(Providers) -> Int]
      BY <1>4
    <3>. QED
      BY ONLY <3>1, <3>2
  <2>. QED
    BY <2>1, <2>2
<1>7. ASSUME NEW k \in Keys(Providers)
      PROVE  IF tried'[k] = Never THEN last'[k] = 0
             ELSE Suppress > 0 => last'[k] = tried'[k] + Uptime
  <2>1. CASE goes /\ k = e
    BY <1>2, <1>3, <1>4, <1>5, <2>1
  <2>2. CASE ~(goes /\ k = e)
    <3>1. last'[k] = last[k] /\ tried'[k] = tried[k]
      BY <1>2, <1>3, <1>4, <2>2
    <3>. QED
      BY <1>4, <3>1
  <2>. QED
    BY <2>1, <2>2
<1>8. WindowsInv'
  BY <1>2, <1>4, <1>6, <1>7 DEF WindowsInv, Never, Keys, Event, Events
<1>9. ASSUME NEW p \in Providers
      PROVE  /\ Once(tasks', Alert(p))
             /\ tried'[Alert(p)] # Never => ~Holds(tasks', Alert(p))
             /\ Holds(tasks', Alert(p)) \/ tried'[Alert(p)] # Never => p \in alerted
             /\ Lossless /\ p \in alerted => Holds(tasks', Alert(p)) \/ tried'[Alert(p)] # Never
  <2>1. /\ Once(tasks, Alert(p))
        /\ tried[Alert(p)] # Never => ~Holds(tasks, Alert(p))
        /\ Holds(tasks, Alert(p)) \/ tried[Alert(p)] # Never => p \in alerted
        /\ Lossless /\ p \in alerted => Holds(tasks, Alert(p)) \/ tried[Alert(p)] # Never
    BY DEF AlertsInv, ToldInv
  <2>2. tried'[Alert(p)] = tried[Alert(p)] \/ Alert(p) = e
    BY <1>2, <1>3, <1>4, KeysKnown
  <2>3. Lossless /\ Alert(p) = e => tried'[Alert(p)] # Never
    <3>1. Lossless /\ Alert(p) = e => goes
      BY <1>2, <1>11, <2>1
    <3>. QED
      BY <1>2, <1>3, <1>4, <1>5, <3>1
  <2>. QED
    BY <1>2, <2>1, <2>2, <2>3
<1>10. ToldInv'
  BY <1>9 DEF ToldInv, Once, Holds, Alert, Event, Never
<1>. QED
  BY <1>8, <1>10 DEF AlertsInv

LEMMA AlertsStep == UsageInv /\ AlertsInv /\ [Next]_vars => AlertsInv'
<1> SUFFICES ASSUME UsageInv, AlertsInv, [Next]_vars PROVE AlertsInv'
  OBVIOUS
<1>1. ASSUME NEW r \in Requests, NEW chain \in Chains, Admit(r, chain)
      PROVE  AlertsInv'
  <2>1. chain \in Seq(Providers)
    BY UsageAssumption
  <2>. QED
    BY <1>1, <2>1, QuotasReadLogged DEF Admit
<1>2. CASE GetSummary
  <2>1. PICK ps \in SetToSeqs(Providers) : QuotasRead(ps)
    BY <1>2 DEF GetSummary
  <2>2. Cardinality(Providers) \in Nat
    BY UsageAssumption, FS_CardinalityType
  <2>3. ps \in Seq(Providers)
    BY <2>2 DEF SetToSeqs
  <2>. QED
    BY <1>2, <2>1, <2>3, QuotasReadLogged DEF GetSummary
<1>3. ASSUME NEW p \in Providers, NEW n \in Remaining, OverrideQuota(p, n)
      PROVE  AlertsInv'
  <2>1. <<p>> \in Seq(Providers)
    OBVIOUS
  <2>. QED
    BY <1>3, <2>1, QuotasReadLogged DEF OverrideQuota
<1>4. CASE OtherEvent
  <2>1. PICK e \in OtherEvents : LogEvents(<<e>>)
    BY <1>4 DEF OtherEvent
  <2>2. e \in Keys(Providers) /\ \A p \in Providers : e # Alert(p)
    BY KeysKnown
  <2>3. <<e>> \in Seq(Keys(Providers))
    BY <2>2
  <2>4. \A p \in Providers : Once(<<e>>, Alert(p)) /\ ~Holds(<<e>>, Alert(p))
    BY <2>2 DEF Once, Holds
  <2>5. UNCHANGED <<last, tried, boots, alerted>>
    BY <1>4 DEF OtherEvent, usageVars
  <2>. QED
    BY <2>1, <2>3, <2>4, <2>5, EventsLogged
<1>5. CASE RunDispatch
  BY <1>5, DispatchRuns DEF RunDispatch, usageVars
<1>6. CASE Restart
  <2>1. /\ tasks' = <<>> /\ alerted' = {} /\ boots' = boots + 1
        /\ last' = [k \in Keys(Providers) |-> 0]
        /\ tried' = [k \in Keys(Providers) |-> Never]
        /\ boots \in Nat
    BY <1>6 DEF Restart, ForgetAlerts, AlertsInv, WindowsInv
  <2>2. \A k \in Keys(Providers) : tried'[k] = Never /\ last'[k] = 0
    BY <2>1
  <2>3. WindowsInv'
    BY <2>1, <2>2 DEF WindowsInv, Never, Keys, Event, Events
  <2>4. \A p \in Providers : tried'[Alert(p)] = Never
    BY <2>2, KeysKnown
  <2>5. \A k : Once(tasks', k) /\ ~Holds(tasks', k)
    BY <2>1 DEF Once, Holds
  <2>6. ToldInv'
    <3>1. \A p \in Providers :
             /\ Once(tasks', Alert(p))
             /\ tried'[Alert(p)] # Never => ~Holds(tasks', Alert(p))
             /\ Holds(tasks', Alert(p)) \/ tried'[Alert(p)] # Never => p \in alerted'
             /\ Lossless /\ p \in alerted' => Holds(tasks', Alert(p)) \/ tried'[Alert(p)] # Never
      BY <2>1, <2>4, <2>5
    <3>. QED
      BY <3>1 DEF ToldInv, Once, Holds, Alert, Event, Never
  <2>. QED
    BY <2>3, <2>6 DEF AlertsInv
<1>7. ASSUME UNCHANGED <<tasks, last, tried, alerted, boots>>
      PROVE  AlertsInv'
  BY <1>7 DEF AlertsInv, WindowsInv, ToldInv, Once, Holds
<1>8. ASSUME NEW r \in Requests, NEW p \in Providers, NEW c \in Costs, Finish(r, p, c)
      PROVE  AlertsInv'
  BY <1>7, <1>8 DEF Finish, alertVars
<1>9. ASSUME NEW r \in Requests, Fail(r) PROVE AlertsInv'
  BY <1>7, <1>9 DEF Fail, alertVars
<1>10. ASSUME NEW p \in Providers, ResetQuota(p) PROVE AlertsInv'
  BY <1>7, <1>10 DEF ResetQuota, alertVars
<1>11. CASE Tick
  BY <1>7, <1>11 DEF Tick, usageVars
<1>12. CASE UNCHANGED vars
  BY <1>7, <1>12 DEF vars
<1>. QED
  BY <1>1, <1>2, <1>3, <1>4, <1>5, <1>6, <1>8, <1>9, <1>10, <1>11, <1>12 DEF Next

LEMMA AlertsInOrder == Spec => []AlertsInv
BY AlertsStart, AlertsStep, LogIsKept, PTL DEF Spec

\* The alert of a threshold is raised once in a process for who is flagged, and for
\* nobody else, whoever reads the quotas, however often and in whatever order, and
\* over the turn of the month; it is not lost if it is subscribed to and the machine
\* is up for suppress_seconds.
THEOREM ThresholdIsToldOnce == Spec => []ThresholdToldOnce
<1>1. AlertsInv => ThresholdToldOnce
  <2> SUFFICES ASSUME AlertsInv, NEW p \in Providers,
                      NEW W, W = {i \in DOMAIN tasks : tasks[i] = Alert(p)}
               PROVE  /\ Cardinality(W) + (IF tried[Alert(p)] = Never THEN 0 ELSE 1) <= 1
                      /\ Cardinality(W) > 0 \/ tried[Alert(p)] # Never => p \in alerted
                      /\ p \in alerted /\ Lossless =>
                           Cardinality(W) > 0 \/ tried[Alert(p)] # Never
    BY DEF ThresholdToldOnce, Alert, Lossless
  <2>1. /\ Once(tasks, Alert(p))
        /\ tried[Alert(p)] # Never => ~Holds(tasks, Alert(p))
        /\ Holds(tasks, Alert(p)) \/ tried[Alert(p)] # Never => p \in alerted
    BY DEF AlertsInv, ToldInv
  <2>0. Lossless /\ p \in alerted => Holds(tasks, Alert(p)) \/ tried[Alert(p)] # Never
    BY DEF AlertsInv, ToldInv
  <2>2. CASE Holds(tasks, Alert(p))
    <3>1. PICK i : W = {i}
      BY <2>1, <2>2 DEF Once, Holds
    <3>2. Cardinality(W) = 1
      BY <3>1, FS_Singleton
    <3>. QED
      BY <2>1, <2>2, <3>2
  <2>3. CASE ~Holds(tasks, Alert(p))
    <3>1. W = {}
      BY <2>3 DEF Holds
    <3>2. Cardinality(W) = 0
      BY <3>1, FS_EmptySet
    <3>. QED
      BY <2>0, <2>1, <2>3, <3>2
  <2>. QED
    BY <2>2, <2>3
<1>. QED
  BY <1>1, AlertsInOrder, PTL

\* Logging takes no task away.
LEMMA LoggingAdds ==
    ASSUME AlertsInv, NEW ps \in Seq(Providers), QuotasRead(ps)
    PROVE  ~(Len(tasks') < Len(tasks))
<1>1. Logged(ps) \in Seq(Keys(Providers)) /\ tasks \in Seq(Keys(Providers))
      /\ tasks' = tasks \o Logged(ps)
  BY LoggedRead DEF QuotasRead, LogEvents, Logged, AlertsInv, WindowsInv
<1> HIDE DEF Keys
<1>2. Len(tasks \o Logged(ps)) = Len(tasks) + Len(Logged(ps))
      /\ Len(tasks) \in Nat /\ Len(Logged(ps)) \in Nat
  BY <1>1
<1>. QED
  BY <1>1, <1>2

\* Only a dispatch takes one.
LEMMA OnlyDispatch ==
    ASSUME UsageInv, AlertsInv, [Next]_vars, boots' = boots, Len(tasks') < Len(tasks)
    PROVE  Dispatch
<1>0. tasks \in Seq(Keys(Providers)) /\ Len(tasks) \in Nat /\ boots \in Nat
  BY DEF AlertsInv, WindowsInv
<1>1. ASSUME NEW r \in Requests, NEW chain \in Chains, Admit(r, chain) PROVE FALSE
  <2>1. chain \in Seq(Providers)
    BY UsageAssumption
  <2>. QED
    BY <1>1, <2>1, LoggingAdds DEF Admit
<1>2. CASE GetSummary
  <2>1. PICK ps \in SetToSeqs(Providers) : QuotasRead(ps)
    BY <1>2 DEF GetSummary
  <2>2. Cardinality(Providers) \in Nat
    BY UsageAssumption, FS_CardinalityType
  <2>3. ps \in Seq(Providers)
    BY <2>2 DEF SetToSeqs
  <2>. QED
    BY <2>1, <2>3, LoggingAdds
<1>3. ASSUME NEW p \in Providers, NEW n \in Remaining, OverrideQuota(p, n) PROVE FALSE
  <2>1. <<p>> \in Seq(Providers)
    OBVIOUS
  <2>. QED
    BY <1>3, <2>1, LoggingAdds DEF OverrideQuota
<1>4. CASE OtherEvent
  <2>1. PICK e \in OtherEvents : LogEvents(<<e>>)
    BY <1>4 DEF OtherEvent
  <2>2. e \in Keys(Providers) /\ tasks' = tasks \o <<e>>
    BY <2>1, KeysKnown DEF LogEvents
  <2> HIDE DEF Keys
  <2>3. Len(tasks \o <<e>>) = Len(tasks) + 1
    BY <1>0, <2>2
  <2>. QED
    BY <1>0, <2>2, <2>3
<1>5. CASE Restart
  BY <1>0, <1>5 DEF Restart
<1>6. ASSUME tasks' = tasks PROVE FALSE
  BY <1>0, <1>6
<1>7. ASSUME NEW r \in Requests, NEW p \in Providers, NEW c \in Costs, Finish(r, p, c) PROVE FALSE
  BY <1>6, <1>7 DEF Finish, alertVars
<1>8. ASSUME NEW r \in Requests, Fail(r) PROVE FALSE
  BY <1>6, <1>8 DEF Fail, alertVars
<1>9. ASSUME NEW p \in Providers, ResetQuota(p) PROVE FALSE
  BY <1>6, <1>9 DEF ResetQuota, alertVars
<1>10. CASE Tick
  BY <1>6, <1>10 DEF Tick
<1>11. CASE UNCHANGED vars
  BY <1>6, <1>11 DEF vars
<1>. QED
  BY <1>1, <1>2, <1>3, <1>4, <1>5, <1>7, <1>8, <1>9, <1>10, <1>11 DEF Next, RunDispatch

Covered ==
    (boots' = boots /\ Len(tasks') < Len(tasks) /\ tried' = tried) =>
        LET e == Head(tasks)
        IN  \/ e.event \notin Subscribed
            \/ Monotonic < Suppress
            \/ tried[e] # Never /\ clock - tried[e] < Suppress
            \/ tried[e] = clock

\* An alert is withheld only for one that was tried less than suppress_seconds
\* before, or while the machine has not been up that long, for any events,
\* subscriptions and restarts.
THEOREM WithheldAreCovered == Spec => WithheldOnlyCovered
<1>1. UsageInv /\ AlertsInv /\ [Next]_vars => Covered
  <2> SUFFICES ASSUME UsageInv, AlertsInv, [Next]_vars,
                      boots' = boots, Len(tasks') < Len(tasks), tried' = tried,
                      NEW e, e = Head(tasks)
               PROVE  \/ e.event \notin Subscribed
                      \/ Monotonic < Suppress
                      \/ tried[e] # Never /\ clock - tried[e] < Suppress
                      \/ tried[e] = clock
    BY DEF Covered
  <2>1. Dispatch
    BY OnlyDispatch
  <2>2. /\ tasks \in Seq(Keys(Providers)) /\ tasks # <<>> /\ tasks' = Tail(tasks)
        /\ last \in [Keys(Providers) -> Int] /\ tried \in [Keys(Providers) -> Int]
        /\ \A k \in Keys(Providers) :
              IF tried[k] = Never THEN last[k] = 0
              ELSE Suppress > 0 => last[k] = tried[k] + Uptime
    BY <2>1 DEF Dispatch, AlertsInv, WindowsInv
  <2>3. e \in Keys(Providers)
    BY <2>2, TaskTaken
  <2>4. clock \in Nat /\ Uptime \in Nat /\ Suppress \in Nat /\ Monotonic = clock + Uptime
    BY AlertsAssumption DEF UsageInv, Monotonic
  <2>5. last[e] \in Int /\ tried[e] \in Int
    BY <2>2, <2>3
  <2>6. CASE ShouldDispatch(e) /\ ~Suppressed(e)
    <3>1. tried' = [tried EXCEPT ![e] = clock]
      BY <2>1, <2>6 DEF Dispatch
    <3>. QED
      BY <2>2, <2>3, <3>1
  <2>7. CASE ~ShouldDispatch(e)
    BY <2>7 DEF ShouldDispatch
  <2>8. CASE Suppressed(e)
    <3>1. Suppress > 0 /\ Monotonic - last[e] < Suppress
      BY <2>8 DEF Suppressed
    <3>2. CASE tried[e] = Never
      BY <2>2, <2>3, <2>4, <3>1, <3>2
    <3>3. CASE tried[e] # Never
      <4>1. last[e] = tried[e] + Uptime
        BY <2>2, <2>3, <3>1, <3>3
      <4>. QED
        BY <2>4, <2>5, <3>1, <3>3, <4>1
    <3>. QED
      BY <3>2, <3>3
  <2>. QED
    BY <2>6, <2>7, <2>8
<1>2. WithheldOnlyCovered <=> [][Covered]_vars
  BY DEF WithheldOnlyCovered, Covered
<1>. QED
  BY <1>1, <1>2, LogIsKept, AlertsInOrder, PTL DEF Spec

=============================================================================
