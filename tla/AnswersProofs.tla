--------------------------- MODULE AnswersProofs ----------------------------
(* What the gateway tells its callers, proved: the pages it serves are       *)
(* cleared of what detection and the policy of their provider take out, for  *)
(* any pages, policies, patterns and settings; and the health that is        *)
(* reported is recent, for any providers, callers, lifetimes and probes.     *)
EXTENDS Inspection, Health, DataProofs, FiniteSetTheorems

-----------------------------------------------------------------------------
(* Card numbers *)

\* What the check digit's definition adds up of the i-th of n digits.
Crossed(digits, i) ==
    LET d == IF (Len(digits) - i) % 2 = 1 THEN 2 * digits[i] ELSE digits[i]
    IN  (d \div 10) + (d % 10)

LEMMA CardIsSum ==
  ASSUME NEW digits \in Seq(0..9), Len(digits) \in 13..19
  PROVE  \E g : /\ IsSum(g, Len(digits) - 1, [i \in 1..(Len(digits) - 1) |-> Crossed(digits, i)])
                /\ IsCard(digits) <=>
                     digits[Len(digits)] = (10 - (g[1..(Len(digits) - 1)] % 10)) % 10
PROOF
<1> DEFINE n == Len(digits)
           e == [i \in 1..n-1 |-> Crossed(digits, i)]
           step(f, s) == IF s = {} THEN 0 ELSE f[s \ {Max(s)}] + e[Max(s)]
           iter == CHOOSE f : f = [s \in SUBSET DOMAIN e |-> step(f, s)]
<1>0. n \in 13..19
  OBVIOUS
<1>1. n - 1 \in Nat /\ DOMAIN e = 1..(n - 1)
  <2> HIDE DEF n
  <2>. QED
    BY <1>0
<1>2. \A i \in 1..(n - 1) : Crossed(digits, i) \in Nat
  BY DEF Crossed
<1>3. e \in [1..(n - 1) -> Nat]
  BY <1>2
<1>4. PICK g : IsSum(g, n - 1, e)
  <2> HIDE DEF n, e
  <2>. QED
    BY <1>1, <1>3, SumExists
<1>5. g = [s \in SUBSET DOMAIN e |-> step(g, s)]
  BY <1>1, <1>4 DEF IsSum
<1>6. iter = [s \in SUBSET DOMAIN e |-> step(iter, s)]
  <2> HIDE DEF step
  <2>. QED
    BY <1>5
<1>7. IsCard(digits) <=> digits[n] = (10 - (iter[DOMAIN e] % 10)) % 10
  BY DEF IsCard, FoldLeft, MapThenFoldSet, Crossed
<1> HIDE DEF iter
<1>8. IsSum(iter, n - 1, e)
  BY <1>1, <1>6 DEF IsSum
<1>. QED
  BY <1>1, <1>7, <1>8

\* Doubling and taking nine off is doubling and adding the two digits up, and counting every
\* second digit from the last but one is counting those an odd way from the end.
LEMMA CountedIsCrossed ==
  ASSUME NEW digits \in Seq(0..9), NEW i \in 1..(Len(digits) - 1)
  PROVE  Counted(digits, i) = Crossed(digits, i)
PROOF
<1> DEFINE n == Len(digits)
<1>1. n \in Nat /\ i \in 1..n /\ digits[i] \in 0..9
  OBVIOUS
<1>2. (i - 1) % 2 = n % 2 <=> (n - i) % 2 = 1
  BY <1>1
<1>3. \A d \in 0..18 : (IF d > 9 THEN d - 9 ELSE d) = (d \div 10) + (d % 10)
  OBVIOUS
<1>4. CASE (n - i) % 2 = 1
  <2>1. 2 * digits[i] \in 0..18
    BY <1>1
  <2>2. /\ Counted(digits, i) = IF 2 * digits[i] > 9 THEN 2 * digits[i] - 9 ELSE 2 * digits[i]
        /\ Crossed(digits, i) = ((2 * digits[i]) \div 10) + ((2 * digits[i]) % 10)
    BY <1>2, <1>4, Zenon DEF Counted, Crossed
  <2>. QED
    BY <1>3, <2>1, <2>2
<1>5. CASE (n - i) % 2 # 1
  <2>1. /\ Counted(digits, i) = IF digits[i] > 9 THEN digits[i] - 9 ELSE digits[i]
        /\ Crossed(digits, i) = (digits[i] \div 10) + (digits[i] % 10)
    BY <1>2, <1>5, Zenon DEF Counted, Crossed
  <2>2. digits[i] \in 0..18
    BY <1>1
  <2>. QED
    BY <1>3, <2>1, <2>2
<1>. QED
  BY <1>4, <1>5

\* The code's test of a card number is that of its check digit, for every number.
THEOREM LuhnIsCheckDigit ==
  ASSUME NEW digits \in Seq(0..9)
  PROVE  IsValidLuhn(digits) <=> IsCard(digits)
PROOF
<1> DEFINE n == Len(digits)
           counted == [i \in 1..n |-> Counted(digits, i)]
           crossed == [i \in 1..(n - 1) |-> Crossed(digits, i)]
<1>1. CASE n \notin 13..19
  BY <1>1 DEF IsValidLuhn, IsCard
<1>2. CASE n \in 13..19
  <2>1. PICK g : IsSum(g, n, counted) /\ (IsValidLuhn(digits) <=> g[1..n] % 10 = 0)
    BY <1>2, LuhnIsSum
  <2>2. PICK h : IsSum(h, n - 1, crossed)
                 /\ (IsCard(digits) <=> digits[n] = (10 - (h[1..(n - 1)] % 10)) % 10)
    BY <1>2, CardIsSum
  <2>3. counted \in [1..n -> Nat] /\ crossed \in [1..(n - 1) -> Nat]
    <3>1. \A i \in 1..n : Counted(digits, i) \in Nat
      BY DEF Counted
    <3>2. \A i \in 1..(n - 1) : Crossed(digits, i) \in Nat
      BY DEF Crossed
    <3>. QED
      BY <3>1, <3>2
  <2>4. n \in Nat /\ n - 1 \in 0..n /\ n \in 1..n /\ n - 1 \in Nat
    <3> HIDE DEF n
    <3>. QED
      BY <1>2
  <2>5. g[1..(n - 1)] = h[1..(n - 1)]
    <3>1. \A k \in 1..(n - 1) : counted[k] = crossed[k]
      BY <2>4, CountedIsCrossed
    <3> HIDE DEF n, counted, crossed
    <3>2. IsSum(g, n, counted) /\ IsSum(h, n - 1, crossed)
      BY <2>1, <2>2
    <3>3. Sums(g, n, counted) /\ Sums(h, n - 1, crossed) /\ n - 1 <= n
      BY <2>3, <2>4, <3>2 DEF Sums
    <3>. QED
      BY <3>1, <3>3, SumsEqual
  <2>6. g[1..n] = g[1..(n - 1)] + counted[n] /\ g[1..(n - 1)] \in Nat
    <3> HIDE DEF n, counted
    <3>1. SumSteps(g, n, counted)
      BY <2>1, <2>3, <2>4, SumUnrolled DEF Sums
    <3>. QED
      BY <2>4, <3>1 DEF SumSteps
  <2>7. counted[n] = digits[n] /\ digits[n] \in 0..9
    BY <2>4 DEF Counted
  <2>8. \A c \in Nat, d \in 0..9 : (c + d) % 10 = 0 <=> d = (10 - (c % 10)) % 10
    OBVIOUS
  <2> HIDE DEF n, counted
  <2>9. g[1..n] % 10 = 0 <=> digits[n] = (10 - (g[1..(n - 1)] % 10)) % 10
    <3>1. (g[1..(n - 1)] + digits[n]) % 10 = 0 <=> digits[n] = (10 - (g[1..(n - 1)] % 10)) % 10
      BY <2>6, <2>7, <2>8, Zenon
    <3>. QED
      BY <2>6, <2>7, <3>1, Zenon
  <2>. QED
    BY <2>1, <2>2, <2>5, <2>9
<1>. QED
  BY <1>1, <1>2

-----------------------------------------------------------------------------
(* The pages *)

\* What holds of an answer: the four properties, of the detector as it is.
PageSound ==
    /\ answer.status \in {"served", "blocked"}
    /\ answer.unchanged => answer.compared = answer.before
    /\ CleanIsBelow /\ answer.found.detected => answer.found.action # "none"
    /\ FlaggedNeverServed
    /\ InboundCleared

\* The store holds the text each URL was compared with last, the detector is that of some
\* configuration, and what was answered with it is sound.
PagesInv ==
    /\ config \in Configs
    /\ detector = NoDetector \/ \E c \in Configs : detector = c.detection
    /\ hashes = seen
    /\ answer = NoAnswer \/ PageSound

LEMMA PagesInvGives ==
  PagesInv => UnchangedMeansSame /\ DetectedActedOn /\ FlaggedNeverServed /\ InboundCleared
PROOF
<1> SUFFICES ASSUME PagesInv
             PROVE  UnchangedMeansSame /\ DetectedActedOn /\ FlaggedNeverServed /\ InboundCleared
  OBVIOUS
<1>1. CASE answer = NoAnswer
  BY <1>1 DEF NoAnswer, UnchangedMeansSame, DetectedActedOn, FlaggedNeverServed, InboundCleared
<1>2. CASE PageSound
  BY <1>2 DEF PageSound, UnchangedMeansSame, DetectedActedOn
<1>. QED
  BY <1>1, <1>2 DEF PagesInv

\* Of fewer marks no more is found.
LEMMA ScoreMonotone ==
  ASSUME NEW t, NEW s \in SUBSET t
  PROVE  PatternScore(s) \in Nat /\ PatternScore(t) \in Nat /\ PatternScore(s) <= PatternScore(t)
PROOF
<1> DEFINE F(marks) == {TypeOf[m] : m \in marks \cap DOMAIN TypeOf}
<1>1. F(t) \subseteq Range(TypeOf) /\ F(s) \subseteq F(t)
  BY DEF Range
<1> HIDE DEF F
<1>2. IsFiniteSet(F(t)) /\ IsFiniteSet(F(s)) /\ Cardinality(F(s)) <= Cardinality(F(t))
  BY <1>1, TypesAssumption, FS_Subset
<1>3. Cardinality(F(s)) \in Nat /\ Cardinality(F(t)) \in Nat
  BY <1>2, FS_CardinalityType
<1>4. \A marks : PatternScore(marks) =
        IF detector.patterns
        THEN (IF 30 * Cardinality(F(marks)) > 100 THEN 100 ELSE 30 * Cardinality(F(marks))) ELSE 0
  BY DEF PatternScore, F
<1>. QED
  BY <1>2, <1>3, <1>4

LEMMA ScrubbedScore ==
  ASSUME NEW marks
  PROVE  PatternScore(Scrubbed(marks)) = 0 /\ Scrubbed(marks) \subseteq marks
PROOF
<1>1. CASE detector.patterns
  <2> DEFINE found == {TypeOf[m] : m \in Scrubbed(marks) \cap DOMAIN TypeOf}
  <2>1. found = {}
    BY <1>1 DEF Scrubbed
  <2>2. Cardinality(found) = 0
    BY <2>1, FS_EmptySet
  <2> HIDE DEF found
  <2>3. PatternScore(Scrubbed(marks)) = IF 30 * Cardinality(found) > 100 THEN 100
                                        ELSE 30 * Cardinality(found)
    BY <1>1 DEF PatternScore, found
  <2>. QED
    BY <2>2, <2>3 DEF Scrubbed
<1>2. CASE ~detector.patterns
  BY <1>2 DEF PatternScore, Scrubbed
<1>. QED
  BY <1>1, <1>2

\* What is detected has the action of one of the two settings, that of the patterns where
\* they find enough.
LEMMA DetectActs ==
  ASSUME NEW marks, NEW c \in Nat, NEW settings \in Configs, detector = settings.detection,
         CleanIsBelow
  PROVE  LET found == Detect(marks, c)
         IN  /\ found.detected => found.action \in {"block", "alert", "scrub"}
             /\ marks # {} /\ PatternScore(marks) >= Thresholds.patternAlert =>
                  found.action = "block" \/ found.action = detector.onPattern
PROOF
<1> DEFINE h == PatternScore(marks)
           score == IF marks = {} THEN 0 ELSE c
           found == Detect(marks, c)
<1>1. detector.onPattern \in {"block", "alert", "scrub"} /\ detector.onHigh \in {"block", "alert", "scrub"}
  BY ActionsAssumption
<1>2. h \in Nat /\ score \in Nat
  BY ScoreMonotone
<1>3. /\ Thresholds.patternAlert \in Int /\ Thresholds.scoreAlert \in Int
      /\ Thresholds.patternAlert > 0
  BY ThresholdsAssumption DEF CleanIsBelow
<1>4. /\ found.detected <=> marks # {} /\ (h >= Thresholds.patternAlert \/ score >= Thresholds.scoreAlert)
      /\ found.action = IF found.detected THEN Action(h, score, h > 0) ELSE "none"
  BY DEF Detect
<1> HIDE DEF h, score, found
<1>5. ASSUME found.detected PROVE found.action \in {"block", "alert", "scrub"}
  <2>1. h > 0 \/ score >= Thresholds.scoreAlert
    BY <1>2, <1>3, <1>4, <1>5
  <2>2. found.action = Action(h, score, h > 0)
    BY <1>4, <1>5
  <2>. QED
    BY <1>1, <2>1, <2>2 DEF Action
<1>6. ASSUME marks # {}, h >= Thresholds.patternAlert
      PROVE  found.action = "block" \/ found.action = detector.onPattern
  <2>1. found.detected /\ h > 0
    BY <1>2, <1>3, <1>4, <1>6
  <2>2. found.action = Action(h, score, h > 0)
    BY <1>4, <2>1
  <2>. QED
    BY <1>1, <2>1, <2>2 DEF Action
<1>. QED
  BY <1>5, <1>6 DEF h, found

\* What is served of a text is part of it and cleared by the policy of its provider.
LEMMA AnsweredCleared ==
  ASSUME NEW ask, NEW reply, NEW marks,
         Answered(ask, reply, marks).status # "blocked"
  PROVE  /\ Answered(ask, reply, marks).text \subseteq marks
         /\ \A p \in DOMAIN Policies : p = SelectPolicy(Policies, reply.by) =>
              \A i \in DOMAIN Policies[p].inbound :
                LET rule == Policies[p].inbound[i]
                    hits == {m \in rule.pattern \cap Answered(ask, reply, marks).text :
                               rule.luhn => m \in DOMAIN Digits /\ IsCard(Digits[m])}
                IN  rule.action \in {"block", "redact"} => hits = {}
PROOF
<1> DEFINE in == CheckInbound(Policies, marks, reply.by, Cards)
<1>1. in.action # "block" /\ Answered(ask, reply, marks).text = in.text
  BY DEF Answered
<1>2. \A m \in DOMAIN Digits : IsCard(Digits[m]) => m \in Cards
  BY LuhnIsCheckDigit, DigitsAssumption DEF Cards
<1>3. /\ in.text \subseteq marks
      /\ \A p \in DOMAIN Policies : p = SelectPolicy(Policies, reply.by) =>
           \A i \in DOMAIN Policies[p].inbound :
             \A m \in Policies[p].inbound[i].pattern \cap in.text :
               (Policies[p].inbound[i].luhn => m \in Cards) =>
                  Policies[p].inbound[i].action \notin {"block", "redact"}
  BY <1>1, PoliciesAssumption, InboundClears DEF IsSequence
<1> HIDE DEF in
<1>. QED
  BY <1>1, <1>2, <1>3

LEMMA ExtractRawSound ==
  ASSUME PagesInv, NEW ask \in Asks, NEW reply \in Fetches, ExtractRaw(ask, reply)
  PROVE  PagesInv'
PROOF
<1> DEFINE outcome == Answered(ask, reply, reply.page.raw.marks)
<1>1. /\ answer' = [status |-> outcome.status, text |-> outcome.text, by |-> reply.by,
                    inspected |-> FALSE, found |-> Quiet, unchanged |-> FALSE,
                    compared |-> {}, before |-> {}]
      /\ UNCHANGED <<config, detector, hashes, seen>>
  BY DEF ExtractRaw
<1>2. outcome.status \in {"served", "blocked"}
  BY DEF Answered
<1>3. InboundCleared'
  <2> SUFFICES ASSUME outcome.status = "served" PROVE InboundCleared'
    BY <1>1 DEF InboundCleared
  <2>1. outcome.status # "blocked"
    OBVIOUS
  <2>. QED
    BY <1>1, <2>1, AnsweredCleared DEF InboundCleared
<1> HIDE DEF outcome
<1>4. PageSound'
  BY <1>1, <1>2, <1>3 DEF PageSound, FlaggedNeverServed, Quiet
<1>. QED
  BY <1>1, <1>4 DEF PagesInv

LEMMA ExtractSound ==
  ASSUME PagesInv, NEW ask \in Asks, NEW reply \in Fetches, NEW c \in Says, Extract(ask, reply, c)
  PROVE  PagesInv'
PROOF
<1> DEFINE text == Processed(reply, ask.rule)
           found == IF Inspects(ask) THEN Detect(text, c) ELSE Quiet
           shown == IF found.action = "scrub" THEN Scrubbed(text) ELSE text
           outcome == IF found.action = "block" THEN [status |-> "blocked", text |-> text]
                      ELSE Answered(ask, reply, shown)
           before == IF ask.url \in DOMAIN seen THEN seen[ask.url] ELSE {}
<1>1. /\ hashes' = (IF Compares(reply) THEN Put(hashes, ask.url, text) ELSE hashes)
      /\ seen' = (IF Compares(reply) THEN Put(seen, ask.url, text) ELSE seen)
      /\ answer' = [status |-> outcome.status, text |-> outcome.text, by |-> reply.by,
                    inspected |-> Inspects(ask), found |-> found,
                    unchanged |-> Compares(reply) /\ Unchanged(ask.url, text),
                    compared |-> text, before |-> before]
      /\ UNCHANGED <<config, detector>>
  BY DEF Extract, Found, Remembered
<1>2. hashes' = seen'
  BY <1>1 DEF PagesInv
<1>3. Unchanged(ask.url, text) => text = before
  BY DEF PagesInv, Unchanged
<1>4. c \in Nat
  BY ThresholdsAssumption DEF Says
<1>5. Inspects(ask) => \E settings \in Configs : detector = settings.detection
  BY DEF Inspects, PagesInv
<1>6. CleanIsBelow /\ found.detected => found.action # "none"
  <2>1. CASE Inspects(ask)
    BY <1>4, <1>5, <2>1, DetectActs
  <2>2. CASE ~Inspects(ask)
    BY <2>2 DEF Quiet
  <2>. QED
    BY <2>1, <2>2
<1> HIDE DEF text, found, before
<1>7. outcome.status \in {"served", "blocked"}
  BY DEF Answered
<1>8. ASSUME outcome.status = "served"
      PROVE  /\ found.action # "block" /\ outcome.text \subseteq shown
             /\ \A p \in DOMAIN Policies : p = SelectPolicy(Policies, reply.by) =>
                  \A i \in DOMAIN Policies[p].inbound :
                    LET rule == Policies[p].inbound[i]
                        hits == {m \in rule.pattern \cap outcome.text :
                                   rule.luhn => m \in DOMAIN Digits /\ IsCard(Digits[m])}
                    IN  rule.action \in {"block", "redact"} => hits = {}
  <2>1. found.action # "block" /\ outcome = Answered(ask, reply, shown)
    BY <1>8
  <2> HIDE DEF shown
  <2>2. Answered(ask, reply, shown).status # "blocked"
    BY <1>8, <2>1
  <2>. QED
    BY <2>1, <2>2, AnsweredCleared
<1>9. ASSUME CleanIsBelow, outcome.status = "served", Inspects(ask), detector.onPattern # "alert"
      PROVE  PatternScore(outcome.text) < Thresholds.patternAlert
  <2>1. PICK settings \in Configs : detector = settings.detection
    BY <1>5, <1>9
  <2>2. found = Detect(text, c)
    BY <1>9 DEF found
  <2>3. Thresholds.patternAlert \in Int /\ Thresholds.patternAlert > 0
    BY <1>9, ThresholdsAssumption DEF CleanIsBelow
  <2>4. CASE found.action = "scrub"
    <3>1. outcome.text \subseteq Scrubbed(text)
      BY <1>8, <1>9, <2>4
    <3>2. PatternScore(outcome.text) <= 0 /\ PatternScore(outcome.text) \in Nat
      BY <3>1, ScrubbedScore, ScoreMonotone
    <3>. QED
      BY <2>3, <3>2
  <2>5. CASE found.action # "scrub"
    <3>1. found.action # "block" /\ outcome.text \subseteq text
      BY <1>8, <1>9, <2>5
    <3> HIDE DEF outcome, shown
    <3>2. /\ PatternScore(outcome.text) \in Nat /\ PatternScore(text) \in Nat
          /\ PatternScore(outcome.text) <= PatternScore(text)
      BY <3>1, ScoreMonotone
    <3>3. detector.onPattern \in {"block", "scrub"}
      BY <1>9, <2>1, ActionsAssumption
    <3>4. text = {} \/ PatternScore(text) < Thresholds.patternAlert
      BY <1>4, <1>9, <2>1, <2>2, <2>3, <2>5, <3>1, <3>2, <3>3, DetectActs
    <3>5. text = {} => PatternScore(text) = 0
      <4>1. ASSUME text = {} PROVE text = Scrubbed(text)
        BY <4>1 DEF Scrubbed
      <4>. QED
        BY <4>1, ScrubbedScore
    <3>. QED
      BY <2>3, <3>2, <3>4, <3>5
  <2>. QED
    BY <2>4, <2>5
<1> HIDE DEF outcome
<1>10. FlaggedNeverServed'
  BY <1>1, <1>9 DEF FlaggedNeverServed, PatternScore, CleanIsBelow
<1>11. InboundCleared'
  BY <1>1, <1>8 DEF InboundCleared
<1>12. PageSound'
  BY <1>1, <1>3, <1>6, <1>7, <1>10, <1>11 DEF PageSound
<1>. QED
  BY <1>1, <1>2, <1>12 DEF PagesInv

LEMMA PagesStep == PagesInv /\ [Next]_vars => PagesInv'
PROOF
<1> SUFFICES ASSUME PagesInv, [Next]_vars PROVE PagesInv'
  OBVIOUS
<1>1. ASSUME NEW ask \in Asks, NEW reply \in Fetches, ExtractRaw(ask, reply) PROVE PagesInv'
  BY <1>1, ExtractRawSound
<1>2. ASSUME NEW ask \in Asks, NEW reply \in Fetches, NEW c \in Says, Extract(ask, reply, c)
      PROVE  PagesInv'
  BY <1>2, ExtractSound
<1>3. ASSUME NEW new \in Configs, Reload(new) PROVE PagesInv'
  BY <1>3 DEF PagesInv, Reload
<1>4. CASE Restart
  BY <1>4 DEF PagesInv, Restart, Built
<1>5. CASE UNCHANGED vars
  BY <1>5 DEF PagesInv, vars, PageSound, FlaggedNeverServed, InboundCleared, PatternScore, CleanIsBelow
<1>. QED
  BY <1>1, <1>2, <1>3, <1>4, <1>5 DEF Next

LEMMA PagesHold == Spec => []PagesInv
PROOF
<1>1. Init => PagesInv
  BY FirstConfigAssumption DEF Init, PagesInv, Built
<1>. QED
  BY <1>1, PagesStep, PTL DEF Spec

\* A page said to be unchanged is that of the last comparison, through faults, blocked
\* pages, reloads and restarts.
THEOREM UnchangedIsSame == Spec => []UnchangedMeansSame
PROOF BY PagesHold, PagesInvGives, PTL

\* What is detected is acted on, wherever the two ladders of thresholds stand above zero.
THEOREM DetectionActs == Spec => []DetectedActedOn
PROOF BY PagesHold, PagesInvGives, PTL

\* Nothing is served in which the patterns would be found again, unless alerts are all
\* they call for.
THEOREM NothingFlagged == Spec => []FlaggedNeverServed
PROOF BY PagesHold, PagesInvGives, PTL

\* Nothing is served that the policy of the page's provider would block or take out.
THEOREM InboundIsCleared == Spec => []InboundCleared
PROOF BY PagesHold, PagesInvGives, PTL

\* The code's test and the check digit agree on the numbers looked at.
THEOREM CardsAreTold == Spec => []LuhnAgrees
PROOF
<1>1. LuhnAgrees
  BY LuhnIsCheckDigit, DigitsAssumption DEF LuhnAgrees, NumbersAgree
<1>. QED
  BY <1>1, PTL

-----------------------------------------------------------------------------
(* The inductive invariant: how old what is kept was when it was kept, and   *)
(* how old what a request knows was when the request began.                  *)

KeptSound ==
    \A n \in DOMAIN kept :
        /\ kept[n].at \in Nat /\ kept[n].seen \in Nat
        /\ kept[n].seen <= kept[n].at
        /\ kept[n].at <= time
        /\ kept[n].at <= kept[n].seen + MaxProbe

IsRequest(q) ==
    q = [phase |-> q.phase, since |-> q.since, stale |-> q.stale, status |-> q.status]

\* What a request knows at time t.
Knows(q, t) ==
    /\ q.since \in Nat
    /\ q.since <= t
    /\ t <= q.since + MaxProbe
    /\ q.stale \subseteq Providers
    /\ Providers \ q.stale \subseteq DOMAIN q.status
    /\ DOMAIN q.status \subseteq Providers
    /\ \A n \in DOMAIN q.status :
         /\ q.status[n].seen \in Nat
         /\ q.status[n].seen <= t
         /\ n \in q.stale => q.since <= q.status[n].seen
         /\ n \notin q.stale => q.since < q.status[n].seen + HealthTtl + MaxProbe

RequestSound(q, t) ==
    /\ IsRequest(q)
    /\ q.phase \in {"idle", "asking", "reported"}
    /\ q.phase # "idle" => Knows(q, t)
    /\ q.phase = "reported" => q.stale \subseteq DOMAIN q.status

CallersSound ==
    /\ caller = [c \in Callers |-> caller[c]]
    /\ \A c \in Callers : RequestSound(caller[c], time)

HealthInv ==
    /\ time \in Nat
    /\ checked \subseteq Providers
    /\ KeptSound
    /\ CallersSound

\* The invariant gives the bound on what is reported.
LEMMA SoundIsRecent == HealthInv => ReportedRecent
<1> SUFFICES ASSUME HealthInv,
                    NEW c \in Callers, caller[c].phase = "reported"
             PROVE  /\ DOMAIN caller[c].status = Providers
                    /\ \A n \in Providers :
                         time - caller[c].status[n].seen <= HealthTtl - 1 + 2 * MaxProbe
    BY DEF ReportedRecent
<1>1. RequestSound(caller[c], time) /\ time \in Nat
    BY DEF HealthInv, CallersSound
<1>2. Knows(caller[c], time) /\ caller[c].stale \subseteq DOMAIN caller[c].status
    BY <1>1 DEF RequestSound
<1>3. DOMAIN caller[c].status = Providers
    BY <1>2 DEF Knows
<1>4. ASSUME NEW n \in Providers
      PROVE  time - caller[c].status[n].seen <= HealthTtl - 1 + 2 * MaxProbe
    <2>1. /\ caller[c].since \in Nat
          /\ time <= caller[c].since + MaxProbe
          /\ caller[c].status[n].seen \in Nat
          /\ n \in caller[c].stale => caller[c].since <= caller[c].status[n].seen
          /\ n \notin caller[c].stale =>
               caller[c].since < caller[c].status[n].seen + HealthTtl + MaxProbe
        BY <1>2, <1>3 DEF Knows
    <2> QED  BY <1>1, <2>1, HealthAssumption
<1> QED  BY <1>3, <1>4

LEMMA HealthStarts == HealthInit => HealthInv
<1> SUFFICES ASSUME HealthInit PROVE HealthInv
    OBVIOUS
<1>1. time \in Nat /\ checked \subseteq Providers
    BY HealthAssumption DEF HealthInit
<1>2. KeptSound
    BY DEF HealthInit, KeptSound
<1>3. CallersSound
    BY DEF HealthInit, CallersSound, RequestSound, IsRequest, Idle
<1> QED  BY <1>1, <1>2, <1>3 DEF HealthInv

\* A step that changes one request, to a sound one, and no time, leaves all sound.
LEMMA OneRequest ==
    ASSUME HealthInv, NEW c \in Callers, NEW q, RequestSound(q, time),
           caller' = [caller EXCEPT ![c] = q], time' = time
    PROVE  CallersSound'
<1>1. caller' = [d \in Callers |-> caller'[d]]
    BY DEF HealthInv, CallersSound
<1>2. ASSUME NEW d \in Callers PROVE RequestSound(caller'[d], time)
    <2>1. caller'[d] = IF d = c THEN q ELSE caller[d]
        BY DEF HealthInv, CallersSound
    <2>2. RequestSound(caller[d], time)
        BY DEF HealthInv, CallersSound
    <2> QED  BY <2>1, <2>2
<1>3. \A d \in Callers : RequestSound(caller'[d], time')
    BY <1>2
<1> QED  BY <1>1, <1>3 DEF CallersSound

-----------------------------------------------------------------------------
LEMMA AskSound ==
    ASSUME HealthInv, NEW c \in Callers, AskHealth(c)
    PROVE  HealthInv'
<1> DEFINE stale == {n \in checked : ~Recent(n)}
           known == [n \in Providers \ stale |->
                       IF n \in checked
                       THEN [healthy |-> kept[n].healthy, seen |-> kept[n].seen] ELSE Assumed]
           q == [phase |-> IF stale = {} THEN "reported" ELSE "asking",
                 since |-> time, stale |-> stale, status |-> known]
<1>1. caller' = [caller EXCEPT ![c] = q] /\ UNCHANGED <<kept, checked, time>>
    BY DEF AskHealth
<1>2. time \in Nat /\ checked \subseteq Providers
    BY DEF HealthInv
<1>3. DOMAIN known = Providers \ stale
    OBVIOUS
<1>4. ASSUME NEW n \in Providers \ stale
      PROVE  /\ known[n].seen \in Nat
             /\ known[n].seen <= time
             /\ time < known[n].seen + HealthTtl + MaxProbe
    <2>1. CASE n \in checked
        <3>1. n \in DOMAIN kept /\ time - kept[n].at < HealthTtl
            BY <2>1 DEF Recent
        <3>2. known[n].seen = kept[n].seen
            BY <2>1
        <3>3. /\ kept[n].at \in Nat /\ kept[n].seen \in Nat
              /\ kept[n].seen <= kept[n].at
              /\ kept[n].at <= time
              /\ kept[n].at <= kept[n].seen + MaxProbe
            BY <3>1 DEF HealthInv, KeptSound
        <3> QED  BY <1>2, <3>1, <3>2, <3>3, HealthAssumption
    <2>2. CASE n \notin checked
        <3>1. known[n].seen = time
            BY <2>2 DEF Assumed
        <3> QED  BY <1>2, <3>1, HealthAssumption
    <2> QED  BY <2>1, <2>2
<1> HIDE DEF known
<1>5. Knows(q, time)
    BY <1>2, <1>3, <1>4, HealthAssumption DEF Knows
<1>6. RequestSound(q, time)
    BY <1>5, <1>3 DEF RequestSound, IsRequest
<1>7. CallersSound'
    BY <1>1, <1>6, OneRequest
<1> QED  BY <1>1, <1>7 DEF HealthInv, KeptSound

LEMMA AnswerSound ==
    ASSUME HealthInv, NEW c \in Callers, NEW n \in Providers, NEW reply, Answer(c, n, reply)
    PROVE  HealthInv'
<1> DEFINE said == [healthy |-> HealthCheck(n, reply, ApiKeys), seen |-> time]
           status == [m \in DOMAIN caller[c].status \cup {n} |->
                        IF m = n THEN said ELSE caller[c].status[m]]
           q == [caller[c] EXCEPT !.status = status]
<1>1. RequestSound(caller[c], time) /\ time \in Nat
    BY DEF HealthInv, CallersSound
<1>2. Knows(caller[c], time) /\ caller[c].phase = "asking" /\ IsRequest(caller[c])
    BY <1>1 DEF Answer, RequestSound
<1>3. caller' = [caller EXCEPT ![c] = q] /\ UNCHANGED <<kept, checked, time>>
    BY DEF Answer, HealthInv, CallersSound
<1>4. DOMAIN status = DOMAIN caller[c].status \cup {n}
    OBVIOUS
<1>5. ASSUME NEW m \in DOMAIN status
      PROVE  status[m] = IF m = n THEN said ELSE caller[c].status[m]
    OBVIOUS
<1>6. n \in caller[c].stale
    BY DEF Answer
<1>7. /\ q.phase = "asking" /\ q.since = caller[c].since /\ q.stale = caller[c].stale
      /\ q.status = status /\ IsRequest(q)
    BY <1>2 DEF IsRequest
<1> HIDE DEF status, q
<1>8. Knows(q, time)
    BY <1>1, <1>2, <1>4, <1>5, <1>6, <1>7 DEF Knows
<1>9. RequestSound(q, time)
    BY <1>7, <1>8 DEF RequestSound
<1>10. CallersSound'
    BY <1>3, <1>9, OneRequest
<1> QED  BY <1>3, <1>10 DEF HealthInv, KeptSound

LEMMA GatheredSound ==
    ASSUME HealthInv, NEW c \in Callers, Gathered(c)
    PROVE  HealthInv'
<1> DEFINE q == [caller[c] EXCEPT !.phase = "reported"]
<1>1. RequestSound(caller[c], time) /\ time \in Nat
    BY DEF HealthInv, CallersSound
<1>2. Knows(caller[c], time) /\ IsRequest(caller[c])
    BY <1>1 DEF Gathered, HasAll, RequestSound
<1>3. caller' = [caller EXCEPT ![c] = q] /\ UNCHANGED <<checked, time>>
    BY DEF Gathered, HealthInv, CallersSound
<1>4. caller[c].stale \subseteq DOMAIN caller[c].status
    BY DEF Gathered, HasAll
<1>5. /\ q.phase = "reported" /\ q.since = caller[c].since /\ q.stale = caller[c].stale
      /\ q.status = caller[c].status /\ IsRequest(q)
    BY <1>2 DEF IsRequest
<1>6. KeptSound'
    <2> SUFFICES ASSUME NEW n \in DOMAIN kept'
                 PROVE  /\ kept'[n].at \in Nat /\ kept'[n].seen \in Nat
                        /\ kept'[n].seen <= kept'[n].at
                        /\ kept'[n].at <= time
                        /\ kept'[n].at <= kept'[n].seen + MaxProbe
        BY <1>3 DEF KeptSound
    <2>1. kept' = KeptAfter(c)
        BY DEF Gathered
    <2>2. CASE n \in caller[c].stale
        <3>1. kept'[n].at = time /\ kept'[n].seen = caller[c].status[n].seen
            BY <2>1, <2>2 DEF KeptAfter
        <3>2. /\ caller[c].since \in Nat
              /\ time <= caller[c].since + MaxProbe
              /\ caller[c].status[n].seen \in Nat
              /\ caller[c].status[n].seen <= time
              /\ caller[c].since <= caller[c].status[n].seen
            BY <1>2, <1>4, <2>2 DEF Knows
        <3> QED  BY <1>1, <3>1, <3>2, HealthAssumption
    <2>3. CASE n \notin caller[c].stale
        <3>1. n \in DOMAIN kept /\ kept'[n] = kept[n]
            BY <2>1, <2>3 DEF KeptAfter
        <3> QED  BY <3>1 DEF HealthInv, KeptSound
    <2> QED  BY <2>2, <2>3
<1> HIDE DEF q
<1>7. RequestSound(q, time)
    BY <1>2, <1>4, <1>5 DEF RequestSound, Knows
<1>8. CallersSound'
    BY <1>3, <1>7, OneRequest
<1> QED  BY <1>3, <1>6, <1>8 DEF HealthInv

LEMMA SentSound ==
    ASSUME HealthInv, NEW c \in Callers, Sent(c)
    PROVE  HealthInv'
<1>1. caller' = [caller EXCEPT ![c] = Idle] /\ UNCHANGED <<kept, checked, time>>
    BY DEF Sent
<1>2. RequestSound(Idle, time)
    BY DEF RequestSound, IsRequest, Idle
<1>3. CallersSound'
    BY <1>1, <1>2, OneRequest
<1> QED  BY <1>1, <1>3 DEF HealthInv, KeptSound

LEMMA TickSound ==
    ASSUME HealthInv, HealthTick
    PROVE  HealthInv'
<1>1. time \in Nat /\ time' = time + 1 /\ UNCHANGED <<kept, caller, checked>>
    BY DEF HealthTick, HealthInv
<1>2. KeptSound'
    <2> SUFFICES ASSUME NEW n \in DOMAIN kept PROVE kept[n].at <= time + 1
        BY <1>1 DEF HealthInv, KeptSound
    <2>1. kept[n].at \in Nat /\ kept[n].at <= time
        BY DEF HealthInv, KeptSound
    <2> QED  BY <1>1, <2>1
<1>3. ASSUME NEW c \in Callers PROVE RequestSound(caller[c], time + 1)
    <2>1. RequestSound(caller[c], time)
        BY DEF HealthInv, CallersSound
    <2>2. CASE caller[c].phase = "asking"
        <3>1. Knows(caller[c], time) /\ time < caller[c].since + MaxProbe
            BY <2>1, <2>2 DEF RequestSound, HealthTick
        <3>2. /\ caller[c].since <= time + 1
              /\ time + 1 <= caller[c].since + MaxProbe
            BY <1>1, <3>1, HealthAssumption DEF Knows
        <3>3. ASSUME NEW n \in DOMAIN caller[c].status
              PROVE  caller[c].status[n].seen <= time + 1
            <4>1. caller[c].status[n].seen \in Nat /\ caller[c].status[n].seen <= time
                BY <3>1 DEF Knows
            <4> QED  BY <1>1, <4>1
        <3>4. Knows(caller[c], time + 1)
            BY <3>1, <3>2, <3>3 DEF Knows
        <3> QED  BY <2>1, <2>2, <3>4 DEF RequestSound
    <2>3. CASE caller[c].phase # "asking"
        <3>1. caller[c].phase = "idle"
            BY <2>1, <2>3 DEF RequestSound, HealthTick
        <3> QED  BY <2>1, <3>1 DEF RequestSound
    <2> QED  BY <2>2, <2>3
<1>4. CallersSound'
    BY <1>1, <1>3 DEF CallersSound, HealthInv
<1> QED  BY <1>1, <1>2, <1>4 DEF HealthInv

LEMMA HealthStep == HealthInv /\ [HealthNext]_healthVars => HealthInv'
<1> SUFFICES ASSUME HealthInv, [HealthNext]_healthVars PROVE HealthInv'
    OBVIOUS
<1>1. ASSUME NEW c \in Callers, AskHealth(c) PROVE HealthInv'
    BY <1>1, AskSound
<1>2. ASSUME NEW c \in Callers, Gathered(c) PROVE HealthInv'
    BY <1>2, GatheredSound
<1>3. ASSUME NEW c \in Callers, Sent(c) PROVE HealthInv'
    BY <1>3, SentSound
<1>4. ASSUME NEW c \in Callers, NEW n \in Providers, NEW reply \in Backends, Answer(c, n, reply)
      PROVE  HealthInv'
    BY <1>4, AnswerSound
<1>5. ASSUME NEW new \in CheckedSets, ReloadChecked(new) PROVE HealthInv'
    BY <1>5, HealthAssumption DEF ReloadChecked, HealthInv, KeptSound, CallersSound
<1>6. CASE HealthTick
    BY <1>6, TickSound
<1>7. CASE UNCHANGED healthVars
    BY <1>7 DEF healthVars, HealthInv, KeptSound, CallersSound
<1> QED  BY <1>1, <1>2, <1>3, <1>4, <1>5, <1>6, <1>7 DEF HealthNext

\* What GET /health says of a provider was so at most twice a probe and less than the
\* lifetime ago, whatever requests refresh the map at the same time, in whatever order the
\* backends answer and whatever reloads come between.  (registry.py:209-250)
THEOREM HealthIsRecent == HealthSpec => []ReportedRecent
<1>1. HealthSpec => []HealthInv
    BY HealthStarts, HealthStep, PTL DEF HealthSpec
<1> QED  BY <1>1, SoundIsRecent, PTL
=============================================================================
