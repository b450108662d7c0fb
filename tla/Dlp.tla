-------------------------------- MODULE Dlp ---------------------------------
(* Data loss prevention (dlp/): the policy that applies to a provider, its    *)
(* rules run over a text one after the other, and what comes of it.  A text   *)
(* is the set of marks the patterns find in it; a pattern is the set of marks *)
(* it matches.                                                                *)
EXTENDS Naturals, Sequences, SequencesExt

IsSequence(s) == s \in Seq(Range(s))

\* Fault: every second digit is counted from the first one.
IsValidLuhnFromFirst(digits) ==
    LET n == Len(digits)
        Weight(i) == IF i % 2 = 0 THEN 2 * digits[i] ELSE digits[i]
        Reduced(d) == IF d > 9 THEN d - 9 ELSE d
    IN  /\ n \in 13..19
        /\ FoldLeft(LAMBDA sum, i : sum + Reduced(Weight(i)), 0, [i \in 1..n |-> i]) % 10 = 0

\* Fault: a number of twenty digits is let through.
IsValidLuhnShort(digits) ==
    LET n == Len(digits)
        Weight(i) == IF (i - 1) % 2 = n % 2 THEN 2 * digits[i] ELSE digits[i]
        Reduced(d) == IF d > 9 THEN d - 9 ELSE d
    IN  /\ n \in 13..20
        /\ FoldLeft(LAMBDA sum, i : sum + Reduced(Weight(i)), 0, [i \in 1..n |-> i]) % 10 = 0

\* A number of 13 to 19 digits is valid when ten divides the sum of its digits, of which
\* every second one, counted from the last but one, is doubled and less nine above nine.
IsValidLuhn(digits) ==
    LET n == Len(digits)
        Weight(i) == IF (i - 1) % 2 = n % 2 THEN 2 * digits[i] ELSE digits[i]
        Reduced(d) == IF d > 9 THEN d - 9 ELSE d
    IN  /\ n \in 13..19
        /\ FoldLeft(LAMBDA sum, i : sum + Reduced(Weight(i)), 0, [i \in 1..n |-> i]) % 10 = 0

\* One rule: what it finds in the text the rules before it have left, of which a rule
\* that checks card numbers keeps the valid ones; a redacting rule takes out all its
\* pattern matches.
ScanRule(scan, rule, cards) ==
    LET found == rule.pattern \cap scan.text
        hits  == IF rule.luhn THEN found \cap cards ELSE found
    IN  IF hits = {} THEN scan
        ELSE [text    |-> IF rule.action = "redact" THEN scan.text \ rule.pattern
                                                    ELSE scan.text,
              matches |-> Append(scan.matches, rule)]

\* The rules in their order.
Scan(rules, text, cards) ==
    FoldLeft(LAMBDA scan, rule : ScanRule(scan, rule, cards),
             [text |-> text, matches |-> <<>>], rules)

\* The first enabled policy that applies to the provider, 0 without one.
SelectPolicy(policies, provider) ==
    SelectInSeq(policies, LAMBDA p : p.enabled /\ (p.applies = {} \/ provider \in p.applies))

HasAction(scan, action) == \E i \in DOMAIN scan.matches : scan.matches[i].action = action

RerouteTarget(scan) ==
    LET i == SelectInSeq(scan.matches, LAMBDA m : m.action = "reroute" /\ m.to # "none")
    IN  IF i = 0 THEN "none" ELSE scan.matches[i].to

Pass(text) == [action |-> "pass", to |-> "none", text |-> text]

\* What becomes of a text on its way to a provider: blocking goes before rerouting, which
\* goes before redacting.
CheckOutbound(policies, text, provider, cards) ==
    LET p == SelectPolicy(policies, provider)
        scan == Scan(policies[p].outbound, text, cards)
    IN  IF p = 0 THEN Pass(text)
        ELSE CASE HasAction(scan, "block") -> [Pass(text) EXCEPT !.action = "block"]
               [] HasAction(scan, "reroute") /\ ~HasAction(scan, "block") ->
                    [Pass(text) EXCEPT !.action = "reroute", !.to = RerouteTarget(scan)]
               [] ~HasAction(scan, "reroute") /\ ~HasAction(scan, "block") ->
                    [Pass(scan.text) EXCEPT !.action =
                        IF scan.text # text THEN "redact"
                        ELSE IF scan.matches # <<>> THEN "log" ELSE "pass"]

\* What becomes of a provider's text on its way to the caller: it is blocked or redacted,
\* never rerouted.
CheckInbound(policies, text, provider, cards) ==
    LET p == SelectPolicy(policies, provider)
        scan == Scan(policies[p].inbound, text, cards)
    IN  IF p = 0 THEN Pass(text)
        ELSE IF HasAction(scan, "block") THEN [Pass(text) EXCEPT !.action = "block"]
        ELSE [Pass(scan.text) EXCEPT !.action =
                IF scan.text # text THEN "redact"
                ELSE IF scan.matches # <<>> THEN "log" ELSE "pass"]
=============================================================================
