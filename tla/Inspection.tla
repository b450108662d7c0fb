----------------------------- MODULE Inspection -----------------------------
(* What becomes of an extracted page on its way to the caller                *)
(* (post_processing/, injection/, service.py:742-876): a strategy or an      *)
(* extractor picks its main content, structured data is put before it, it is *)
(* converted and cleaned, compared with the last time the URL was read,      *)
(* searched for prompt injections, and screened by the inbound DLP policy.   *)
(* The searches themselves never pass through here.                          *)
(*                                                                           *)
(* A text is the set of marks found in it, with what the extractors weigh: is *)
(* it thin, does it show the title early, how much of it is prose.  The       *)
(* detector is built from the configuration of the start; whether it is asked *)
(* and who is exempt is read from the live one.  No other request comes       *)
(* between: there is no await in it that lets one in.                         *)
EXTENDS Integers, Sequences, FiniteSets, SequencesExt, FiniteSetsExt, Dlp

CONSTANTS
    Configs,        \* the configurations a reload may bring
    FirstConfig,    \* that of the start
    Asks,           \* [url, key, rule, html, skip, skipInspection]: what is asked for
    Fetches,        \* [by, html, page]: what a provider may give
    Stages,         \* provider -> [extractor, converter, clean, dedup], of the start
    DedupOn,        \* deduplication.enabled, of the start
    Policies,       \* the DLP policies of the start, a sequence
    Digits,         \* mark -> its digits, for the marks that are long numbers
    TypeOf,         \* mark -> injection type, for what the heuristic patterns find
    Veiled,         \* mark -> what it is without its zero-width characters
    Markup,         \* the marks that are tags, which a conversion takes out
    Boilerplate,    \* the marks that cleaning takes out
    Priority,       \* JSON-LD type -> its priority
    Scores,         \* what the classifier may say of a text, in hundredths
    Thresholds,     \* [patternAlert, patternBlock, scoreAlert, scoreBlock]
    Numbers         \* numbers on which the two tests of a card number are compared

ASSUME FirstConfigAssumption == FirstConfig \in Configs
ASSUME ActionsAssumption ==
    \A c \in Configs : {c.detection.onPattern, c.detection.onHigh} \subseteq {"block", "alert", "scrub"}
ASSUME ThresholdsAssumption ==
    /\ {Thresholds.patternAlert, Thresholds.scoreAlert} \subseteq Int
    /\ Scores \subseteq Nat
ASSUME TypesAssumption == IsFiniteSet(Range(TypeOf))
ASSUME DigitsAssumption ==
    Numbers \subseteq Seq(0..9) /\ \A m \in DOMAIN Digits : Digits[m] \in Seq(0..9)
ASSUME PoliciesAssumption ==
    IsSequence(Policies) /\ \A p \in DOMAIN Policies : IsSequence(Policies[p].inbound)

VARIABLES
    config,     \* the live configuration
    detector,   \* the detection settings the detector was built from, or NoDetector
    hashes,     \* the dedup store: url -> the text hashed last
    seen,       \* url -> the text that was compared last (history)
    answer      \* what became of the last page; forgotten when the settings change

vars == <<config, detector, hashes, seen, answer>>

NoDetector == [enabled |-> FALSE]
NoText == [marks |-> {}, thin |-> TRUE, early |-> FALSE, prose |-> 0]
NoData == [rich |-> FALSE, shown |-> {}]
NoFind == [text |-> NoText, data |-> NoData]
NoAnswer == [status |-> "none"]

\* main.py builds the detector only if detection is enabled then.
Built(settings) == IF settings.enabled THEN settings ELSE NoDetector

Init == /\ config = FirstConfig
        /\ detector = Built(FirstConfig.detection)
        /\ hashes = <<>>
        /\ seen = <<>>
        /\ answer = NoAnswer

Put(f, key, value) == [k \in DOMAIN f \cup {key} |-> IF k = key THEN value ELSE f[k]]

-----------------------------------------------------------------------------
(* Stages 0 and 1: what of the page is kept *)

BlockScore(block) ==
    (IF block.type \in DOMAIN Priority THEN Priority[block.type] ELSE 20)
    + (IF block.fields < 50 THEN block.fields ELSE 50)

\* Of the JSON-LD blocks the first of those with the highest score.
JsonLdFind(page) ==
    LET best == SelectInSeq(page.blocks, LAMBDA b :
                    \A i \in DOMAIN page.blocks : BlockScore(page.blocks[i]) <= BlockScore(b))
    IN  IF best = 0 THEN NoFind
        ELSE [text |-> page.blocks[best].text, data |-> page.blocks[best].data]

\* A strategy that raises is as one that finds nothing, and so is a name nobody registered.
StrategyFind(name, page) ==
    CASE name = "json_ld" -> JsonLdFind(page)
      [] name = "meta_extract" -> page.meta
      [] name = "reddit_listing" -> [text |-> page.posts, data |-> NoData]
      [] OTHER -> NoFind

\* What the first of the rule's strategies finds that finds a text.
Find(rule, page) ==
    LET names == IF rule \in DOMAIN config.strategies THEN config.strategies[rule] ELSE <<>>
        i == SelectInSeq(names, LAMBDA n : StrategyFind(n, page).text # NoText)
    IN  IF i = 0 THEN NoFind ELSE StrategyFind(names[i], page)

Enough(text) == text # NoText /\ ~text.thin

\* Two extractors: the title early decides, then prose by a fifth more, then trafilatura.
MainContent(page, extractor) ==
    LET t == page.trafilatura
        r == page.readability
        wins == 5 * r.prose > 6 * t.prose
        choices ==
          IF extractor = "trafilatura"
          THEN << <<t, Enough(t) /\ t.early>>, <<r, Enough(r) /\ r.early>>,
                  <<r, Enough(r) /\ wins>>, <<t, Enough(t)>>, <<r, Enough(r)>> >>
          ELSE IF extractor = "readability" THEN << <<r, Enough(r)>> >> ELSE <<>>
        i == SelectInSeq(choices, LAMBDA choice : choice[2])
    IN  IF i = 0 THEN page.raw ELSE choices[i][1]

\* A strategy's content, if it is not the page itself, takes the page's place; structured
\* data that says something is put before a content that is thin or does not show the
\* title early.
Extracted(reply, rule) ==
    LET page == reply.page
        find == IF reply.html THEN Find(rule, page) ELSE NoFind
        kept == IF find.text \notin {NoText, page.raw} THEN find.text
                ELSE IF reply.html THEN MainContent(page, Stages[reply.by].extractor)
                ELSE page.raw
    IN  IF find.data.rich /\ (kept.thin \/ ~kept.early)
        THEN kept.marks \cup find.data.shown ELSE kept.marks

-----------------------------------------------------------------------------
(* Stages 2 to 4: conversion, cleaning, comparison *)

\* A converter that raises leaves the text as it was; a text without tags, which none
\* is asked to convert, is one they take nothing out of.
Converted(marks, reply) ==
    IF Stages[reply.by].converter = "none" \/ reply.page.odd THEN marks ELSE marks \ Markup

\* First the zero-width characters go, then what is boilerplate without them.
Cleaned(marks, reply) ==
    IF Stages[reply.by].clean
    THEN {IF m \in DOMAIN Veiled THEN Veiled[m] ELSE m : m \in marks} \ Boilerplate
    ELSE marks

Processed(reply, rule) == Cleaned(Converted(Extracted(reply, rule), reply), reply)

Compares(reply) == DedupOn /\ Stages[reply.by].dedup

\* Fault: a URL's hash stays that of its first text.
FirstRemembered(url, text) == IF url \in DOMAIN hashes THEN hashes ELSE Put(hashes, url, text)

\* The dedup store after this text: always the hash of the last one.
Remembered(url, text) == Put(hashes, url, text)

Unchanged(url, text) == url \in DOMAIN hashes /\ hashes[url] = text

-----------------------------------------------------------------------------
(* Stage 5: prompt injections *)

PatternScore(marks) ==
    LET found == {TypeOf[m] : m \in marks \cap DOMAIN TypeOf}
    IN  IF detector.patterns
        THEN (IF 30 * Cardinality(found) > 100 THEN 100 ELSE 30 * Cardinality(found)) ELSE 0

\* Fault: a score that only just reaches the threshold has no action.
ActionAbove(h, c, matched) ==
    CASE h > Thresholds.patternBlock \/ c > Thresholds.scoreBlock ->
           IF detector.onHigh = "block" THEN "block" ELSE detector.onPattern
      [] ~(h > Thresholds.patternBlock \/ c > Thresholds.scoreBlock) /\ matched ->
           detector.onPattern
      [] OTHER -> IF c > Thresholds.scoreAlert THEN detector.onHigh ELSE "none"

\* The configured action for these scores.
Action(h, c, matched) ==
    CASE h >= Thresholds.patternBlock \/ c >= Thresholds.scoreBlock ->
           IF detector.onHigh = "block" THEN "block" ELSE detector.onPattern
      [] ~(h >= Thresholds.patternBlock \/ c >= Thresholds.scoreBlock) /\ matched ->
           detector.onPattern
      [] OTHER -> IF c >= Thresholds.scoreAlert THEN detector.onHigh ELSE "none"

\* What the classifier may say; nothing where there is none.
Says == IF detector # NoDetector /\ detector.classifier THEN Scores ELSE {0}

\* What the detector makes of a text, of which the classifier says c.
Detect(marks, c) ==
    LET h == PatternScore(marks)
        score == IF marks = {} THEN 0 ELSE c
        detected == /\ marks # {}
                    /\ \/ h >= Thresholds.patternAlert
                       \/ score >= Thresholds.scoreAlert
    IN  [detected |-> detected, score |-> score,
         action |-> IF detected THEN Action(h, score, h > 0) ELSE "none"]

\* Scrubbing takes out what the patterns match; there may be nothing of that.
Scrubbed(marks) == IF detector.patterns THEN marks \ DOMAIN TypeOf ELSE marks

\* Fault: the detector looks at the text before it is cleaned.
FoundUncleaned(reply, rule, c) == Detect(Converted(Extracted(reply, rule), reply), c)

\* What the detector finds: it looks at the text that would be served.
Found(reply, rule, c) == Detect(Processed(reply, rule), c)

\* The caller's request is inspected: detection is on, then and now, and nobody is exempt.
Inspects(ask) ==
    /\ config.detection.enabled /\ detector # NoDetector
    /\ ~ask.skipInspection
    /\ ask.key \notin config.exemptKeys
    /\ ask.url \notin config.exemptUrls

-----------------------------------------------------------------------------
Cards == {m \in DOMAIN Digits : IsValidLuhn(Digits[m])}

Quiet == [detected |-> FALSE, score |-> 0, action |-> "none"]

\* The text as the inbound policy leaves it.
Answered(ask, reply, marks) ==
    LET in == CheckInbound(Policies, marks, reply.by, Cards)
    IN  [status |-> IF in.action = "block" THEN "blocked" ELSE "served", text |-> in.text]

\* A page that is not processed: HTML was asked for, or post-processing is skipped.
ExtractRaw(ask, reply) ==
    /\ ask.html \/ ask.skip
    /\ LET outcome == Answered(ask, reply, reply.page.raw.marks)
       IN  answer' = [status |-> outcome.status, text |-> outcome.text, by |-> reply.by,
                      inspected |-> FALSE, found |-> Quiet, unchanged |-> FALSE,
                      compared |-> {}, before |-> {}]
    /\ UNCHANGED <<config, detector, hashes, seen>>

\* A page that is.  The store has its hash whether it is then served or blocked.
Extract(ask, reply, c) ==
    LET text == Processed(reply, ask.rule)
        found == IF Inspects(ask) THEN Found(reply, ask.rule, c) ELSE Quiet
        shown == IF found.action = "scrub" THEN Scrubbed(text) ELSE text
        outcome == IF found.action = "block" THEN [status |-> "blocked", text |-> text]
                   ELSE Answered(ask, reply, shown)
    IN  /\ ~ask.html /\ ~ask.skip
        /\ hashes' = IF Compares(reply) THEN Remembered(ask.url, text) ELSE hashes
        /\ seen' = IF Compares(reply) THEN Put(seen, ask.url, text) ELSE seen
        /\ answer' =
             [status |-> outcome.status, text |-> outcome.text, by |-> reply.by,
              inspected |-> Inspects(ask), found |-> found,
              unchanged |-> Compares(reply) /\ Unchanged(ask.url, text), compared |-> text,
              before |-> IF ask.url \in DOMAIN seen THEN seen[ask.url] ELSE {}]
        /\ UNCHANGED <<config, detector>>

\* The configuration is read again; the detector stays as it is.
Reload(new) ==
    /\ new # config
    /\ config' = new
    /\ answer' = NoAnswer
    /\ UNCHANGED <<detector, hashes, seen>>

\* The process starts again: the store is on disk.
Restart ==
    /\ detector' = Built(config.detection)
    /\ answer' = NoAnswer
    /\ UNCHANGED <<config, hashes, seen>>

Next ==
    \/ \E ask \in Asks, reply \in Fetches :
         ExtractRaw(ask, reply) \/ \E c \in Says : Extract(ask, reply, c)
    \/ \E new \in Configs : Reload(new)
    \/ Restart

Spec == Init /\ [][Next]_vars

-----------------------------------------------------------------------------
(* Properties *)

\* A page said to be unchanged is, as text, the page of the last time its URL was compared,
\* whoever asked then, through whatever provider, and across restarts: a caller that keeps
\* what it made of that text need not make it again.  (dedup.py:38-63, pipeline.py:146-150)
UnchangedMeansSame ==
    (answer # NoAnswer /\ answer.unchanged) => answer.compared = answer.before

\* A text the patterns find nothing in is below the threshold: the configuration may set it
\* to zero, and then every text is detected that is not empty, for no reason to act on.
CleanIsBelow == Thresholds.patternAlert > 0

\* Where detection is on and is to block or scrub what the patterns find, nothing is served
\* in which they would be found again: not in what structured data was added, nor in what
\* cleaning laid bare.  (pipeline.py:152-164, detector.py:146-199)
FlaggedNeverServed ==
    (CleanIsBelow /\ answer.status = "served" /\ answer.inspected
        /\ detector.onPattern # "alert") =>
        PatternScore(answer.text) < Thresholds.patternAlert

\* What is detected is acted on: the two ladders of thresholds, that of detection and that
\* of the action, leave nothing between them.  (detector.py:102-121, 146-175)
DetectedActedOn ==
    (CleanIsBelow /\ answer # NoAnswer /\ answer.found.detected) => answer.found.action # "none"

\* A card number by its check digit: the digits before it, doubled in turn from the last on,
\* with the digits of each product summed, lack it to a multiple of ten.
IsCard(digits) ==
    LET n == Len(digits)
        Crossed(d) == (d \div 10) + (d % 10)
        Part(i) == Crossed(IF (n - i) % 2 = 1 THEN 2 * digits[i] ELSE digits[i])
        sum == FoldLeft(+, 0, [i \in 1..n-1 |-> Part(i)])
    IN  n \in 13..19 /\ digits[n] = (10 - (sum % 10)) % 10

NumbersAgree == \A number \in Numbers : IsValidLuhn(number) <=> IsCard(number)

\* The code's test of a card number is that of its check digit (looked at before a page is).
\* (luhn.py:17-37)
LuhnAgrees == answer = NoAnswer => NumbersAgree

\* Nothing is served that the provider's own policy would block or take out of it: rules
\* run over what the rules before them left, and the text is the one detection left.
\* (scanner.py:84-126, middleware.py:137-162, service.py:848-876)
InboundCleared ==
    answer.status = "served" =>
        \A p \in DOMAIN Policies : p = SelectPolicy(Policies, answer.by) =>
            \A i \in DOMAIN Policies[p].inbound :
                LET rule == Policies[p].inbound[i]
                    hits == {m \in rule.pattern \cap answer.text :
                               rule.luhn => m \in DOMAIN Digits /\ IsCard(Digits[m])}
                IN  rule.action \in {"block", "redact"} => hits = {}
=============================================================================
