----------------------------- MODULE MCAnswers ------------------------------
(* Two sides of what the gateway tells its callers: the pages it has         *)
(* inspected, and the health of the providers.  They share nothing that      *)
(* changes, so each is explored while the other rests.                       *)
EXTENDS Inspection, Health

VARIABLE side

Settings(pattern, high, classifier) ==
    [enabled |-> TRUE, patterns |-> TRUE, classifier |-> classifier,
     onPattern |-> pattern, onHigh |-> high]

Scrubs == [detection |-> Settings("scrub", "alert", FALSE), exemptKeys |-> {"ours"},
           exemptUrls |-> {}, strategies |-> [shop |-> <<"article_extract", "json_ld", "meta_extract">>,
                                              feed |-> <<"reddit_listing">>]]
Blocks == [Scrubs EXCEPT !.detection = Settings("alert", "block", TRUE),
                         !.exemptKeys = {},
                         !.exemptUrls = {"forum"}, !.strategies = [shop |-> <<"meta_extract">>]]
Silent == [Scrubs EXCEPT !.detection.enabled = FALSE]

MCConfigs == {Scrubs, Blocks, Silent}

Ask(url, key, rule) == [url |-> url, key |-> key, rule |-> rule, html |-> FALSE, skip |-> FALSE,
                        skipInspection |-> FALSE]
MCAsks == {Ask("store", "k1", "shop"), Ask("store", "ours", "none"), Ask("forum", "k1", "feed"),
           [Ask("forum", "k1", "none") EXCEPT !.skipInspection = TRUE],
           [Ask("store", "k1", "shop") EXCEPT !.html = TRUE]}

Text(marks, early, prose) == [marks |-> marks, thin |-> FALSE, early |-> early, prose |-> prose]

Block(type, fields, marks) ==
    [type |-> type, fields |-> fields, text |-> [Text(marks, TRUE, 0) EXCEPT !.thin = TRUE],
     data |-> [rich |-> TRUE, shown |-> marks]]

\* A product page: the extractors miss the title, the product is in the JSON-LD.
Product == [raw |-> Text({"prose", "override", "tag", "cookies", "offer"}, FALSE, 1),
            trafilatura |-> Text({"prose"}, FALSE, 10),
            readability |-> Text({"prose", "cookies"}, FALSE, 11),
            blocks |-> <<Block("WebPage", 3, {"prose"}), Block("Product", 5, {"offer", "veiled", "override"}),
                         Block("Review", 60, {"card"})>>,
            meta |-> [text |-> Text({"meta"}, FALSE, 0), data |-> [rich |-> TRUE, shown |-> {"override"}]],
            posts |-> NoText, odd |-> FALSE]

\* A thread of a forum: hardly any prose, posts on demand, numbers of both kinds.
Thread == [raw |-> Text({"prose", "card", "serial", "tag", "exfil"}, TRUE, 1),
           trafilatura |-> [Text({"card"}, TRUE, 1) EXCEPT !.thin = TRUE],
           readability |-> Text({"card", "serial", "amex", "override", "veiled", "exfil"}, FALSE, 2),
           blocks |-> <<>>, meta |-> NoFind,
           posts |-> Text({"serial", "amex", "exfil", "override"}, TRUE, 0), odd |-> FALSE]

MCFetches == {[by |-> "browser", html |-> TRUE, page |-> Product],
              [by |-> "browser", html |-> TRUE, page |-> Thread],
              [by |-> "reader", html |-> FALSE, page |-> Thread],
              [by |-> "reader", html |-> TRUE, page |-> [Thread EXCEPT !.odd = TRUE]]}

MCStages ==
    [browser |-> [extractor |-> "trafilatura", converter |-> "markdownify", clean |-> TRUE, dedup |-> TRUE],
     reader |-> [extractor |-> "readability", converter |-> "html2text", clean |-> FALSE, dedup |-> FALSE]]

MCDigits == [card   |-> <<4,1,1,1,1,1,1,1,1,1,1,1,1,1,1,1>>,
             amex   |-> <<3,7,8,2,8,2,2,4,6,3,1,0,0,0,5>>,
             serial |-> <<4,1,1,1,1,1,1,1,1,1,1,1,1,1,1,2>>]

MCTypeOf == [override |-> "instruction_override", role |-> "role_hijack", tag |-> "fake_role_tag",
             exfil |-> "exfiltration_attempt"]
MCVeiled == [veiled |-> "role"]
MCPriority == [Product |-> 100, Review |-> 45, WebPage |-> 10]
MCThresholds == [patternAlert |-> 50, patternBlock |-> 85, scoreAlert |-> 60, scoreBlock |-> 90]

Screen(pattern, luhn, action) == [pattern |-> pattern, luhn |-> luhn, action |-> action, to |-> "none"]
MCPolicies ==
    <<[enabled |-> TRUE, applies |-> {"reader"}, outbound |-> <<>>,
       inbound |-> <<Screen({"amex", "card"}, TRUE, "redact"), Screen({"card"}, FALSE, "block")>>],
      [enabled |-> TRUE, applies |-> {}, outbound |-> <<>>,
       inbound |-> <<Screen({"serial"}, TRUE, "block"), Screen({"card"}, TRUE, "redact")>>]>>

\* Numbers of every length around those allowed.
Number(n, a, b, c) == [i \in 1..n |-> CASE i = n -> a [] i = n - 1 -> b [] i = n - 2 -> c
                                         [] OTHER -> (7 * i) % 10]
MCNumbers == {Number(n, a, b, c) : n \in 12..20, a \in 0..9, b \in 0..9, c \in 0..9}

MCBackends == {"good", "slow"}
MCSymmetry == Permutations(Callers)
MCCheckedSets == {{"searxng", "jina"}, {"searxng", "devdocs"}}

MCInit == /\ side \in {"pages", "health"}
          /\ Init /\ HealthInit
          /\ side = "pages" => checked = {"searxng", "jina"}
MCNext == \/ side = "pages" /\ Next /\ UNCHANGED <<side, healthVars>>
          \/ side = "health" /\ HealthNext /\ UNCHANGED <<side, vars>>
MCSpec == MCInit /\ [][MCNext]_<<vars, healthVars, side>>
=============================================================================
