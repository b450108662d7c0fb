----------------------------- MODULE MCRouting ------------------------------
(* Two requests, three adapters, a judge that a reload switches off and on.  *)
EXTENDS Routing

MCRegistered == {"searxng", "exa", "jina"}

Ask(content, text) ==
    [content |-> content, text |-> text, key |-> "k1", provider |-> None, inline |-> NoRule,
     asText |-> FALSE, dry |-> FALSE]

Everywhere(search, extract) == [search |-> search, extract |-> extract]
Rule(name, provider) ==
    [name |-> name, errors |-> {}, content |-> {"search", "extract"}, keys |-> {"k1", Nobody},
     wants |-> {}, provider |-> provider, chain |-> <<None>>]

Docs == [Rule("docs", Everywhere(None, "jina")) EXCEPT !.wants = {{"docs"}}, !.chain = <<"exa">>]
Busy == [Rule("busy", Everywhere("exa", "exa")) EXCEPT !.errors = {"429", "rate_limited"}]
Mine == [Rule("mine", Everywhere("jina", "jina")) EXCEPT !.errors = {"None"}, !.keys = {"k1"}]

MCAsks ==
    {Ask("search", {"secret", "name"}),
     Ask("extract", {"docs"}),
     [Ask("search", {"secret"}) EXCEPT !.provider = "jina"],
     [Ask("search", {"name"}) EXCEPT !.inline = Rule("inline", Everywhere("jina", None))],
     [Ask("extract", {}) EXCEPT !.asText = TRUE]}

On == [rules |-> <<Docs, Busy, Mine>>, provider |-> Everywhere("searxng", "jina"),
       chain |-> <<"exa", "jina">>,
       judge |-> [enabled |-> TRUE, onMiss |-> TRUE, onRetry |-> FALSE,
                  classes |-> {"None", "rate_limited", "429"}, caching |-> TRUE]]
Off == [On EXCEPT !.rules = <<Busy>>, !.judge.enabled = FALSE, !.judge.onRetry = TRUE]

MCConfigs == {On, Off}
\* All are let through; those without an adapter; these first, and one that is used up last.
Others == {"ghost", TextProvider}
MCFilters == {<<MCRegistered \cup Others>>, <<Others>>, <<{"jina"} \cup Others, {"searxng"}>>}
MCSymmetry == Permutations(Reqs)

MCPolicies ==
    <<[enabled |-> FALSE, applies |-> {}, outbound |-> <<>>, inbound |-> <<>>],
      [enabled |-> TRUE, applies |-> {"searxng"}, inbound |-> <<>>,
       outbound |-> <<[pattern |-> {"name"}, luhn |-> FALSE, action |-> "redact", to |-> None],
                      [pattern |-> {"secret"}, luhn |-> FALSE, action |-> "reroute", to |-> "exa"]>>],
      [enabled |-> TRUE, applies |-> {"jina"}, inbound |-> <<>>,
       outbound |-> <<[pattern |-> {"docs"}, luhn |-> FALSE, action |-> "redact", to |-> None],
                      [pattern |-> {"secret", "docs"}, luhn |-> FALSE, action |-> "block", to |-> None]>>],
      [enabled |-> TRUE, applies |-> {"exa"}, inbound |-> <<>>,
       outbound |-> <<[pattern |-> {"name"}, luhn |-> FALSE, action |-> "redact", to |-> None]>>]>>
=============================================================================
