------------------------------ MODULE Adapters ------------------------------
(* The provider adapters (providers/): what each makes of a reply of its      *)
(* backend.  A call ends with a result, with a ProviderError of some class    *)
(* (what str(error_class or status_code) gives: "None" when neither is set)   *)
(* or with an exception that is no ProviderError.                             *)
(*                                                                            *)
(* A row tells what an adapter does: the operations it supports; whether it   *)
(* refuses to call without an API key; the classes it names itself; what it   *)
(* does with a transport error and with a body that is not what it expects    *)
(* ("error", "escapes" or "result"); the operations in which an empty and a   *)
(* failed answer are errors; the replies its health check calls healthy.      *)
EXTENDS Naturals, Sequences, TLC

Statuses == {"401", "402", "403", "429", "500", "503", "520"}
Bodies == {"good", "empty", "failed", "garbled"}
Transport == {"unreachable", "slow"}
Replies == Statuses \cup Bodies \cup Transport

\* How most of the adapters behave.
Plain == [supports |-> {"search"}, keyed |-> FALSE, named |-> <<>>, unsupported |-> "None",
          transport |-> "error", body |-> "escapes", empty |-> {}, failed |-> {},
          healthy |-> Bodies]

\* On a 429 Brave is asked once more: the reply is that of the last attempt.
Brave == [Plain EXCEPT !.keyed = TRUE]

Tavily == [Plain EXCEPT !.supports = {"search", "extract"}, !.keyed = TRUE,
                        !.empty = {"extract"}, !.failed = {"extract"}]

SearXNG == Plain

JinaReader == [Plain EXCEPT !.supports = {"extract"}, !.body = "result"]

Exa == [Plain EXCEPT
    !.supports = {"search", "extract"}, !.keyed = TRUE, !.transport = "escapes",
    !.named = <<"search", "429">> :> "rate_limited"
              @@ <<"search", "402">> :> "credits_exhausted",
    !.healthy = Bodies \cup {"401", "402", "429"}]

Perplexity == [Plain EXCEPT !.keyed = TRUE, !.transport = "escapes",
                            !.named = <<"search", "429">> :> "rate_limited",
                            !.healthy = Bodies \cup {"401", "403"}]

Context7 == [Plain EXCEPT !.transport = "escapes",
                          !.healthy = Bodies \cup {"401", "402", "403", "429"}]

\* The ddgs package reports errors of its own; the status is lost.
DuckDuckGo == [Plain EXCEPT
    !.body = "error", !.healthy = Bodies \ {"garbled"},
    !.named = [r \in {"search"} \X (Statuses \cup {"slow"}) |->
                 CASE r[2] = "429" -> "rate_limited" [] r[2] = "slow" -> "timeout"
                   [] r[2] \notin {"429", "slow"} -> "None"]]

\* What cannot be loaded is as if it were empty.
DevDocs == [Plain EXCEPT !.transport = "result", !.body = "result"]

CdpChrome == [Plain EXCEPT !.supports = {"extract"},
                           !.named = <<"extract", "503">> :> "service_unavailable",
                           !.healthy = {"good"}]

Crawl4AI == [Plain EXCEPT !.supports = {"extract"}, !.empty = {"extract"},
                          !.failed = {"extract"}]

Crawl4AIMd == [Plain EXCEPT !.supports = {"extract"}, !.failed = {"extract"}]

Firecrawl == [Plain EXCEPT !.supports = {"search", "extract"}, !.failed = {"extract"}]

FlareSolverr == [Plain EXCEPT !.supports = {"extract"}, !.failed = {"extract"},
                              !.healthy = {"good"}]

InvisiblePlaywright == [Plain EXCEPT !.supports = {"extract"}, !.unsupported = "not_supported"]

Zyte == [Plain EXCEPT !.supports = {"extract"}, !.keyed = TRUE]

\* The adapter behind a provider's name; other names have none.
Adapter == [brave |-> Brave, tavily |-> Tavily, searxng |-> SearXNG, jina |-> JinaReader,
            exa |-> Exa, perplexity |-> Perplexity, context7 |-> Context7,
            duckduckgo |-> DuckDuckGo, devdocs |-> DevDocs, cdp_chrome |-> CdpChrome,
            crawl4ai |-> Crawl4AI, crawl4ai_md |-> Crawl4AIMd, firecrawl |-> Firecrawl,
            firecrawl_selfhosted |-> Firecrawl, flaresolverr |-> FlareSolverr,
            invisible_playwright |-> InvisiblePlaywright, zyte |-> Zyte]

Result == [kind |-> "result", class |-> ""]
Failure(class) == [kind |-> "error", class |-> class]
Escape == [kind |-> "escape", class |-> ""]

As(manner) == CASE manner = "result" -> Result
                [] manner = "error" -> Failure("None")
                [] manner = "escapes" -> Escape

\* How a call of an operation ends when the backend replies so.
Outcome(name, operation, reply, keys) ==
    LET a == Adapter[name]
    IN  CASE operation \notin a.supports -> Failure(a.unsupported)
          [] operation \in a.supports /\ a.keyed /\ name \notin keys -> Failure("None")
          [] OTHER ->
               CASE <<operation, reply>> \in DOMAIN a.named -> Failure(a.named[<<operation, reply>>])
                 [] <<operation, reply>> \notin DOMAIN a.named ->
                      CASE reply \in Transport -> As(a.transport)
                        [] reply \in Statuses ->
                             IF a.transport = "result" THEN Result ELSE Failure(reply)
                        [] reply = "garbled" -> As(a.body)
                        [] reply = "empty" ->
                             IF operation \in a.empty THEN Failure("None") ELSE Result
                        [] reply = "failed" ->
                             IF operation \in a.failed THEN Failure("None") ELSE Result
                        [] reply = "good" -> Result

\* What health_check returns; an exception it lets out counts as unhealthy.  Firecrawl's
\* cloud and Zyte are not called.
HealthCheck(name, reply, keys) ==
    IF name \in {"firecrawl", "zyte"} THEN name \in keys
    ELSE /\ reply \in Adapter[name].healthy
         /\ name \in {"brave", "tavily"} => name \in keys
=============================================================================
