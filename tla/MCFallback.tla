------------------------------ MODULE MCFallback ------------------------------
(* Small instances of Fallback. *)
EXTENDS Fallback

CONSTANTS a, b, c, fs, ip

Breaker(t, w, d) ==
  [error_threshold |-> t, window_seconds |-> w, cooldown_seconds |-> d]

BreakerOff == { [enabled |-> FALSE, providers |-> << >>] }
BreakerOn == { [enabled |-> TRUE, providers |-> [p \in {Default} |-> Breaker(1, 0, 1)]] }

Extract(p, chain) == [kind |-> "extract", provider |-> p, fallback_chain |-> chain]
Search(p, chain) == [kind |-> "search", provider |-> p, fallback_chain |-> chain]

\* A chain that repeats its primary and one of its own members, one that holds
\* a solver, one with a provider that has no adapter.
WalkRoutes ==
  { Extract(a, <<b, a>>), Extract(b, <<fs, a>>), Extract(a, <<c, b>>), Search(b, <<a>>), Extract(a, <<b,b>>)}

NoQuota == [p \in Providers |-> [pct |-> 0, exhausted |-> "no"]]

\* a is used more than the others, or exhausted in either way.
WalkStandings ==
  { NoQuota,
    [NoQuota EXCEPT ![a] = [pct |-> 1, exhausted |-> "no"]],
    [NoQuota EXCEPT ![a] = [pct |-> 2, exhausted |-> "fallback_only"]],
    [NoQuota EXCEPT ![a] = [pct |-> 2, exhausted |-> "remove_from_pool"]] }

\* One class the error policy sends to b, one to a, one to a provider that has no
\* adapter, one it does not know.
WalkRules == [e \in {"bot", "timeout", "login", "other"} |->
                CASE e = "bot" -> {b} [] e = "timeout" -> {a} [] e = "login" -> {c}
                  [] OTHER -> {}]

TrafficRoutes == { Search(a, <<b>>), Search(b, << >>), Search(a, << >>) }
TrafficStandings == { NoQuota }
TrafficRules == [e \in {"bot", "other"} |-> IF e = "bot" THEN {b} ELSE {}]
===============================================================================
