------------------------------ MODULE MCPipeline ------------------------------
(* Small instances of Pipeline. *)
EXTENDS Pipeline, TLC

CONSTANTS a, b, u, v, banned, p, d, direct, guest, own

Ask(kind, target, provider) ==
  [kind |-> kind, target |-> target, form |-> "processed", profile |-> NoProfile,
   provider |-> provider, proxy |-> direct, read |-> TRUE, write |-> TRUE,
   ttl |-> NoTtl, caller |-> guest, skips |-> FALSE]

Passes == [x \in Targets \X Providers |-> [blocks |-> FALSE, target |-> x[1], provider |-> x[2]]]

\* Detection is off.
Off == [enabled |-> FALSE, action |-> "alert", callers |-> {}, targets |-> {}]
NoDetection == {Off}

Rule(kinds, targets, providers, ttl) ==
  [kinds |-> kinds, targets |-> targets, providers |-> providers, ttl |-> ttl]

\* Time: a provider whose answers live one tick, any others two, an override.
AgingShapes ==
  { Ask("extract", u, a),
    [Ask("extract", u, a) EXCEPT !.read = FALSE, !.ttl = 1] }
AgingRules == << Rule(Kinds, Targets, {b}, 1), Rule({"extract"}, Targets, Providers, 2) >>

\* What is wrong with pages: raw and processed forms, an exempt caller, a query DLP
\* redacts (v) and one it blocks, a URL the outbound check refuses (v).
CheckShapes ==
  { Ask("extract", u, a), [Ask("extract", u, a) EXCEPT !.form = "raw"],
    [Ask("extract", u, a) EXCEPT !.caller = own],
    Ask("extract", v, a), Ask("search", v, a), Ask("search", banned, a) }
\* Detection blocks, and exempts a key; or it scrubs, and exempts a domain.
Detection ==
  { [enabled |-> TRUE, action |-> "block", callers |-> {own}, targets |-> {}],
    [enabled |-> TRUE, action |-> "scrub", callers |-> {}, targets |-> {u}] }
Screening ==
  [x \in Targets \X Providers |->
     [blocks |-> x[1] = banned, target |-> IF x[1] = v THEN u ELSE x[1], provider |-> x[2]]]

\* Sessions: with and without the profile, cached before and after.
Site == [x \in Domains |-> {u}]
SessionShapes ==
  { Ask("extract", u, a), [Ask("extract", u, a) EXCEPT !.profile = p],
    [Ask("extract", v, a) EXCEPT !.profile = p] }
NoRules == << >>

Symmetry == Permutations(Requests)
===============================================================================
