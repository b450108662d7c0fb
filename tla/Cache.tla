--------------------------------- MODULE Cache ---------------------------------
(***************************************************************************)
(* The response cache: CacheStore (cache/store.py), its keys (cache/keys.py*)
(* and the rules that give an entry its time to live (cache/ttl.py).       *)
(*                                                                         *)
(* Every operation runs in a thread, under one lock: it is one action.     *)
(* The clock is replaced by the entries' ages, in ticks, up to MaxAge.     *)
(* A criterion of a rule or of an invalidation is the set of what it       *)
(* matches: URLs and queries are Targets, a missing criterion matches all. *)
(***************************************************************************)
EXTENDS Naturals, Sequences, FiniteSetsExt, Functions

CONSTANTS
  Targets,        \* what is asked for: URLs and queries
  Providers,
  TtlRules,       \* cache.rules: sequence of [kinds, targets, providers, ttl]
  DefaultTtl,     \* cache.default_ttl
  MaxAge          \* ages saturate here

Kinds == {"search", "extract"}
Ages == 0..MaxAge

ASSUME CacheAssumption ==
  /\ MaxAge \in Nat
  /\ DefaultTtl \in Ages
  /\ TtlRules \in Seq([kinds: SUBSET Kinds, targets: SUBSET Targets,
                       providers: SUBSET Providers, ttl: Ages])

VARIABLE cache            \* key -> [page, age, ttl], for the keys stored

CacheInit == cache = << >>

\* Fault: the form of the page is not in the key.
KeyFormless(shape) ==
  [kind |-> shape.kind, target |-> shape.target, form |-> "any",
   profile |-> shape.profile, provider |-> shape.provider]

\* search_key and extract_key: what a request asks for and how, and the provider
\* it was routed to, which need not be the one that answers.
Key(shape) ==
  [kind |-> shape.kind, target |-> shape.target, form |-> shape.form,
   profile |-> shape.profile, provider |-> shape.provider]

\* resolve_ttl: the first rule every criterion of which is met.
ResolveTtl(kind, target, provider) ==
  LET matching == {i \in DOMAIN TtlRules :
                     /\ kind \in TtlRules[i].kinds
                     /\ target \in TtlRules[i].targets
                     /\ provider \in TtlRules[i].providers}
  IN IF matching = {} THEN DefaultTtl ELSE TtlRules[Min(matching)].ttl

Live(key) == key \in DOMAIN cache /\ cache[key].age < cache[key].ttl

Dropped(keys) == cache' = Restrict(cache, DOMAIN cache \ keys)

\* Fault: an entry that is read becomes young again.
CacheGetRenewing(key) ==
  IF Live(key) THEN cache' = [cache EXCEPT ![key].age = 0] ELSE Dropped({key})

\* get: an entry that has reached its time to live is deleted by the read.
CacheGet(key) == IF Live(key) THEN UNCHANGED cache ELSE Dropped({key})

\* set: INSERT OR REPLACE.
CacheSet(key, page, ttl) ==
  cache' = [k \in DOMAIN cache \cup {key} |->
              IF k = key THEN [page |-> page, age |-> 0, ttl |-> ttl] ELSE cache[k]]

\* invalidate: every criterion must hold of an entry; without one, flush.  An
\* entry's provider is the one that answered; a search has no URL to match.
CacheInvalidate(targets, providers) ==
  Dropped({k \in DOMAIN cache :
             /\ targets = Targets \/ (k.kind = "extract" /\ k.target \in targets)
             /\ cache[k].page.by \in providers})

Older(age) == IF age < MaxAge THEN age + 1 ELSE MaxAge

CacheAges == cache' = [k \in DOMAIN cache |-> [cache[k] EXCEPT !.age = Older(@)]]
===============================================================================
