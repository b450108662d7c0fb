------------------------------ MODULE Routing -------------------------------
(* How a request finds its provider: Tier 1 rules (Policy), the Tier 2 judge  *)
(* on a policy miss and on a provider's error (judge.py) with its cache of    *)
(* decisions, the screening of what goes out (Dlp), and the walk along the    *)
(* candidates that errors of the adapters (Adapters) steer (service.py).      *)
(*                                                                            *)
(* The configuration is replaced while requests are under way; the judge, its *)
(* cache's lifetime, the adapters and the DLP policies are those of the start *)
(* (main.py lifespan).  A decision is an object: what the judge has cached is *)
(* shared by all requests it is handed to, and requests write into it.        *)
(* Answers the walk rejects for their quality or a bot wall, and sessions,    *)
(* belong to Fallback and Pipeline.                                           *)
EXTENDS Naturals, Sequences, FiniteSets, Policy, Dlp, Adapters

CONSTANTS
    Reqs,          \* the requests
    Asks,          \* what a request may ask
    Configs,       \* the configurations a reload may bring
    FirstConfig,   \* that of the start
    Policies,      \* the DLP policies of the start, a sequence
    Cards,         \* the marks that are valid card numbers
    Registered,    \* the providers with an adapter
    ApiKeys,       \* those of them that have an API key
    Wire,          \* the replies of backends that are looked at
    Filters,       \* what breaker and quotas may make of the providers: the groups of those
                   \* let through, the least used first, the used up ones last
    Unknown,       \* a name without an adapter
    Fallbacks,     \* what the judge may name to fall back on
    JudgeTtl,      \* llm_judge.cache_ttl_seconds at the start
    MaxClock, MaxReloads    \* bounds

ASSUME RegisteredAssumption == Registered \subseteq DOMAIN Adapter
ASSUME UnknownAssumption == Unknown \notin Registered
ASSUME FallbacksAssumption == Fallbacks \subseteq {None, Unknown} \cup Registered
ASSUME FiltersAssumption ==
    \A groups \in Filters :
        /\ IsSequence(groups)
        /\ \A i, j \in DOMAIN groups : i # j => groups[i] \cap groups[j] = {}
ASSUME RulesAssumption ==
    \A c \in Configs : /\ c.provider["search"] # None /\ c.provider["extract"] # None
                       /\ IsSequence(c.chain) /\ IsSequence(c.rules)
                       /\ \A i \in DOMAIN c.rules : IsSequence(c.rules[i].chain)
ASSUME AsksAssumption ==
    \A ask \in Asks : /\ {"content", "text", "key"} \subseteq DOMAIN ask
                      /\ ask.content \in {"search", "extract"}
                      /\ ask.inline # NoRule => IsSequence(ask.inline.chain)
ASSUME PoliciesAssumption ==
    /\ IsSequence(Policies)
    /\ \A p \in DOMAIN Policies :
         /\ IsSequence(Policies[p].outbound)
         /\ \A i \in DOMAIN Policies[p].outbound :
              Policies[p].outbound[i].action \in {"block", "reroute", "redact", "log"}
ASSUME FirstConfigAssumption == FirstConfig \in Configs
ASSUME BoundsAssumption == {JudgeTtl, MaxClock, MaxReloads} \subseteq Nat

VARIABLES
    config,     \* the live configuration
    cache,      \* the judge's cache: key -> [object, at]
    heap,       \* the decision objects in use: <<request, n>> -> decision
    req,        \* the requests
    clock, reloads

vars == <<config, cache, heap, req, clock, reloads>>

Judge == "llm_judge"
TextProvider == "invisible_playwright"
Ended == {"done", "failed", "blocked", "crashed", "dry"}

\* A request that has not begun; "judged" and "sawOn" remember, for the properties, whether a
\* verdict was used and whether the judge was on at some time.
NoAsk == [content |-> None]
NoObject == <<>>
NoQuestion == [key |-> <<>>, caching |-> FALSE]
Fresh == [phase |-> "idle", ask |-> NoAsk, object |-> NoObject, asked |-> NoQuestion, sent |-> {},
          candidates |-> <<>>, head |-> None, idx |-> 0, failed |-> <<>>, judged |-> FALSE,
          sawOn |-> FALSE]

Init == /\ config = FirstConfig
        /\ cache = <<>>
        /\ heap = <<>>
        /\ req = [r \in Reqs |-> Fresh]
        /\ clock = 0
        /\ reloads = 0

\* Objects a request or the cache holds; others are gone.
InUse == {req[r].object : r \in Reqs} \cup {cache[key].object : key \in DOMAIN cache}
Collected(h) == heap' = [id \in DOMAIN h \cap InUse' |-> h[id]]

\* A request is over: nothing of it is left but how it ended and what failed it.
Over(q, phase) ==
    IF phase = "failed"
    THEN [Fresh EXCEPT !.phase = phase, !.failed = q.failed, !.object = q.object]
    ELSE [Fresh EXCEPT !.phase = phase]

FailedNames(failed) == {failed[i].name : i \in DOMAIN failed}
Dropped(f, key) == [k \in DOMAIN f \ {key} |-> f[k]]
With(f, key, value) == [k \in DOMAIN f \cup {key} |-> IF k = key THEN value ELSE f[k]]
Without(seq, out) == FoldLeft(LAMBDA kept, p : IF p \in out THEN kept ELSE Append(kept, p), <<>>, seq)

-----------------------------------------------------------------------------
(* The judge *)

\* The judge exists if it was enabled at the start.
JudgeExists == FirstConfig.judge.enabled

MissKey(ask) == <<"on_policy_miss", ask.content, ask.text, <<>>>>
RetryKey(ask, sent, failed) == <<"on_retry", ask.content, sent, failed>>

TriggersOnMiss == JudgeExists /\ config.judge.enabled /\ config.judge.onMiss

\* Fault: a switched off judge still hears of errors.
TriggersThoughOff(class) ==
    JudgeExists /\ (config.judge.onRetry \/ class \in config.judge.classes)

TriggersOnError(class) ==
    /\ JudgeExists
    /\ config.judge.onRetry \/ class \in config.judge.classes
    /\ config.judge.enabled

\* A cached decision for this question that is not too old.
Has(key) == /\ config.judge.caching
            /\ key \in DOMAIN cache
            /\ clock - cache[key].at <= JudgeTtl

\* Looking up a decision that is too old removes it.
LookedUp(key) ==
    IF config.judge.caching /\ ~Has(key) THEN Dropped(cache, key) ELSE cache

\* What is kept of a question while the model is asked: whether to cache is decided then.
Question(key) == [key |-> key, caching |-> config.judge.caching]

\* An answer the judge takes: an adapter there is, that has not failed, with confidence.
Taken(verdict, failed) ==
    verdict.provider \in Registered \ FailedNames(failed) /\ verdict.sure

\* Its decision; the provider to fall back on is not checked.
JudgeDecision(verdict) ==
    [policy |-> Judge, provider |-> verdict.provider,
     chain |-> IF verdict.fallback = None THEN <<verdict.provider>>
               ELSE <<verdict.provider, verdict.fallback>>]

\* What the model may answer; other replies give no verdict.
Verdicts == [provider : Registered \cup {Unknown},
             fallback : Fallbacks, sure : BOOLEAN]

-----------------------------------------------------------------------------
(* A request begins *)

\* Fault: what the screen decides stays with the screen.
ScreenedInVain(ask, h, i) ==
    LET out == CheckOutbound(Policies, ask.text, h[i].provider, Cards)
    IN  [heap |-> h, sent |-> ask.text,
         phase |-> IF ask.dry THEN "dry" ELSE IF out.action = "block" THEN "blocked" ELSE "screened"]

\* With the decision in hand: plain text of a page no rule is about is the browser's, a
\* dry run ends, and the screen blocks, reroutes or, in a search, redacts.  What changes
\* of the decision is written into its object.
Screened(ask, h, i) ==
    LET ours == IF ask.asText /\ h[i].policy = None /\ ask.provider = None
                THEN [h EXCEPT ![i].provider = TextProvider] ELSE h
        out  == CheckOutbound(Policies, ask.text, ours[i].provider, Cards)
    IN  CASE ask.dry -> [heap |-> ours, phase |-> "dry", sent |-> {}]
          [] ~ask.dry /\ out.action = "block" ->
               [heap |-> ours, phase |-> "blocked", sent |-> {}]
          [] ~ask.dry /\ out.action = "reroute" ->
               [heap |-> [ours EXCEPT ![i].provider = out.to],
                phase |-> "screened", sent |-> ask.text]
          [] ~ask.dry /\ out.action \notin {"block", "reroute"} ->
               [heap |-> ours, phase |-> "screened",
                sent |-> IF ask.content = "search" THEN out.text ELSE ask.text]

\* Request r goes on with object i of heap h.
GoesOn(r, ask, h, i, seen) ==
    LET s == Screened(ask, h, i)
    IN  /\ req' = [req EXCEPT ![r] = [seen EXCEPT !.phase = s.phase, !.ask = ask,
                       !.object = i, !.asked = NoQuestion, !.sent = s.sent]]
        /\ Collected(s.heap)

Begun(ask) == [Fresh EXCEPT !.ask = ask, !.sawOn = config.judge.enabled]

\* Tier 1 decides, or the judge is not asked.
Start(r, ask) ==
    LET d == Evaluate(config, ask)
    IN  /\ req[r].phase = "idle"
        /\ d.policy # None \/ ~TriggersOnMiss
        /\ UNCHANGED <<config, cache, clock, reloads>>
        /\ GoesOn(r, ask, With(heap, <<r, 0>>, d), <<r, 0>>, Begun(ask))

\* No rule matched and the judge has decided this before: that object is used.
StartCached(r, ask) ==
    LET key == MissKey(ask)
    IN  /\ req[r].phase = "idle"
        /\ Evaluate(config, ask).policy = None /\ TriggersOnMiss /\ Has(key)
        /\ UNCHANGED <<config, cache, clock, reloads>>
        /\ GoesOn(r, ask, heap, cache[key].object,
                  [Begun(ask) EXCEPT !.judged = TRUE])

\* No rule matched: the judge's model is asked, with Tier 1's decision kept aside.
StartAsking(r, ask) ==
    LET key == MissKey(ask)
        d == Evaluate(config, ask)
    IN  /\ req[r].phase = "idle"
        /\ d.policy = None /\ TriggersOnMiss /\ ~Has(key)
        /\ req' = [req EXCEPT ![r] = [Begun(ask) EXCEPT !.phase = "asking",
                       !.object = <<r, 0>>, !.asked = Question(key)]]
        /\ cache' = LookedUp(key)
        /\ Collected(With(heap, <<r, 0>>, d))
        /\ UNCHANGED <<config, clock, reloads>>

\* The cache after a verdict on r's question was made object i.
Kept(r, i) ==
    IF req[r].asked.caching
    THEN With(cache, req[r].asked.key, [object |-> i, at |-> clock]) ELSE cache

\* The model answers: its verdict is the decision.
AnswerMiss(r, verdict) ==
    LET i == <<r, 1>>
    IN  /\ req[r].phase = "asking"
        /\ Taken(verdict, <<>>)
        /\ cache' = Kept(r, i)
        /\ UNCHANGED <<config, clock, reloads>>
        /\ GoesOn(r, req[r].ask, With(heap, i, JudgeDecision(verdict)), i,
                  [req[r] EXCEPT !.judged = TRUE])

\* The model fails, is not understood, is unsure or names no adapter: Tier 1's decision holds.
NoAnswerMiss(r) ==
    /\ req[r].phase = "asking"
    /\ UNCHANGED <<config, cache, clock, reloads>>
    /\ GoesOn(r, req[r].ask, heap, req[r].object, req[r])

\* An answer whose "choices" is null lets a TypeError out, which nothing catches.
JudgeBreaks(r) ==
    /\ req[r].phase \in {"asking", "asking_retry"}
    /\ req' = [req EXCEPT ![r] = Over(@, "crashed")]
    /\ UNCHANGED <<config, cache, clock, reloads>>
    /\ Collected(heap)

-----------------------------------------------------------------------------
(* The walk along the candidates *)

\* filter_available: the groups in their order, with the candidates of each in theirs.
Filtered(candidates, groups) ==
    FlattenSeq([n \in DOMAIN groups |-> Without(candidates, Range(candidates) \ groups[n])])

\* The candidates are the decision's provider, as it is now, and the others of its chain.
Walk(r, groups) ==
    LET d == heap[req[r].object]
        left == Filtered(<<d.provider>> \o Without(d.chain, {d.provider}), groups)
    IN  /\ req[r].phase = "screened"
        /\ req' = [req EXCEPT ![r] =
              IF left = <<>> THEN Over(@, "failed")
              ELSE [@ EXCEPT !.phase = "calling", !.candidates = left, !.head = d.provider,
                             !.idx = 1]]
        /\ UNCHANGED <<config, cache, clock, reloads>>
        /\ Collected(heap)

Candidate(r) == req[r].candidates[req[r].idx]
Reply(r, reply) == Outcome(Candidate(r), req[r].ask.content, reply, ApiKeys)

\* Fault: a provider moved to the front also keeps its place further on.
InsertedTwice(candidates, name, pos) == InsertAt(candidates, pos, name)

\* The name at this position, and nowhere behind it.
Inserted(candidates, name, pos) ==
    SubSeq(candidates, 1, pos - 1) \o <<name>>
        \o Without(SubSeq(candidates, pos, Len(candidates)), {name})

\* The request after one more failure, sent on to the provider it is redirected to.
Redirected(q, name) ==
    [q EXCEPT !.phase = "calling", !.candidates = Inserted(@, name, q.idx + 1),
              !.idx = @ + 1, !.asked = NoQuestion]

\* The request after one more failure, with the next candidate or none.
Advanced(q) ==
    IF q.idx = Len(q.candidates)
    THEN Over(q, "failed")
    ELSE [q EXCEPT !.phase = "calling", !.idx = @ + 1, !.asked = NoQuestion]

\* What an error rule is asked: nobody's request with the text that was sent.
ErrorAsk(r) == [req[r].ask EXCEPT !.key = Nobody, !.text = req[r].sent]

Served(r, reply) ==
    /\ req[r].phase = "calling"
    /\ Candidate(r) \in Registered
    /\ Reply(r, reply).kind = "result"
    /\ req' = [req EXCEPT ![r] = Over(@, "done")]
    /\ UNCHANGED <<config, cache, clock, reloads>>
    /\ Collected(heap)

\* A name without an adapter is a KeyError; an adapter may let an exception out.
Crashed(r, reply) ==
    /\ req[r].phase = "calling"
    /\ IF Candidate(r) \in Registered THEN Reply(r, reply).kind = "escape" ELSE TRUE
    /\ req' = [req EXCEPT ![r] = Over(@, "crashed")]
    /\ UNCHANGED <<config, cache, clock, reloads>>
    /\ Collected(heap)

\* Fault: the rules are not asked once the judge would be.
RuleTargetBehindJudge(r, class, failed) ==
    IF TriggersOnError(class) THEN None
    ELSE LET to == EvaluateForError(config, class, ErrorAsk(r))
         IN  IF to \in FailedNames(failed) THEN None ELSE to

\* Where Tier 1 sends a request after this error: never to a provider that has failed it.
RuleTarget(r, class, failed) ==
    LET to == EvaluateForError(config, class, ErrorAsk(r))
    IN  IF to \in FailedNames(failed) THEN None ELSE to

\* What the judge has cached for this error, unless it has failed meanwhile.
CachedTarget(key, failed) ==
    LET to == heap[cache[key].object].provider
    IN  IF to \in FailedNames(failed) THEN None ELSE to

\* The candidate fails: a rule redirects the request, or the judge's cache does, or its
\* model is asked, or the next candidate is called.
Fail(r, reply) ==
    LET class == Reply(r, reply).class
        failed == Append(req[r].failed, [name |-> Candidate(r), class |-> class])
        q == [req[r] EXCEPT !.failed = failed]
        rule == RuleTarget(r, class, failed)
        key == RetryKey(req[r].ask, req[r].sent, failed)
        asks == rule = None /\ TriggersOnError(class)
    IN  /\ req[r].phase = "calling"
        /\ Candidate(r) \in Registered
        /\ Reply(r, reply).kind = "error"
        /\ cache' = IF asks THEN LookedUp(key) ELSE cache
        /\ req' = [req EXCEPT ![r] =
             IF rule # None THEN Redirected(q, rule)
             ELSE IF ~asks THEN Advanced(q)
             ELSE IF ~Has(key) THEN [q EXCEPT !.phase = "asking_retry", !.asked = Question(key)]
             ELSE LET to == CachedTarget(key, failed)
                      used == [q EXCEPT !.judged = TRUE]
                  IN  IF to = None THEN Advanced(used) ELSE Redirected(used, to)]
        /\ UNCHANGED <<config, clock, reloads>>
        /\ Collected(heap)

\* The model answers on a failure: its provider is called next.
AnswerRetry(r, verdict) ==
    LET i == <<r, 1 + Len(req[r].failed)>>
    IN  /\ req[r].phase = "asking_retry"
        /\ Taken(verdict, req[r].failed)
        /\ cache' = Kept(r, i)
        /\ req' = [req EXCEPT ![r] = [Redirected(@, verdict.provider) EXCEPT !.judged = TRUE]]
        /\ UNCHANGED <<config, clock, reloads>>
        /\ Collected(With(heap, i, JudgeDecision(verdict)))

NoAnswerRetry(r) ==
    /\ req[r].phase = "asking_retry"
    /\ req' = [req EXCEPT ![r] = Advanced(@)]
    /\ UNCHANGED <<config, cache, clock, reloads>>
    /\ Collected(heap)

-----------------------------------------------------------------------------
\* The configuration is read again.
Reload(new) ==
    /\ reloads < MaxReloads /\ new # config
    /\ config' = new
    /\ reloads' = reloads + 1
    /\ req' = [r \in Reqs |-> [req[r] EXCEPT !.sawOn = @ \/ (new.judge.enabled /\
                                   req[r].phase \notin Ended \cup {"idle"})]]
    /\ UNCHANGED <<cache, heap, clock>>

Tick == /\ clock < MaxClock
        /\ clock' = clock + 1
        /\ UNCHANGED <<config, cache, heap, req, reloads>>

StartsAny(r) == \E ask \in Asks : Start(r, ask) \/ StartCached(r, ask) \/ StartAsking(r, ask)
AnswersAny(r) == \E verdict \in Verdicts : AnswerMiss(r, verdict) \/ AnswerRetry(r, verdict)
CallsAny(r) == \E reply \in Wire : Served(r, reply) \/ Crashed(r, reply) \/ Fail(r, reply)

\* What carries a request on that has begun.
Moves(r) ==
    \/ AnswersAny(r) \/ NoAnswerMiss(r) \/ NoAnswerRetry(r) \/ JudgeBreaks(r)
    \/ \E groups \in Filters : Walk(r, groups)
    \/ CallsAny(r)

Next ==
    \/ \E r \in Reqs : StartsAny(r) \/ Moves(r)
    \/ \E new \in Configs : Reload(new)
    \/ Tick

Spec == Init /\ [][Next]_vars

-----------------------------------------------------------------------------
(* Properties *)

\* What the redacting rules before the i-th are about.
RedactedBefore(rules, i) ==
    UNION {rules[j].pattern : j \in {k \in 1..i-1 : rules[k].action = "redact"}}

\* The policy for a provider has nothing left to do on a text: nothing of it would be
\* blocked or rerouted, nor, in a search, redacted.  The URL of an extraction is sent as it
\* is, and what its redacting rules would take out of it the rules behind them never see.
Cleared(provider, content, text) ==
    \A p \in DOMAIN Policies :
        (Policies[p].enabled /\ p = SelectPolicy(Policies, provider)) =>
            \A i \in DOMAIN Policies[p].outbound :
                LET rules == Policies[p].outbound
                    found == rules[i].pattern \cap text \cap (IF rules[i].luhn THEN Cards ELSE text)
                    hits == IF content = "search" THEN found ELSE found \ RedactedBefore(rules, i)
                IN  hits = {} \/ rules[i].action = "log"
                              \/ (rules[i].action = "redact" /\ content = "extract")

\* A policy reroutes this text to a provider whose own policy has more to do on it: it is
\* not screened again for where it is rerouted to, and goes there as the caller wrote it.
SentUnscreened(ask, provider) ==
    \E p \in DOMAIN Policies :
        LET scan == Scan(Policies[p].outbound, ask.text, Cards)
        IN  /\ HasAction(scan, "reroute") /\ RerouteTarget(scan) = provider
            /\ CheckOutbound(Policies, ask.text, provider, Cards).action \notin {"pass", "log"}

\* The provider a request is sent to first, when that is the decision's own, is one the
\* request's text may go to as it is sent, or one that a policy reroutes it to: screening
\* comes after the judge's verdict, and what one request writes into a decision it shares
\* never moves another to a provider its own text was not screened for.  Fallbacks and
\* redirects are not screened.  (service.py:234-269, judge.py:378-382)
HeadCleared ==
    \A r \in Reqs :
        (req[r].phase = "calling" /\ req[r].idx = 1 /\ req[r].candidates[1] = req[r].head) =>
            \/ Cleared(req[r].head, req[r].ask.content, req[r].sent)
            \/ SentUnscreened(req[r].ask, req[r].head) /\ req[r].sent = req[r].ask.text

\* No provider fails a request twice, however rules and judge redirect it: a redirect is
\* never to one that failed, and a provider that is moved to the front is not met again
\* further on; so no request is sent to and fro.  It supposes that the decision's own chain
\* names no provider twice, which neither the configuration nor the judge's fallback is
\* checked for.  (service.py:1295-1298, 1342-1355)
NoProviderFailsTwice ==
    \A r \in Reqs :
        (req[r].failed # <<>> /\ IsInjective(heap[req[r].object].chain)) =>
            \A i, j \in DOMAIN req[r].failed :
                req[r].failed[i].name = req[r].failed[j].name => i = j

\* A verdict routes a request only if the judge was on at some time since the request
\* began: switched off by a reload, it decides nothing new, from its cache neither.
\* (judge.py:299-301, 324-331)
JudgedOnlyOn == \A r \in Reqs : req[r].judged => req[r].sawOn

JustFailed(r) == Len(req'[r].failed) > Len(req[r].failed)

\* The rules an error of this class on a request of r is covered by.
Covering(r, class) ==
    {i \in DOMAIN config.rules :
        /\ class \in config.rules[i].errors
        /\ req[r].ask.content \in config.rules[i].content
        /\ Nobody \in config.rules[i].keys
        /\ \A c \in config.rules[i].wants : c \cap req[r].sent # {}}

RuleDecides(r) ==
    LET class == req'[r].failed[Len(req'[r].failed)].class
    IN  \A i \in Covering(r, class) :
          LET to == DecisionFromRule(config, config.rules[i], req[r].ask.content).provider
          IN  (\A j \in Covering(r, class) : i <= j) /\ to \notin FailedNames(req'[r].failed) =>
                req'[r].phase = "calling" /\ req'[r].candidates[req'[r].idx] = to

\* An error some rule covers sends the request where the first of these rules says, in the
\* next call and without the judge, unless that provider has failed; rules that are about
\* one key's requests are never among them.  (service.py:1155-1189, 1274-1301)
RuleGoesFirst == [][\A r \in Reqs : JustFailed(r) => RuleDecides(r)]_vars
=============================================================================
