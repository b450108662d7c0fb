# Verification of the web gateway

TLA+ models of the gateway in `src/src/serp_llm`, the TLC runs that check them on
small instances, and proofs for every value of their constants.  Paths below are
relative to `src/src/serp_llm` unless they start with `docs` or `PRD`, which are
relative to `src`.

The gateway takes search and extract requests over HTTP and MCP, decides which
provider should serve each one, calls it, falls back to others when it fails,
checks and post-processes what comes back, and caches it.  It is one asyncio
process: a handler runs undisturbed from one suspension point (`await` of
something that really waits) to the next.  SQLite calls are synchronous, so a
database operation and the code around it are one atomic step; provider calls,
the judge's calls and the semaphore are where other requests interleave.

## 1. Inventory

| Component | State | Operations | What is hard | What makes it correct |
|---|---|---|---|---|
| Circuit breaker (`resource_manager.py`) | one SQLite row per provider: state, failure count, window start, opening instant, cooldown | `record_failure`, `record_success`, `get_circuit_state` (writes!), `reset_circuit` | outcomes arrive late and out of order; reads change the state; rows survive restarts into another configuration | opens only on enough failures inside one window, stays open for its cooldown, never for good |
| Fallback (`service.py` `_execute_with_fallback`) | candidate list, position, failed providers, cookie flag, original browser provider | the loop, redirects by error policy and judge, bot solvers, cookie retry | the loop rewrites the list it iterates over; the filter is applied once; exceptions that nothing handles | terminates, tries every admitted candidate before failing, does not go back to a failed provider |
| Concurrency limit (`service.py`) | `asyncio.Semaphore` | `async with` around the fallback | permits on every way out | permits conserved, no starvation |
| Pipelines (`service.py` `search`, `extract`) | none of their own | policy, judge, session, cache, provider, login wall, post-processing, injection check, cache write, audit | what is read before an `await` and used after | the cache is written only with accepted results; one audit entry per request |
| Quotas (`resource_manager.py`) | `provider_usage` rows, alert flags | `record_usage`, `get_quota_info`, `override_quota`, `reset_quota` | two calendar windows over one log; negative rows | use never negative, exhausted exactly at the limit, one alert per process, not lost |
| Response cache (`cache/`) | SQLite rows with TTL | get, set, invalidate, flush | fill after invalidation; expiry boundary | nothing expired or invalidated is served |
| Judge (`judge.py`) | in-memory `DecisionCache` | triggers on a miss and on an error, evaluation, cache | cached decisions are shared mutable objects; a reload while the model is asked; it names providers that failed or do not exist | a verdict is used only while the judge is on, and never sends a request back to a provider that failed it |
| Policy engine (`policy/engine.py`) | none (reads the live configuration) | rules for requests and for errors | order, defaults, criteria; precedence over the judge | the first rule that applies decides, before the judge |
| Registry and health (`providers/registry.py`) | adapters, health map with a lifetime | get, has, health check | concurrent refreshes, the slowest backend holds up all | what is reported was so a bounded time ago |
| Rate limiter (`ratelimit/`) | deques of timestamps | check, check several, prune | boundaries; all-or-nothing; reload | never more than the limit in the part of the window it remembers, no refusal below it |
| Sessions (`sessions/`) | encrypted files | resolve, invalidate, save, admin | expiry and invalidation during use | an expired session is not used |
| Alerting (`injection/events.py`, `alerting/`) | last dispatch per event and provider, pending tasks | log event, dispatch | suppression window, deliveries that fail, a clock that starts at boot | withheld only for an alert that was tried |
| Keys (`key_store.py`, `auth.py`, `admin_session.py`) | SQLite keys, keys of the file, signed cookies and csrf tokens | create, revoke, verify, login, logout, reload | three sources of keys; cookies that outlive their key; bootstrap key | a revoked key stays out, a cookie's access ends, an admin always has a way in |
| Post-processing (`post_processing/`) | dedup store (SQLite) | strategy, extractor, conversion, cleaning, comparison | order of stages, what structured data brings back | a page called unchanged is unchanged |
| Injection detection (`injection/`) | settings of the start | patterns, classifier, choice of action, scrubbing, exemptions | two ladders of thresholds, live and started settings side by side | what is found is acted on, in the text that is served |
| DLP (`dlp/`) | policies of the start | outbound and inbound check | rules see what earlier rules left; check digits | nothing goes out or comes in that the provider's policy refuses |
| Adapters (`providers/`) | none | search, extract, health check | which class an error gets, which exceptions escape | every outcome is one the walk handles, or is known to escape |

Interactions.  A pipeline asks the policy engine (and the judge on a miss) for a
provider, screens the request (outbound URL check, DLP), resolves a browser
session, looks the cache up, and then waits for the semaphore.  Under the permit
`_execute_with_fallback` reads circuits and quotas once, calls providers, reports
each error to the circuit breaker, and asks error policy and retry judge for
redirects.  What comes back is reported to the circuit breaker and the usage log,
tested for a login wall (which deletes the session), post-processed, checked for
injections and by DLP, audited, and cached.  `/health`, the dashboards and the
admin routes read and write the same circuits, quotas, sessions and cache entries
from other tasks.

## 2. Plan

The order is: what every request passes through first, then what surrounds it.

1. `CircuitBreaker`, with the abstract `BreakerPromise` and the refinement in
   `CircuitBreakerHistory`; proofs of coherence.  *Done.*
2. `Fallback` over `CircuitBreaker`: semaphore, walk, solvers; proof that permits
   are conserved.  *Done.*
3. `Cache`, `Sessions`, and `Pipeline` over both: search and extract around the
   walk; proofs of the cache's, the sessions' and the audit log's safety.  *Done.*
4. `RateLimiter`: the sliding windows, the prune task, reloads.  *Done.*
5. `Usage` over `Alerts`: the usage log, its two calendar windows, override and
   reset, and the alerts it raises; the abstract `QuotaPromise`, which the log is
   shown to implement, and a proof of how far a limit is overshot.  *Done.*
6. `Keys`: keys of the store and of the file, bootstrap key, cookies; proofs of
   all its safety properties.  *Done.*
7. `Routing` over `Policy`, `Dlp` and `Adapters`: how a request finds its provider,
   with the judge's cache of shared decisions.  *Done.*
8. `Inspection` over `Dlp`, and `Health` over `Adapters`: what callers are told; a
   proof for the health map.  *Done.*
9. Proofs of the invariants and action properties of every module, and of both
   refinements.  *Done*; what stays with TLC is liveness (section 5).

Runs are kept few: components that meet at a state they share are checked in one
run.  `answers` holds two small components that share nothing, one of which rests
while the other moves.

## 3. Modules and the code

### CircuitBreaker, CircuitBreakerHistory, BreakerPromise

`row[p]` is a row of `circuit_breaker_state`, `config` the configuration the
process was started with (`Restart` starts it with another; the rows stay).
`RecordFailure` is `record_failure`, split into the four ways it can go
(`FailureIgnored`, `FailureHalfOpen`, `FailureOpen`, `FailureClosed`);
`RecordSuccess`, `GetCircuitState(s)` and `ResetCircuit` are the methods of the same
names.  Reading a state writes it: an open row whose cooldown is over becomes
half-open in whatever reads it.  Each method runs between two suspension points, so
it is one action.

Time is an age per instant: `window` and `opened` are how long ago the code's
`window_start_ts` and `opened_at_ts` were, `NoTime` if they are NULL.  `Tick` makes
them older, up to `MaxAge`, beyond every duration in the configurations.  This
takes the wall clock to be monotone.  `last_failure_ts` is written and never read
for a decision, and is left out.

`CircuitBreakerHistory` records, beside each row, the ages of the latest failures
since a success and the age and cooldown of the latest opening.  `BreakerPromise`
says what a breaker owes its callers in these terms only; `KeepsPromise` is the
refinement, with `circuit` and `policy` read off the row and the configuration.

### Fallback

`req[r]` is a request's local state in `_execute_with_fallback`: candidates,
position, providers that failed, the original browser provider, and whether stored
cookies were used.  `permits` and `queue` are the semaphore (asyncio grants it in
order), `jar` says that FlareSolverr's cookies are in the session store.  A request
is suspended in the queue, in a provider's operation, or in the judge's call;
`Begin`, `Accepted`, `Solved`, `LowQuality`, `BlockedWithCookies`, `Blocked`, `Errored`
and `Judged` are what happens between two suspensions, each with the whole tail of
the loop's body that it runs, including the report to the circuit breaker.
`record_success` comes from the pipeline after the walk, without a suspension
between them, and belongs to the action that ends it.

`Those` keeps the members of a list that are in a set, and `ByUse` sorts them by what the
quotas say of them; both are used by `FilterAvailable` and by the rewriting of the list.

Inputs: `Routes` (policy and judge decisions), `ErrorRule` (error policy), `JudgedErrors`
and the verdict (retry judge), all of which `Routing` opens up, `Standings` (what the
quotas say of each provider when the candidates are filtered).  A provider without an
adapter raises `KeyError` out of the loop: `pc = "crashed"`.

### Cache, Sessions, Pipeline

`cache` maps keys to entries; a key is the record of what `search_key` or
`extract_key` hash, with `form` for the parameters that select how a page is
processed.  `CacheGet`, `CacheSet`, `CacheInvalidate` are the store's operations, each
under its lock; statistics only read.  `sessions` maps ids to session files;
`Resolves`/`AfterResolve` are `SessionManager.resolve`, the others the admin's routes.
Left out: use counts and fingerprints, which decide nothing, and files that
cannot be decrypted.  FlareSolverr's own entries live under names with a slash and
are `jar` of Fallback.

`Pipeline` puts search and extract around the walk.  `Arrive` runs from the arrival to
the first wait: outbound URL check, DLP (block, reroute, redact), session, cache
flags.  `Lookup` is the cache read and, on a hit, the rest of the request, which
changes nothing another request sees.  `Walk` is the end of the walk, whose inside is
`Fallback`: any page that may have been fetched between its start and its end, an
error, or an exception that nothing handles.  `Settled` is everything up to the audit
entry in the code's order: login wall, injection, DLP.  `Store` is the cache write,
with the ttl of the provider that answered and the key of the one that was asked.

`config` is the live `prompt_injection` section, which `Reload` replaces and which says who
is exempt; `detector` is what the process was started with, and does with its finds what
was set then.  `Checked` asks both, as `extract` does.  A page carries in `check`, which the
code does not have, what became of it there: it passed a check that stops what it
finds, was waived (exempt, switched off, only alerted of), or was not processed at
all.  The key holds none of this, so a waived page may answer a request that is to be
checked; `CheckedAnswers` says that an injection has no other way to such a request.

The audit writes, metrics and `record_usage` between the end of the walk and the
cache write are not points where anything the model compares can change, so the
steps between them are merged; an answer is complete when it is read from the
cache.  Policy and judge are before `Arrive`; their decision is `Shapes`.

### RateLimiter

`buckets` is the limiter's dictionary of deques; an entry is the age of a request, oldest
first, so the code's `popleft` loop is `Within`, which cuts before the first entry that is
young enough.  `Admitted` and `Refused` are the two ways `check_multi` ends for the checks
the middleware puts together (`Checks`): the client always, the key only if the token is
one of the configuration's keys, `Examined` for those that phase 1 reaches before it
raises.  The lock never waits, as nothing suspends under it, so a check is one action.
`config` is what the middleware reads at each request and `Reload` replaces; `started` is
what the limiter was built with, whose windows `Prune` uses.  `log` and `recently` are for
the properties only: what was admitted, whatever was trimmed, pruned or refused since, and
how long ago each configuration was in force.  From the latter `Remembers` tells how far
back the limiter can know what it admitted, which is less than the window in force only
after a reload has made it longer.  `check`, the single-window variant, has no caller.

### Usage, Alerts, QuotaPromise

`rows[p][d]` is the sum of `cost_units` of the rows of `provider_usage` for a provider
and a day; `MonthUse` and `DayUse` are the two queries of `get_quota_info`, which
`QuotasRead` models with its alerts and its flag `alerted`.  `Admit` is the quota part of
`filter_available`, `Finish` is `record_usage` in the step that takes the answer,
`OverrideQuota` and `ResetQuota` are the admin's.  The units of a call are an input
(`Costs`); the service passes none (section 7), so what is checked is what the quotas
do once calls are charged.

`Alerts` is `log_event`, which creates a task per event, and `dispatch` up to its first
wait.  The tasks run in the order of their creation.  `last` is `_last_dispatch`, `Uptime`
what the monotonic clock shows at the start, as the code takes a missing entry
for one at zero.

`QuotaPromise` knows no log: two counters per provider that start again at zero.  The
limits and amounts both speak of are in `QuotaLimits`.
`Usage!KeepsPromise` is the refinement, with the counters read off the rows.

### Keys, KeysClaims

A token stands for a secret and for the id of its key.  `FoundRole` is the order in
which `_find_key` asks the file, the store and the bootstrap key; REST and MCP have the
same order.  `BeginCall` and `EndCall` bracket a request.  `cookie` and `form` are what a
browser holds; the server keeps no list of sessions, so `SignedIn` looks at signature
and age only.  `seen` is for the properties: when each token was last good for an
admin.  `KeysClaims` holds the documented first login.

### Policy, Dlp, Adapters, Routing

`Policy`, `Dlp` and `Adapters` are pure.  A text is the set of marks the patterns find in it,
a pattern the set of marks it matches; a card number is a mark with digits.
`Adapters` is a table: for each adapter the operations it has, what becomes of each
reply of its backend (a status, a good, empty, failed or garbled body, no answer), and
what its health check makes of it.  The class of an error is what
`str(error_class or status_code)` gives, which is what rules and judge compare.

`Routing` composes them.  A decision is an object in `heap`, named by the request that
made it; the judge's `cache` and requests refer to objects, and `Screened` writes into
them, as `service.py` does.  A request is suspended while the judge's model is asked and
while a provider is; `Start`, `StartCached`, `StartAsking`, `AnswerMiss`, `NoAnswerMiss`,
`JudgeBreaks` (the exception nothing catches), `Walk`, `Served`, `Crashed`, `Fail`,
`AnswerRetry` and `NoAnswerRetry` are what happens between.  `Filters` is what the breaker
and the quotas make of the candidates (`filter_available`): groups in the order of their
use, those used up last, less whoever is kept out.  `Reload` replaces the live
configuration; policies of DLP, adapters, the judge's existence and the lifetime of its
cache are those of the start.

### Inspection, Health

`Inspection` is `PostProcessingPipeline.run` with what `extract` does after it.  There is no
wait in it that lets another request in, so `Extract` is one action: strategy or
extractor (`Extracted`), conversion, cleaning, comparison (`Remembered`, `Unchanged`),
detection (`Detect`, `Scrubbed`), inbound DLP (`Answered`).  Texts carry, beside their
marks, what the extractors weigh.  Third-party extractors, converters and the
classifier are inputs.  `detector` is what was built at the start, `config` what is live:
both are asked whether to inspect.

`Health` is `health_check_all` for concurrent callers: `AskHealth` takes what is recent and
starts the checks, `Answer` is one adapter's, `Gathered` writes what all of them said with
the time of the last.  A check ends within `MaxProbe`, the timeouts of the adapters.

## 4. Runs

| Run | Instance | What it shows |
|---|---|---|
| `breaker` | one provider; own entry, default entry, none, switched off; ages to 4, three remembered failures | rows coherent, `OpenIsLeftCooled`, refinement `KeepsPromise`, and `OpenEnds` under fairness |
| `fallback_walk` | one request, five providers (two solvers, one without adapter), chains with repetitions, all error rules, verdicts and standings | `FailsOnlyExhausted`, `CallBudget`, `NoRetryAfterError`, and that the walk ends |
| `fallback_traffic` | two requests, one permit, two providers, circuits that open at one failure | `PermitsConserved`, no starvation, `AdmissionRespectsCircuits`, `HealthReturns` |
| `pipeline_aging` | two requests of one URL, two providers with different ttl, an override, three versions of the page | `EventuallyCurrent` |
| `pipeline_checks` | two callers, six kinds of requests over three targets and one provider, every defect a page may have; the injection check blocks and exempts a key, or scrubs and exempts a domain | `CacheHoldsAccepted`, `AuditedOnce`, `CheckedAnswers` |
| `pipeline_sessions` | requests with and without a session, one profile, login walls, expiry | `SessionsStayPrivate`, `GoneStaysGone` |
| `ratelimit` | one client, a configured and a stored key, three configurations: windows of 0, 1 and 3, limits of 1 and 2, and one that switches limiting off | `RefusedOnlyFull`, `NeverOverLimit`, and `QuietForgotten` under fairness |
| `usage` | two requests, a provider with a monthly limit of 2 and a daily one of 1, one without limits that redirects reach, three days over two months, a chain that names a provider twice, overrides up, down and below zero, one restart, three waiting tasks | refinement `KeepsPromise`, `OvershootBounded`; `ThresholdToldOnce`, `WithheldOnlyCovered` |
| `keys` | two keys of the store, one of the file, the bootstrap key, one browser with a cookie of another making, sessions of 2 and forms of 1 ticks, one restart with a new secret | `RevokedStaysOut`, `StaleAccessBounded`, `AlwaysAnAdmin` |
| `claim_first_login` | one browser, a fresh deployment | a documented statement that is false (section 7) |
| `routing` | two requests, five things to ask, three adapters and a name without one, three rules, two configurations, DLP policies that redact, reroute and block, one of them for the provider a text is rerouted to, every verdict, filters that let all through, only names without an adapter, or some in another order | `HeadCleared`, `NoProviderFailsTwice`, `JudgedOnlyOn`, `RuleGoesFirst` |
| `answers` | two pages by two providers, callers inspected, exempt and asking for HTML, three configurations; and two callers of `/health`, three providers, two sets of them to be asked | `UnchangedMeansSame`, `FlaggedNeverServed`, `DetectedActedOn`, `InboundCleared`, `LuhnAgrees`; `ReportedRecent` |

Why the bounds are enough.  Rows of different providers do not influence each
other, so one provider with every configuration is the breaker's whole state
space; ages saturate beyond the longest window and cooldown.  A walk interacts
with others only through circuits, cookies and permits: `fallback_walk` has one
request with all the list rewriting, and `Environment` for the others' effects on
cookies; `fallback_traffic` has two requests contending for a permit and for
circuits.  A threshold of one opens a circuit by one failure, which makes the
stale admission and the late answer happen within two requests.  In the pipeline
every hazard needs at most two requests of one key (one that fills, one that
reads, or the fill that overtakes) and the admin.  An injection gets to
a checked request by another that was not: two callers, one of them exempt, and the
two settings, since each reload and restart between them mixes a live exemption with
the other detector.  In the rate limiter it takes a client whose window a key's refusal
might charge, windows of different lengths for both, and a reload that makes the
client's window longer than twice those of the start (3 against 1), so that the task
prunes what the window in force would count; a second client would use other
buckets.  `MaxAge` is beyond twice the longest window.

A quota is overshot by two requests admitted before either is charged, and the two windows
come apart with two days in a month and a day in the next.  A daily limit below the
monthly one makes each of them the binding one; alerts need three waiting tasks, as many
as one filter logs when a chain names a provider twice that is used up, and an uptime at
the suppression window so that early alerts are looked at.  The clock of `keys` outlasts a
session by a tick, so that a session taken just before its key is lost ends within the
run. In `routing` decisions are shared by two requests, and a third would find the same
object; a lifetime of zero makes a verdict expire with the first tick, which is what two
requests and a wait for the model need; the replies 200 and 429 and the escapes of `exa`
and the missing key are every kind of outcome, with classes that rules and judge tell
apart.  In `answers` one text is compared with the one before, so two pages of each URL
suffice; the Luhn test is compared with its reference on 10 000 numbers of each length
from 12 to 20 (the three last digits vary).  Health needs two callers to write over each
other, and time enough for a map that was kept, expired and was refreshed once more.

The runs with liveness properties use no symmetry; of the others all but
`pipeline_sessions` permute requests, keys or callers.  `usage` and `keys` switch the
deadlock check off: the first ends with its last day and its bounds, the second with its
clock.  The other runs check it.

Fairness.  `FairSpec` of Fallback and of Pipeline has weak fairness for each
request's own steps: the event loop runs what is ready, provider and judge calls
are made with HTTP timeouts, SQLite answers.  Nothing makes requests arrive,
providers fail or the admin act.  Weak fairness of `Tick` is that time passes.
`HFairSpec` adds that circuits keep being read, as `/health` is polled by the
container's health check.  `HealthReturns` states its other needs in its premise:
no more errors and restarts, and admitted requests for that provider alone.  In
`RateLimiter`, `Prune` is weakly fair because its task sleeps and prunes for ever.
`PatientSpec` of `KeysClaims` is about the user, not the code: one who opens the form
again and again and sends it whenever the gateway takes it.

## 5. Proofs

Each invariant and each action property that a passing run checks is proved for every
value of the constants, and so are both refinements.

| Module | Theorems | Argument |
|---|---|---|
| `FallbackProofs`, the breaker by itself | `BreakerTyped`, `BreakerCoherent`, `BreakerHoldsOpen` | `BreakerInv`: configuration and rows typed, every row sound.  Opening instants and window starts are each tied to the state, which is inductive per row; a lemma per operation; `BreakerHoldsOpen` is an action property from the same invariant, as only half-open rows can be closed. |
| the breaker's promise | `BreakerKeepsPromise` | `HistoryInv` ties a row to what is remembered beside it: each failure a closed row counts is remembered and no older than the row's window, the opening of an open one is the latest opening, and its cooldown is the one it was opened with.  From it each operation is a step of `BreakerPromise` or none; that a row opens on enough failures in one window, which the row itself has forgotten, needs the witness. |
| the requests | `PermitsSafe` | `PermitInv`: the shape of the records, the queue holds exactly waiting requests and none of them twice, and permits plus holders are `MaxConcurrent`.  Without the queue's part a permit could be granted to a request that already holds one.  `BecomesInv` does the cardinality once, and each action says which way it changes the holders. |
| | `RequestsTyped`, `RequestsHoldOpen` | every step of `Fallback` is a step of the breaker or leaves it alone, so what holds of the breaker by itself holds with requests between its operations. |
| | `FailuresExhaust`, `CallsAreBounded`, `FailedAreSpared`, `AdmissionsRespectCircuits` | `WalkInv`: the list, however it is rewritten, keeps whoever was admitted and whoever failed, and how far the walk can still get (`Reach`) stays within the budget.  The position alone is not inductive: `Reach` adds to the list's length a redirect for each registered provider that has not failed, the places ahead of those that have, the solvers that are missing, and the retry with cookies, and each step that lengthens the list pays for it from these.  A failed provider is called again only as the next of the list as it stood, or with cookies, which `NoRetryAfterError` allows for. |
| `PipelineProofs` | `SessionsPrivate`, `CacheAccepted`, `LoggedOnce`, `ChecksHold`, `SessionsStayGone`, `PipelineTyped` | `PipelineInv`: records typed (`Typed`), what a request holds at each point of its way (`Sound`), its audit entries (`AuditsCounted`), and of the cache that each entry is a page some request was let have under its key (`StoredSound`): an injection in a processed page is one that was waived.  The last is what makes an answer from the cache no worse than what was accepted before; `ChecksHold` follows from it for the cache and from `SeenSound` for the walk, without any assumption on who shares a key. |
| `UsageProofs` | `UsageKeepsPromise`, `OvershootIsBounded` | the log implements two counters: `UsageInv` says that the days after today have no rows, so that the sums over the month's and the day's rows are the counters, and a new day or month starts them at zero.  Sums over a window are folds, and their lemmas come first.  The bound counts requests that hold the provider: each may still add a call, and a provider that is used up gets no new ones. |
| | `ThresholdIsToldOnce`, `WithheldAreCovered` | `AlertsInv`: `WindowsInv`: the dispatcher's entry of an event is the time it was last tried, and zero if it never was; `ToldInv`: an alert waits once at most and never after it was tried, who waits or was tried has the flag, and who has the flag waits or was tried unless the event is not subscribed or the machine is up too short.  That a chain may name a provider twice needs the flag to be set between two readings of one filter (`Notices`). |
| `KeysProofs` | `KeysTypeCorrect`, `RevocationIsFinal`, `StaleAccessEnds`, `NeverLockedOut` | a cookie with the secret of this process was made when its key was good for an admin, so it is no younger than what `seen` has of the key; forms and foreign cookies never turn into such a cookie.  A login needs the key anew, which is why the age cannot be renewed. |
| `RateLimiterProofs` | `LimiterTyped`, `RefusedAreOver`, `AdmittedAreUnder` | `LimiterInv` compares two counts for each name and age, what is in the bucket and what was admitted (`Agrees`): the same up to the age the limiter remembers (`Known`), as neither trimming by a window that was in force since nor pruning touches younger entries; no more in the bucket than admitted at any age.  The second is why a refusal is deserved, the first why the limit holds, through reloads and prunes with other windows. |
| `RoutingProofs` | `VerdictsOnlyOn` | `JudgeInv`: a request under way has seen the judge on if it is, and so has who waits for its model or was given a verdict. |
| | `NoneFailsTwice` | `WalkInv`: the objects a request makes are numbered, so none is made over one in use; decisions never change their chain; what failed is the candidates before the current one, and they are distinct, also after the filter has put them in order (`FilteredKeeps`).  Moving a provider to the front keeps them so, because it is taken out behind. |
| | `HeadIsCleared` | `ScreenInv`: in the judge's cache an object belongs to one question (`GoodCache`), so whoever shares it asks the same; a screened request's text may go where its object says (`GoodScreen`).  When another request's reroute is written into the object, the first was rerouted as well, since the same text meets the same policy; this is what makes the sharing harmless. |
| | `RulesGoFirst` | the search for the first covering rule, as a lemma about `Evaluate`, and the walk's invariant. |
| `AnswersProofs` | `LuhnIsCheckDigit`, `CardsAreTold`, `UnchangedIsSame`, `DetectionActs`, `NothingFlagged`, `InboundIsCleared` | `PagesInv`: the store holds, for each URL, the text that was compared last, and the detector is that of some configuration; what an answer leaves in the text comes from the lemmas on scans and scrubbing, one for each stage.  The check digit is compared with its reference as two sums over the digits, of any length. |
| | `HealthIsRecent` | `HealthInv`: what is kept was seen at most a probe before it was kept, and what a request knows was, when the request began, at most the lifetime and a probe old.  A request lasts at most a probe, which gives the second one of the bound.  That two requests overwrite each other needs no order between them, as each writes only what it saw itself. |
| `DataProofs` | `ScanFindsAll`, `InboundClears`, `OutboundClears` | folds over sequences are recursive functions, and that such a function exists is a lemma shown by induction (`FoldExists`).  The library states induction for an operator, which the provers cannot instantiate; `SetInduction` states it for a set of numbers, and the property becomes the set of the numbers that have it.  A scan by a policy is then a trace of texts, one per rule (`ScanIsTrace`), and what each rule sees, finds and takes out is read off it: `ScanFindsAll` says which rules are among the matches, what a later rule removed included. |

Assumptions are the `ASSUME`s of the modules proved about, which every run of them
evaluates.  Most say what type the configuration or a request schema gives an input:
chains, rules, policies and digits are sequences, actions are among those listed, what
can be counted (requests, providers, injection types) is finite.  Lengths of time,
limits of quotas and of rates, and error thresholds are natural numbers, which the
configuration does not enforce; a negative one is taken for a mistake.  The rest bound
the models (`MaxAge` is beyond the windows, `MaxStreak` no less than the thresholds) or say
that names differ: tokens of the store, of the file and of the environment, and the
name that has no adapter.

Where a property says less than one might expect, it is because the code does:

- `HeadCleared` exempts texts a policy reroutes to a provider whose own policy has more
  to do on them (`SentUnscreened`).  `service.py:263` and `552` do not screen them again;
  in `routing` one policy does so, and the property without the exemption fails there.
- `Cleared` and `OutboundClears` count as seen by a rule what the redactions before it
  have left: a blocking rule behind a redacting one never meets what that takes out, and
  the URL of an extraction is then sent with it.
- `NoRetryAfterError` lets a provider that failed be called again with the cookies of a
  solved challenge, and where its place in the list is the next one anyway: nothing in
  the loop looks a candidate up among the failed, and a chain may name a provider twice.
- `AdmissionRespectsCircuits` is about the step that filters.  A circuit that opens, or a
  quota that runs out, while the request walks its list is not looked at again, and
  redirects and solvers are not filtered at all (section 7).
- `CheckedAnswers` exempts answers from the cache that a request was let have who was
  exempt or came under another setting (section 7).
- `NeverOverLimit` counts as far back as the limiter remembers.  After a reload to a longer
  window a client may have its new limit although the old one was just used up, and
  after one to more than twice the windows of the start it may again whenever the task
  has pruned its bucket; in `ratelimit` both happen (section 7).
- `ThresholdToldOnce` is once for the life of a process, not for a month, and lets alerts be
  lost that come before the machine is up `suppress_seconds`.
- `NoProviderFailsTwice` supposes a chain that names none twice.
- `CallBudget` counts positions, and so one more for a request that crashed, whose last
  candidate has no adapter and is not called.
- `WithheldOnlyCovered` lets an event pass that is tried twice in one tick, which leaves no
  trace in `tried`.
- `DetectedActedOn` and `FlaggedNeverServed` suppose an alert threshold above zero
  (`CleanIsBelow`).  With `heuristic_score_alert: 0`, which nothing refuses, a text in which
  nothing is found is detected and no action is taken (`detector.py:102-106`, `175`).

Only model-checked is liveness, `OpenEnds`, `RequestsEnd`, `HealthReturns`, `EventuallyCurrent`
and `QuietForgotten`: they rest on weak fairness, and so on `ENABLED`, which the proof system
does not handle; and the violation of `claim_first_login`.  `RequestsEnd` has its
bound proved (`CallsAreBounded`); what TLC adds is that each call is made.  The prover
cannot unfold `SelectSeq`, which is why the models say `Those`, `Within` and `QuotasRead`
with functions and folds, whose recursion is over numbers.  The type invariants of
Fallback, Pipeline and RateLimiter are proved and listed in no run.

## 6. Not modelled

- Wording and bytes: contents of pages, queries and log entries, regular
  expressions (a pattern is what it matches), prompts, flattening of structured
  data to text, parsing of the backends' results, rendering.
- Third parties: extractors, converters, the classifier, the judge's model, browser
  sidecars, mail and webhook transports.  What they may answer is an input.
- `security/url_validator.py` and `proxy.py`: functions of a URL, of name resolution and
  of a name, without state; that a URL may be refused is in `Pipeline`.
- `injection/judge.py`, `SlidingWindowRateLimiter.check` and `SessionManager.touch`, which nothing
  calls; fingerprints, which decide nothing.
- Request schemas and the views of the admin pages, which only read.
- Clock steps backwards, failing SQLite calls, more than one process.
- In `Policy`: `errors` that are not given and an empty list are two things to the code
  (`engine.py:95`).  `{}` is the first; the second is a class that no error has.
- In `Routing`: how much of its quota a provider has used, of which only the order and
  who is kept out are left (`Filters`).
- In `Routing`: answers rejected for their quality, bot walls and sessions, which are in
  `Fallback` and `Pipeline`.  In `Usage`: the circuits' part of the filter, in `Fallback`.

`PROJECT.json` lists every component with its status, and `hazards` with the line each
bites at, the ones no property covers included.

## 7. Disagreements between documents and code

Checked by a run:

- `claim_first_login`: `docs-src/docs/getting-started/bootstrap-key.md:25` has the first
  admin log in with the bootstrap key.  `login_submit` demands a csrf token first, which
  is tied to an `admin_session` cookie that only a login sets, so a browser without such
  a cookie never gets in.

Seen while reading, without a run of their own.  Resilience:

- `docs-src/docs/operations/circuit-breaker.md:10` says an open provider is not
  attempted; the candidates are filtered once (`service.py:1057`), and redirects and
  solvers join them unfiltered.
- `circuit-breaker.md:11` allows a single probe after the cooldown; every request is
  admitted to a half-open provider, and a success of a call made before the circuit
  opened closes it.
- `record_failure` ignores the error class, though `circuit-breaker.md:23` and
  `config.py:290` configure `trip_on`; and its window starts at the first failure, though
  the comment at `resource_manager.py:185` calls it sliding.
- The docstring at `service.py:1043` promises a retry of the browser provider after a
  solved challenge; the branch falls through to `return` (`service.py:1154`).
- The cookies of a solved challenge (`flaresolverr-handoff-design.md:25`) are saved under
  a name with a slash, in a directory nobody creates (`sessions/store.py:35`), and the
  exception ends the request.
- `docs-src/docs/operations/alerts.md:11` alerts when a provider's monthly usage crosses its
  threshold; the flag is never cleared (`resource_manager.py:332`), so a process tells it
  in the first month it happens and in no later one, nor after `reset_quota`.
- `docs-src/docs/configuration/config-yaml.md:96` and `98` promise a limit within the sliding
  window, and the docstring of the prune task that it goes by "the max window"; it goes
  by that of the start (`limiter.py:69`), so after a reload to more than twice as long
  it drops requests the window in force still counts.
- `quota.md:3` speaks of cost units; `record_usage` is called without them
  (`service.py:363`), so no quota is ever reached.
- `README.md:67` and ADR 001 speak of hot reload; DLP policies, limiter, proxies,
  detector, post-processing, alerts, quotas, judge, semaphore and MCP keep the
  configuration of the start.

Routing:

- Error classes in the defaults ("timeout", "429", "bot_detected") are not those the
  adapters mostly give ("None", "rate_limited", "403"); see `Adapters`.
- The judge is called fail-open (`judge.py:258`); a reply whose `choices` is null raises a
  `TypeError` that nothing catches.  Its `fallback_if_fail` is not validated, and may be
  the provider itself or a name without an adapter, which ends the walk in a `KeyError`.
- The judge is asked, and decides, also for requests that name their provider.
- Error rules are evaluated for no key at all (`service.py:1292`), so those with
  `api_key_id` never match.
- `allowed_providers` (`policy/models.py:44`, `policy-engine.md:34`), `dlp_policy`,
  `retry_strategy` and `max_attempts` are read and never enforced.
- A DLP reroute may name no target; fallbacks and redirects are not screened; when a
  text is both to be redacted and rerouted the redaction is dropped, and `extract` does
  not redact at all.

Answers and logs:

- `docs-src/docs/operations/monitoring.md:5` says every request is logged; an injection
  block (`service.py:827`) and a refused URL are not.
- `PRD-addendum-5.md:159` keeps blocked content from the agent and the cache; an exempt
  request stores it under the key of the others (`service.py:953`), and an answer from the
  cache is not inspected.
- `structured_data` is returned as found: neither searched for injections nor screened.
- "scrub" after a finding of the classifier alone changes nothing; with
  `on_pattern_match` milder than `on_high_score` a higher score gets the milder action.
- The comment in `post_processing/pipeline.py` gives agents both, the strategy's content
  and the page; the strategy's content takes the page's place.
- `content_unchanged` (`PRD-addendum-4.md:153`) is remembered also of a page that is
  then blocked.
- `PRD-addendum.md:110` invalidates the entry of a key when a page fails validation;
  `service.py:944` leaves it.
- `last_check_ts` of `/health` is the present, for cached values too.

Access:

- The docstring at `auth.py:7` makes the bootstrap key good while the table is empty;
  it is good while there is no active admin key.  So `bootstrap-key.md`, which has it
  rejected "once any admin key has been created", does not hold either: when the last
  admin key is revoked it comes back (`auth.py:73`).
- `docs-src/docs/configuration/config-yaml.md:96` limits requests per API key; the
  middleware knows the keys of the configuration file only, not those of the key
  store, which are limited by client alone.
- `docs-src/docs/sessions/lifecycle.md:13` and `bot-protected-sites.md:123` fall back to
  other providers after a login wall; the request is refused, as
  `PRD-addendum-2.md:341` says.
