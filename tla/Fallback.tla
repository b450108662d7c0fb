------------------------------- MODULE Fallback -------------------------------
(***************************************************************************)
(* Requests on their way through the providers: the concurrency limit of   *)
(* GatewayService, and _execute_with_fallback (service.py) over the circuit*)
(* breaker it reads and feeds.                                             *)
(*                                                                         *)
(* The event loop suspends a request at three places only: in the queue of *)
(* the semaphore, in a provider's operation, and in the retry judge's call.*)
(* What lies between two of them is one action, and anything may happen to *)
(* the shared state (circuits, stored cookies, other requests) at them.    *)
(*                                                                         *)
(* A candidate list is built and filtered once, when the request gets its  *)
(* permit; the loop then walks it while redirects, solvers and cookie      *)
(* retries rewrite the part that is still ahead.                           *)
(***************************************************************************)
EXTENDS CircuitBreaker, SequencesExt

CONSTANTS
  Requests,        \* request slots
  MaxConcurrent,   \* limits.max_concurrent_requests
  Registered,      \* providers the registry has an adapter for
  FlareSolverr, InvisiblePlaywright,   \* the bot solvers, in this order
  Routes,          \* [kind, provider, fallback_chain] policy or judge may decide
  Standings,       \* what the quotas may say of the providers at one time
  ErrorRule,       \* error class -> set of at most one provider (error policy)
  JudgedErrors,    \* error classes the retry judge is asked about
  SessionsOn,      \* a session manager is configured
  CookieDir,       \* <store>/flaresolverr exists in the session store
  NoOne,           \* no original browser provider noted yet
  Validated        \* cache.invalidation_triggers is not empty

MaxPct == 2                          \* quota use, in levels
Quota == [pct: 0..MaxPct, exhausted: {"no", "remove_from_pool", "fallback_only"}]
ErrorClasses == DOMAIN ErrorRule

ASSUME FallbackAssumption ==
  /\ IsFiniteSet(Requests)
  /\ MaxConcurrent \in Nat \ {0}
  /\ Registered \subseteq Providers /\ IsFiniteSet(Registered)
  /\ FlareSolverr # InvisiblePlaywright
  /\ NoOne \notin Providers
  /\ \A route \in Routes :
       /\ route.kind \in {"search", "extract"}
       /\ route.provider \in Providers
       /\ route.fallback_chain \in Seq(Providers)
  /\ \A s \in Standings : \A p \in Providers : s[p] \in Quota
  /\ \A e \in ErrorClasses : ErrorRule[e] \subseteq Providers
  /\ JudgedErrors \subseteq ErrorClasses
  /\ {SessionsOn, CookieDir, Validated} \subseteq BOOLEAN

VARIABLES
  req,             \* request -> where it is in the loop
  queue,           \* requests waiting for the semaphore, first come first served
  permits,         \* free permits of the semaphore
  jar              \* unexpired FlareSolverr cookies are stored for the host

requestVars == <<req, queue, permits, jar>>
vars == <<breakerVars, requestVars>>

Suspended == {"calling", "judging"}            \* holds a permit
Ended == {"served", "poor", "failed", "crashed"}
ProviderList == Seq(Providers)

RequestRecord ==
  [pc: Suspended \cup Ended \cup {"idle", "queued"}, kind: {"search", "extract"},
   cands: ProviderList, idx: Nat \ {0}, failed: SUBSET Providers,
   browser: Providers \cup {NoOne}, cookies: BOOLEAN, admitted: ProviderList]

Idle ==
  [pc |-> "idle", kind |-> "search", cands |-> << >>, idx |-> 1, failed |-> {},
   browser |-> NoOne, cookies |-> FALSE, admitted |-> << >>]

Init ==
  /\ BreakerInit
  /\ req = [r \in Requests |-> Idle]
  /\ queue = << >>
  /\ permits = MaxConcurrent
  /\ jar = FALSE

-------------------------------------------------------------------------------
(***************************************************************************)
(* Candidate lists                                                         *)
(***************************************************************************)
\* Those of s that are in S, in their order.
Those(s, S) ==
  LET those[i \in 0..Len(s)] ==
        IF i = 0 THEN << >>
        ELSE IF s[i] \in S THEN Append(those[i - 1], s[i]) ELSE those[i - 1]
  IN those[Len(s)]

Without(s, p) == Those(s, Providers \ {p})

Candidates(route) == <<route.provider>> \o Without(route.fallback_chain, route.provider)

ByUse(s, S, standing) ==
  FlattenSeq([l \in 1..(MaxPct + 1) |-> Those(s, {p \in S : standing[p].pct = l - 1})])

\* Fault: the circuits are not asked.
FilterAvailableBlind(s, standing) ==
  LET Standing(how) == {p \in Providers : standing[p].exhausted = how}
  IN ByUse(s, Standing("no"), standing) \o ByUse(s, Standing("fallback_only"), standing)

\* filter_available; a disabled breaker reads as closed, no quota as [0, "no"].
FilterAvailable(s, standing) ==
  LET Standing(how) ==
        {p \in Providers : StateRead(p) # "open" /\ standing[p].exhausted = how}
  IN ByUse(s, Standing("no"), standing) \o ByUse(s, Standing("fallback_only"), standing)

\* Fault: what was still ahead is lost.
InsertCandidateTruncating(s, name, idx) == Append(SubSeq(s, 1, idx), name)

\* _insert_candidate: name becomes the next candidate, and only the next.
InsertCandidate(s, name, idx) ==
  SubSeq(s, 1, idx) \o <<name>> \o Without(SubSeq(s, idx + 1, Len(s)), name)

WithSolvers(s) == s \o Those(<<FlareSolverr, InvisiblePlaywright>>, Registered \ ToSet(s))

-------------------------------------------------------------------------------
(***************************************************************************)
(* The loop.  q is a request's record, s its candidates.                   *)
(***************************************************************************)
Current(q) == q.cands[q.idx]

\* Turn to candidate i of s: registry.get raises KeyError for a provider it has
\* no adapter for, which nothing in the loop or around it catches.
Try(q, s, i) ==
  [q EXCEPT !.cands = s, !.idx = i,
            !.pc = IF s[i] \in Registered THEN "calling" ELSE "crashed"]

\* The next candidate if there is one, otherwise the end given.
NextOr(q, s, end) ==
  IF q.idx < Len(s) THEN Try(q, s, q.idx + 1) ELSE [q EXCEPT !.cands = s, !.pc = end]

\* Fault: an exception keeps the permit.
BecomesLeaking(r, q2) ==
  /\ req' = [req EXCEPT ![r] = q2]
  /\ permits' = permits + IF q2.pc \in Suspended \cup {"failed", "crashed"} THEN 0 ELSE 1

\* r goes from q to the record q2; leaving the `async with` returns its permit.
Becomes(r, q2) ==
  /\ req' = [req EXCEPT ![r] = q2]
  /\ permits' = permits + IF q2.pc \in Suspended THEN 0 ELSE 1

Arrive(r) ==
  /\ req[r].pc \in Ended \cup {"idle"}
  /\ \E route \in Routes :
       req' = [req EXCEPT ![r] = [Idle EXCEPT !.pc = "queued", !.kind = route.kind,
                                              !.cands = Candidates(route)]]
  /\ queue' = Append(queue, r)
  /\ UNCHANGED <<breakerVars, permits, jar>>

\* The permit is granted, the candidates are filtered, the first one is called.
Begin(r) ==
  /\ queue # << >> /\ Head(queue) = r /\ permits > 0
  /\ queue' = Tail(queue)
  /\ \E standing \in Standings :
       LET s == FilterAvailable(req[r].cands, standing)
           q == [req[r] EXCEPT !.admitted = s]
           q2 == IF s = << >> THEN [q EXCEPT !.pc = "failed"] ELSE Try(q, s, 1)
       IN /\ req' = [req EXCEPT ![r] = q2]
          /\ permits' = permits - IF q2.pc \in Suspended THEN 1 ELSE 0
  /\ GetCircuitStates(ToSet(req[r].cands))
  /\ UNCHANGED jar

(***************************************************************************)
(* The operation returned a result that passes validation, or none is made.*)
(* _execute_with_fallback returns it, search and extract record the call.  *)
(***************************************************************************)
Calling(r) == req[r].pc = "calling"

Accepted(r) ==
  /\ Calling(r)
  /\ Becomes(r, [req[r] EXCEPT !.pc = "served"])
  /\ RecordSuccess(Current(req[r]))
  /\ UNCHANGED <<queue, jar>>

\* FlareSolverr answered with the cookies of a solved challenge.  They are saved
\* and, if a browser provider was blocked before, that provider is put next.
\* Without the directory SessionStore.save raises, and nothing handles it.
Solved(r) ==
  /\ Calling(r)
  /\ req[r].kind = "extract"
  /\ Current(req[r]) = FlareSolverr
  /\ IF SessionsOn /\ ~CookieDir
     THEN /\ Becomes(r, [req[r] EXCEPT !.pc = "crashed"])
          /\ UNCHANGED <<breakerVars, jar>>
     ELSE /\ LET q == req[r]
             IN Becomes(r, [q EXCEPT !.pc = "served", !.cookies = TRUE,
                  !.cands = IF q.browser = NoOne THEN @
                            ELSE InsertCandidate(@, q.browser, q.idx)])
          /\ RecordSuccess(FlareSolverr)
          /\ jar' = (jar \/ SessionsOn)
  /\ UNCHANGED queue

(***************************************************************************)
(* The operation returned a result the validator rejects.  The request     *)
(* that ends on one is answered with it, and records a success all the same*)
(***************************************************************************)
Rejected(r, q2) ==
  /\ Calling(r)
  /\ Validated /\ req[r].kind = "extract"
  /\ Becomes(r, q2)
  /\ IF q2.pc = "poor" THEN RecordSuccess(Current(req[r])) ELSE UNCHANGED breakerVars
  /\ UNCHANGED <<queue, jar>>

LowQuality(r) == Rejected(r, NextOr(req[r], req[r].cands, "poor"))

\* Fault: the flag that ends the cookie retries is not looked at.
HasCookiesAlways(r) == SessionsOn /\ jar

\* A bot block, and cookies of an earlier solution are stored: the provider that
\* was blocked first is put next, once per request.
HasCookies(r) == SessionsOn /\ jar /\ ~req[r].cookies

BlockedWithCookies(r) ==
  /\ HasCookies(r)
  /\ LET q == req[r]
         browser == IF q.browser = NoOne THEN Current(q) ELSE q.browser
     IN Rejected(r, NextOr([q EXCEPT !.browser = browser, !.cookies = TRUE],
                           InsertCandidate(q.cands, browser, q.idx), "poor"))

\* Without such cookies the solvers are tried after the other candidates.
Blocked(r) ==
  /\ ~HasCookies(r)
  /\ LET q == req[r]
         noted == IF q.browser = NoOne /\ Current(q) # FlareSolverr
                  THEN [q EXCEPT !.browser = Current(q)] ELSE q
     IN Rejected(r, NextOr(noted, WithSolvers(q.cands), "poor"))

(***************************************************************************)
(* The operation raised ProviderError of class e.  The error policy comes  *)
(* first, then the judge, which is awaited; neither may send the request   *)
(* to a provider that has failed it already.                               *)
(***************************************************************************)
\* Fault: a redirect may go to a provider that has failed.
AfterErrorAnyone(q, choice) ==
  IF choice = {} THEN NextOr(q, q.cands, "failed")
  ELSE Try(q, InsertCandidate(q.cands, CHOOSE p \in choice : TRUE, q.idx), q.idx + 1)

AfterError(q, choice) ==
  LET redirects == choice \ q.failed
  IN IF redirects = {} THEN NextOr(q, q.cands, "failed")
     ELSE Try(q, InsertCandidate(q.cands, CHOOSE p \in redirects : TRUE, q.idx), q.idx + 1)

Errored(r, e) ==
  /\ Calling(r)
  /\ LET q == [req[r] EXCEPT !.failed = @ \cup {Current(req[r])}]
     IN Becomes(r, IF ErrorRule[e] \subseteq q.failed /\ e \in JudgedErrors
                   THEN [q EXCEPT !.pc = "judging"]
                   ELSE AfterError(q, ErrorRule[e]))
  /\ RecordFailure(Current(req[r]))
  /\ UNCHANGED <<queue, jar>>

\* The judge names a provider it knows, or gives no usable verdict.
Judged(r) ==
  /\ req[r].pc = "judging"
  /\ \E verdict \in {{}} \cup {{p} : p \in Registered} :
       Becomes(r, AfterError(req[r], verdict))
  /\ UNCHANGED <<breakerVars, queue, jar>>

Answered(r) ==
  \/ Accepted(r)
  \/ Solved(r)
  \/ LowQuality(r)
  \/ BlockedWithCookies(r)
  \/ Blocked(r)
  \/ \E e \in ErrorClasses : Errored(r, e)

-------------------------------------------------------------------------------
\* Everything else that touches the shared state: /health and the dashboards
\* read every circuit, the admin resets one, an hour passes over the cookies.
Environment ==
  \/ GetCircuitStates(Providers) /\ UNCHANGED requestVars
  \/ \E p \in Providers : ResetCircuit(p) /\ UNCHANGED requestVars
  \/ Tick /\ UNCHANGED requestVars
  \/ jar /\ jar' = FALSE /\ UNCHANGED <<breakerVars, req, queue, permits>>

\* The process dies with its requests; rows and stored cookies survive.
GatewayRestart ==
  /\ Restart
  /\ req' = [r \in Requests |-> Idle]
  /\ queue' = << >>
  /\ permits' = MaxConcurrent
  /\ UNCHANGED jar

Step(r) == Begin(r) \/ Answered(r) \/ Judged(r)

Next ==
  \/ \E r \in Requests : Arrive(r) \/ Step(r)
  \/ Environment
  \/ GatewayRestart

Spec == Init /\ [][Next]_vars

\* The loop runs what it can run; a provider's operation and the judge's call
\* are bounded by the HTTP timeouts they are made with, so they end.
FairSpec ==
  /\ Spec
  /\ \A r \in Requests : WF_vars(Step(r))
  /\ WF_vars(Tick /\ UNCHANGED requestVars)

-------------------------------------------------------------------------------
Calls(r) ==                                   \* the step calls a provider for r
  /\ req'[r].pc = "calling"
  /\ req[r].pc # "calling" \/ req'[r].idx # req[r].idx

IsNext(q, p) == q.idx < Len(q.cands) /\ q.cands[q.idx + 1] = p

RequestTypeOK ==
  /\ req \in [Requests -> RequestRecord]
  /\ queue \in Seq(Requests)
  /\ permits \in 0..MaxConcurrent
  /\ jar \in BOOLEAN

\* The types of the breaker and of the requests.
TypeOK == BreakerTypeOK /\ RequestTypeOK

\* No permit of the semaphore is lost or given twice, on any way out of the
\* loop: a result, an error raised in it, an exception nobody handles.
PermitsConserved ==
  permits + Cardinality({r \in Requests : req[r].pc \in Suspended}) = MaxConcurrent

\* A request fails only when every provider it was admitted to has been called:
\* redirects, solvers and cookie retries, which rewrite the list while the loop
\* walks it, never push an untried candidate out of it.
FailsOnlyExhausted ==
  \A r \in Requests :
    req[r].pc \in {"failed", "poor"} =>
      ToSet(req[r].admitted) \subseteq ToSet(SubSeq(req[r].cands, 1, req[r].idx))

\* The walk is bounded although it lengthens its own list.  Beyond the admitted
\* candidates it calls two solvers and one browser retry, and what the errors
\* bring in: one redirect for the first error of each provider (the last of them
\* has nobody left to redirect to), and one for each error repeated by a
\* candidate the chain lists twice or by the browser retry.  The candidate a
\* request crashes at, having no adapter, is not called.
CallBudget ==
  \A r \in Requests :
    req[r].idx <= 2 * Len(req[r].admitted) + Cardinality(Registered) + 2
                    + IF req[r].pc = "crashed" THEN 1 ELSE 0

\* A provider whose error a request has seen is not called again for it, by a
\* redirect, a solver or a retry, unless cookies of a solved challenge came in
\* between, or its place in the list is the next one anyway: a chain that names a
\* provider twice has it called twice, whatever it answered before.
NoRetryAfterError ==
  [][\A r \in Requests :
       Calls(r) /\ Current(req'[r]) \in req[r].failed =>
         req'[r].cookies \/ IsNext(req[r], Current(req'[r]))]_vars

\* Every request that arrives is answered (or the process is restarted under it):
\* the semaphore is handed on in order and the walk ends.
RequestsEnd ==
  \A r \in Requests : req[r].pc = "queued" ~> req[r].pc \in Ended \cup {"idle"}

\* No request is admitted to a provider whose circuit is open, and the read that
\* admits it is the one that lets a cooled circuit go half-open: the two cannot
\* disagree, although the filter reads and writes one row per candidate.
AdmissionRespectsCircuits ==
  [][\A r \in Requests :
       Begin(r) => \A p \in ToSet(req'[r].admitted) :
                     config.enabled => row'[p].state # "open"]_vars

\* A provider that has recovered gets its traffic back: if from some time on no
\* call errs and the process is not restarted, and requests for p alone keep
\* being given a permit, then p's circuit is closed for good.  Nothing else
\* closes it: the cooldown must be seen to end, and an admitted call must report.
HealthReturns ==
  \A p \in Providers :
    /\ <>[][~ \E r \in Requests : \E e \in ErrorClasses : Errored(r, e)]_vars
    /\ <>[][~ GatewayRestart]_vars
    /\ []<><<\E r \in Requests : Begin(r) /\ req[r].cands = <<p>> >>_vars
    => <>[](row[p].state = "closed")
===============================================================================
