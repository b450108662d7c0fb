-------------------------------- MODULE Pipeline --------------------------------
(***************************************************************************)
(* GatewayService.search and extract (service.py) around the walk through  *)
(* the providers that Fallback models: routing and DLP, the session, the   *)
(* cache lookup, what is made of the walk's result, the audit entry and the*)
(* cache write.                                                            *)
(*                                                                         *)
(* A request touches shared state when it resolves its session, when it    *)
(* looks the cache up, when the walk is over and when it writes the cache; *)
(* other requests, the admin and time come in between.  Policy and judge   *)
(* come before, and their decision (Shapes) is the request's own; an answer*)
(* found in the cache is complete as soon as it is read; post-processing   *)
(* changes nothing another request reads.  Which requests are exempt from  *)
(* the injection check is read from the live configuration; what the check *)
(* does with what it finds is the setting the detector was started with.   *)
(***************************************************************************)
EXTENDS Cache, Sessions

CONSTANTS
  Requests,       \* request slots
  Callers,        \* API keys
  Shapes,         \* [kind, target, form, profile, provider, proxy, read, write, ttl,
                  \*  caller, skips]: what is asked, and where it is routed; skips is
                  \*  the request's own prompt_injection.skip
  NoProfile,      \* the request names no session
  NoTtl,          \* the request brings no ttl_override
  Refused,        \* URLs the outbound check (SSRF) refuses
  Outbound,       \* DLP: <<target, provider>> -> [blocks, target, provider]
  CacheOn,        \* there is a cache store, and it is enabled
  Validated,      \* cache.invalidation_triggers is not empty
  LoginWalls,     \* sessions.auto_invalidate_on_login_wall
  InjectionConfigs,   \* prompt_injection of the configurations a reload may find:
                  \*  [enabled, action, callers, targets], the last two the exemptions
  Marks,          \* what may be wrong with a page: below the quality asked for, a login
                  \*  wall, an injection, something inbound DLP blocks
  MaxVersion      \* the page behind a target changes at most this often

\* check is for the properties: the page has passed a check that stops what it finds,
\* or was processed and waived by it (exempt, switched off, alerting only), or neither.
Page == [by: Providers, version: 0..MaxVersion, session: Profiles \cup {NoProfile},
         marks: SUBSET Marks, check: {"none", "waived", "passed"}]
Shape == [kind: Kinds, target: Targets, form: {"processed", "raw"},
          profile: Profiles \cup {NoProfile}, provider: Providers, proxy: Proxies,
          read: BOOLEAN, write: BOOLEAN, ttl: Ages \cup {NoTtl},
          caller: Callers, skips: BOOLEAN]

\* A search brings no session, and what it finds is never processed.
ASSUME PipelineAssumption ==
  /\ Shapes \subseteq {s \in Shape : s.kind = "search" => s.profile = NoProfile}
  /\ Shapes # {}
  /\ Hosts = Targets
  /\ Browsers \subseteq Providers
  /\ NoProfile \notin Profiles
  /\ NoTtl \notin Ages
  /\ Outbound \in [Targets \X Providers -> [blocks: BOOLEAN, target: Targets, provider: Providers]]
  /\ {CacheOn, Validated, LoginWalls} \subseteq BOOLEAN
  /\ InjectionConfigs # {}
  /\ InjectionConfigs \subseteq [enabled: BOOLEAN, action: {"block", "scrub", "alert"},
                               callers: SUBSET Callers, targets: SUBSET Targets]
  /\ Marks \subseteq {"poor", "wall", "hostile", "leaky"}
  /\ MaxVersion \in Nat

VARIABLES
  req,            \* request -> where it is, and what it has read
  version,        \* target -> version of the page behind it
  config,         \* the live prompt_injection settings
  detector        \* the action of the detector built at the start, "none" without one

pipelineVars == <<req, version>>
injectionVars == <<config, detector>>
vars == <<cache, sessions, pipelineVars, injectionVars>>

Ended == {"answered", "refused", "failed", "crashed"}
Waiting == {"lookup", "walking", "storing"}

NoPage == [by |-> CHOOSE p \in Providers : TRUE, version |-> 0, session |-> NoProfile,
           marks |-> {}, check |-> "none"]
Idle == [pc |-> "idle", shape |-> CHOOSE s \in Shapes : TRUE, read |-> FALSE,
         write |-> FALSE, session |-> NoProfile, seen |-> 0, page |-> NoPage, audits |-> 0]

RequestRecord ==
  [pc: {"idle"} \cup Waiting \cup Ended, shape: Shape, read: BOOLEAN, write: BOOLEAN,
   session: Profiles \cup {NoProfile}, seen: 0..MaxVersion, page: Page, audits: Nat]

\* There is a detector only if it is enabled when the process starts.
Built(c) == IF c.enabled THEN c.action ELSE "none"

Init ==
  /\ CacheInit
  /\ SessionsInit
  /\ req = [r \in Requests |-> Idle]
  /\ version = [t \in Targets |-> 0]
  /\ config \in InjectionConfigs
  /\ detector = Built(config)

-------------------------------------------------------------------------------
\* r goes on as q.
Becomes(r, q) == req' = [req EXCEPT ![r] = q]

\* The request ends, or goes on, with one more audit entry, or with none.
Logged(q, pc) == [q EXCEPT !.pc = pc, !.audits = @ + 1]
Unlogged(q, pc) == [q EXCEPT !.pc = pc]

ToWalk(q) == [q EXCEPT !.pc = "walking", !.seen = version[q.shape.target]]

\* Outbound DLP may reroute, and may redact a query but not a URL.
Screened(shape) ==
  LET out == Outbound[shape.target, shape.provider]
  IN [shape EXCEPT !.provider = out.provider,
                   !.target = IF shape.kind = "search" THEN out.target ELSE @]

\* Fault: a session does not keep the request from writing to the cache.
AdmittedWriting(shape) ==
  [Idle EXCEPT !.shape = shape, !.session = shape.profile,
               !.read = CacheOn /\ shape.read /\ shape.profile = NoProfile,
               !.write = CacheOn /\ shape.write]

\* The flags of the request's cache field apply; a session switches both off.
Admitted(shape) ==
  LET anonymous == shape.profile = NoProfile
  IN [Idle EXCEPT !.shape = shape, !.session = shape.profile,
                  !.read = CacheOn /\ shape.read /\ anonymous,
                  !.write = CacheOn /\ shape.write /\ anonymous]

\* From the request's arrival to its first wait.
Arrive(r) ==
  /\ req[r].pc \in Ended \cup {"idle"}
  /\ \E shape \in Shapes :
       LET screened == Screened(shape)
           q == Admitted(screened)
       IN \/ /\ shape.kind = "extract" /\ shape.target \in Refused
             /\ Becomes(r, Unlogged(q, "refused"))
             /\ UNCHANGED sessions
          \/ /\ ~(shape.kind = "extract" /\ shape.target \in Refused)
             /\ Outbound[shape.target, shape.provider].blocks
             /\ Becomes(r, Logged(q, "refused"))
             /\ UNCHANGED sessions
          \/ /\ ~(shape.kind = "extract" /\ shape.target \in Refused)
             /\ ~Outbound[shape.target, shape.provider].blocks
             /\ IF \/ q.session = NoProfile
                   \/ Resolves(q.session, screened.provider, screened.target, screened.proxy)
                THEN Becomes(r, IF q.read THEN Unlogged(q, "lookup") ELSE ToWalk(q))
                ELSE Becomes(r, Logged(q, "refused"))
             /\ sessions' = IF q.session = NoProfile THEN sessions ELSE AfterResolve(q.session)
  /\ UNCHANGED <<cache, version, injectionVars>>

Lookup(r) ==
  /\ req[r].pc = "lookup"
  /\ LET q == req[r]
         key == Key(q.shape)
     IN /\ Becomes(r, IF Live(key) THEN Logged([q EXCEPT !.page = cache[key].page], "answered")
                      ELSE ToWalk(q))
        /\ CacheGet(key)
  /\ UNCHANGED <<sessions, version, injectionVars>>

(***************************************************************************)
(* What is made of the page the walk came back with.                       *)
(***************************************************************************)
HitsWall(q, page) == LoginWalls /\ q.session # NoProfile /\ "wall" \in page.marks

\* Post-processing is for the pages of extract requests that do not skip it.
Processed(q) == q.shape.kind = "extract" /\ q.shape.form = "processed"

\* The injection check in it spares exempt domains, exempt keys and who skips it.
Checked(q) ==
  /\ Processed(q)
  /\ config.enabled /\ detector # "none"
  /\ ~q.shape.skips
  /\ q.shape.caller \notin config.callers
  /\ q.shape.target \notin config.targets

Blocked(q, page) == Checked(q) /\ detector = "block" /\ "hostile" \in page.marks

Scrubbed(q, page) ==
  IF Checked(q) /\ detector = "scrub"
  THEN [page EXCEPT !.marks = @ \ {"hostile"}] ELSE page

\* The check stops what it finds; an alert lets it pass.
Stops(q) == Checked(q) /\ detector \in {"block", "scrub"}

\* What is known of a page from now on.
Seen(q, page) ==
  [page EXCEPT !.check = IF ~Processed(q) THEN "none" ELSE IF Stops(q) THEN "passed" ELSE "waived"]

\* Inbound DLP blocks the page of an extract request, and redacts otherwise.
Withheld(q, page) == q.shape.kind = "extract" /\ "leaky" \in page.marks

\* Fault: a page below the quality asked for is cached like any other.
DeliveredAnyhow(q, page) ==
  [q EXCEPT !.page = page, !.pc = IF q.write THEN "storing" ELSE "answered"]

\* The page is the answer, to be stored first if it may be.
Delivered(q, page) ==
  [q EXCEPT !.page = page,
            !.pc = IF q.write /\ "poor" \notin page.marks THEN "storing" ELSE "answered"]

\* Fault: the audit entry of a withheld page is followed by that of a success.
SettledTwice(q, page) ==
  IF HitsWall(q, page) THEN Logged(q, "refused")
  ELSE IF Blocked(q, page) THEN Unlogged(q, "refused")
  ELSE IF Withheld(q, page) THEN Logged(Logged(q, "refused"), "refused")
  ELSE LET next == Delivered(q, Seen(q, Scrubbed(q, page))) IN Logged(next, next.pc)

\* In this order; an injection block writes its event, but no audit entry.
Settled(q, page) ==
  IF HitsWall(q, page) THEN Logged(q, "refused")
  ELSE IF Blocked(q, page) THEN Unlogged(q, "refused")
  ELSE IF Withheld(q, page) THEN Logged(q, "refused")
  ELSE LET next == Delivered(q, Seen(q, Scrubbed(q, page))) IN Logged(next, next.pc)

\* The pages a walk may come back with: fetched between its start and its end.
PagesOf(q) ==
  {page \in Page :
     /\ page.version \in q.seen..version[q.shape.target]
     /\ page.session = q.session /\ page.check = "none"
     /\ "poor" \in page.marks => q.shape.kind = "extract" /\ Validated}

\* Fault: the session that was handed out is written back when its use is over.
AfterWalkTouching(q, page) ==
  IF HitsWall(q, page) THEN Without({q.session})
  ELSE IF q.session = NoProfile THEN sessions
  ELSE [p \in DOMAIN sessions \cup {q.session} |->
          IF p \in DOMAIN sessions THEN sessions[p] ELSE CHOOSE s \in Session : s.life > 0]

\* The sessions after the walk: a login wall invalidates the request's own.
AfterWalk(q, page) == IF HitsWall(q, page) THEN Without({q.session}) ELSE sessions

\* The walk ends with a page, with ProviderError, or with what nobody handles.
Walk(r) ==
  /\ req[r].pc = "walking"
  /\ LET q == req[r]
     IN \/ \E page \in PagesOf(q) :
             /\ Becomes(r, Settled(q, page))
             /\ sessions' = AfterWalk(q, page)
        \/ /\ \/ Becomes(r, Logged(q, "failed"))
              \/ Becomes(r, Unlogged(q, "crashed"))
           /\ UNCHANGED sessions
  /\ UNCHANGED <<cache, version, injectionVars>>

\* The ttl is the override, or that of the provider that answered; the key is the
\* one the request looked up.
Store(r) ==
  /\ req[r].pc = "storing"
  /\ LET q == req[r]
         s == q.shape
     IN /\ CacheSet(Key(s), q.page,
                    IF s.ttl # NoTtl THEN s.ttl ELSE ResolveTtl(s.kind, s.target, q.page.by))
        /\ Becomes(r, Unlogged(q, "answered"))
  /\ UNCHANGED <<sessions, version, injectionVars>>

Step(r) == Lookup(r) \/ Walk(r) \/ Store(r)

-------------------------------------------------------------------------------
AdminCache ==
  /\ \E targets \in {Targets} \cup {{t} : t \in Targets} :
       \E providers \in {Providers} \cup {{p} : p \in Providers} :
         CacheInvalidate(targets, providers)
  /\ UNCHANGED <<sessions, pipelineVars, injectionVars>>

AdminSessions ==
  /\ \/ \E p \in Profiles : SessionCreate(p) \/ SessionRefresh(p) \/ SessionInvalidate(p)
     \/ \E hosts \in {Hosts} \cup {{h} : h \in Hosts} :
          \E browsers \in {Browsers} \cup {{b} : b \in Browsers} :
            SessionInvalidateAll(hosts, browsers)
  /\ UNCHANGED <<cache, pipelineVars, injectionVars>>

\* The page behind a target changes.
PageChanges ==
  /\ \E t \in Targets :
       version[t] < MaxVersion /\ version' = [version EXCEPT ![t] = @ + 1]
  /\ UNCHANGED <<cache, sessions, req, injectionVars>>

Tick == CacheAges /\ SessionsAge /\ UNCHANGED <<pipelineVars, injectionVars>>

\* The configuration is read again; the detector stays as it is.
Reload ==
  /\ config' \in InjectionConfigs
  /\ UNCHANGED <<cache, sessions, pipelineVars, detector>>

\* The process dies with its requests; the cache and the sessions survive, and the
\* detector is built from the configuration of the start.
Restart ==
  /\ req' = [r \in Requests |-> Idle]
  /\ detector' = Built(config)
  /\ UNCHANGED <<cache, sessions, version, config>>

Next ==
  \/ \E r \in Requests : Arrive(r) \/ Step(r)
  \/ AdminCache
  \/ AdminSessions
  \/ PageChanges
  \/ Tick
  \/ Reload
  \/ Restart

Spec == Init /\ [][Next]_vars

\* The walk ends (Fallback), SQLite answers, and time passes.
FairSpec == Spec /\ (\A r \in Requests : WF_vars(Step(r))) /\ WF_vars(Tick)

-------------------------------------------------------------------------------
\* The types.
TypeOK ==
  /\ req \in [Requests -> RequestRecord]
  /\ version \in [Targets -> 0..MaxVersion]
  /\ config \in InjectionConfigs /\ detector \in {"none", "block", "scrub", "alert"}
  /\ \A k \in DOMAIN cache : cache[k] \in [page: Page, age: Ages, ttl: Ages]
  /\ DOMAIN sessions \subseteq Profiles
  /\ \A p \in DOMAIN sessions : sessions[p] \in Session

\* A page fetched with somebody's session is neither stored nor answered to a
\* request that does not bring that session, whatever the request's cache flags.
SessionsStayPrivate ==
  /\ \A k \in DOMAIN cache : cache[k].page.session = NoProfile
  /\ \A r \in Requests :
       req[r].pc = "answered" => req[r].page.session = req[r].shape.profile

\* The cache holds only what a request was answered with in good order: pages of
\* the quality asked for, that DLP did not withhold from the request they were
\* fetched for, and, of the pages in which the injection check finds something, none
\* from a request that was subject to a check that blocks or scrubs.
CacheHoldsAccepted ==
  \A k \in DOMAIN cache :
    /\ "poor" \notin cache[k].page.marks
    /\ k.kind = "extract" => "leaky" \notin cache[k].page.marks
    /\ "hostile" \in cache[k].page.marks => cache[k].page.check # "passed"

\* A request leaves at most one audit entry, and exactly one if it is answered or
\* every provider failed: on each way through lookup, session, walk and checks.
AuditedOnce ==
  \A r \in Requests :
    /\ req[r].audits <= 1
    /\ req[r].pc \in {"answered", "failed", "storing"} => req[r].audits = 1

\* A request subject to a check that stops what it finds is answered with such a page
\* only out of the cache, and only if a request for the processed page was let have it:
\* one that skipped the check or was exempt, or under an earlier configuration or
\* detector.  The key does not tell these apart (service.py:953).  No provider, no raw
\* page and no other URL brings one.
CheckedAnswers ==
  [][\A r \in Requests :
       /\ req[r].pc \in {"lookup", "walking"} /\ Stops(req[r])
       /\ req'[r].pc \in {"answered", "storing"} /\ "hostile" \in req'[r].page.marks
       => Lookup(r) /\ req'[r].page.check = "waived"]_vars

\* A session that is gone (expired, behind a login wall, invalidated) comes back
\* only when the admin creates it, although requests that were given it before
\* are still on their way and the store has no locks.
GoneStaysGone ==
  [][\A p \in DOMAIN sessions' \ DOMAIN sessions : AdminSessions]_vars

\* When the pages behind the targets stop changing, the cache stops serving old
\* ones: neither a fill that overtook a newer one or an invalidation, nor reading
\* an entry again and again, keeps it alive.
EventuallyCurrent ==
  <>[](\A k \in DOMAIN cache :
         Live(k) => cache[k].page.version = version[k.target])
===============================================================================
