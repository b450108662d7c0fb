----------------------------- MODULE PipelineProofs -----------------------------
(***************************************************************************)
(* What holds of the pipelines for any requests, providers, sessions, page *)
(* and rules: who gets a page fetched with a session, what the cache holds,*)
(* what is logged, what the injection check stops, what brings a session   *)
(* back.                                                                   *)
(***************************************************************************)
EXTENDS Pipeline, DataProofs

Typed ==
  /\ req \in [Requests -> RequestRecord]
  /\ version \in [Targets -> 0..MaxVersion]
  /\ config \in InjectionConfigs /\ detector \in {"none", "block", "scrub", "alert"}
  /\ \A k \in DOMAIN cache : cache[k].page \in Page

\* A page may be stored under q's key, and answered to those who look it up.
Acceptable(q, page) ==
  /\ "poor" \notin page.marks
  /\ q.shape.kind = "extract" => "leaky" \notin page.marks
  /\ "hostile" \in page.marks =>
       page.check # "passed" /\ (Processed(q) => page.check = "waived")

\* The session a request was given is the one it names; it keeps the request from
\* the cache; and what is kept for an answer has passed the checks.
Sound(q) ==
  /\ q.shape \in {Screened(s) : s \in Shapes}
  /\ q.session = q.shape.profile
  /\ q.read \/ q.write => q.session = NoProfile
  /\ q.pc = "lookup" => q.read
  /\ q.pc = "storing" => q.write /\ Acceptable(q, q.page)
  /\ q.pc \in {"storing", "answered"} => q.page.session = q.session

AuditsCounted(q) ==
  /\ q.audits <= 1
  /\ q.pc \in Waiting \ {"storing"} => q.audits = 0
  /\ q.pc \in {"answered", "failed", "storing"} => q.audits = 1

\* What an entry says of its page; a processed page with an injection in it was let
\* pass by the request that stored it.
StoredSound ==
  \A k \in DOMAIN cache :
    /\ cache[k].page.session = NoProfile
    /\ "poor" \notin cache[k].page.marks
    /\ k.kind = "extract" => "leaky" \notin cache[k].page.marks
    /\ "hostile" \in cache[k].page.marks =>
         /\ cache[k].page.check # "passed"
         /\ k.kind = "extract" /\ k.form = "processed" => cache[k].page.check = "waived"

PipelineInv ==
  /\ Typed
  /\ \A r \in Requests : req[r].pc # "idle" => Sound(req[r]) /\ AuditsCounted(req[r])
  /\ \A r \in Requests : req[r].pc = "idle" => req[r] = Idle
  /\ StoredSound

LEMMA InvSuffices ==
  PipelineInv => SessionsStayPrivate /\ CacheHoldsAccepted /\ AuditedOnce
PROOF
<1> SUFFICES ASSUME PipelineInv
             PROVE  SessionsStayPrivate /\ CacheHoldsAccepted /\ AuditedOnce
  OBVIOUS
<1>1. SessionsStayPrivate
  BY DEF PipelineInv, SessionsStayPrivate, StoredSound, Sound
<1>2. CacheHoldsAccepted
  BY DEF PipelineInv, CacheHoldsAccepted, StoredSound
<1>3. AuditedOnce
  <2> SUFFICES ASSUME NEW r \in Requests
               PROVE  /\ req[r].audits <= 1
                      /\ req[r].pc \in {"answered", "failed", "storing"} => req[r].audits = 1
    BY DEF AuditedOnce
  <2>1. CASE req[r].pc = "idle"
    <3>1. req[r] = Idle
      BY <2>1 DEF PipelineInv
    <3>2. Idle.audits = 0
      BY DEF Idle
    <3>. QED
      BY <2>1, <3>1, <3>2
  <2>2. CASE req[r].pc # "idle"
    BY <2>2 DEF PipelineInv, AuditsCounted
  <2>. QED
    BY <2>1, <2>2
<1>. QED
  BY <1>1, <1>2, <1>3

-------------------------------------------------------------------------------
LEMMA IdleTyped == Idle \in RequestRecord
PROOF
<1>1. PICK s \in Shapes : TRUE
  BY PipelineAssumption
<1>2. (CHOOSE t \in Shapes : TRUE) \in Shapes
  BY <1>1
<1>3. Shapes \subseteq Shape
  BY PipelineAssumption
<1>4. s.provider \in Providers
  BY <1>1, <1>3 DEF Shape
<1>5. (CHOOSE p \in Providers : TRUE) \in Providers
  BY <1>4
<1>6. NoPage \in Page
  BY <1>5, PipelineAssumption DEF NoPage, Page
<1>. QED
  BY <1>2, <1>3, <1>6, PipelineAssumption DEF Idle, RequestRecord

\* Outbound DLP leaves a request one that can be asked, and its profile and form
\* as they are.
LEMMA ScreenedTyped ==
  ASSUME NEW s \in Shapes
  PROVE  Screened(s) \in Shape
PROOF
<1>1. s \in Shape
  BY PipelineAssumption
<1>2. Outbound[s.target, s.provider] \in [blocks: BOOLEAN, target: Targets, provider: Providers]
  <2>1. <<s.target, s.provider>> \in Targets \X Providers
    BY <1>1 DEF Shape
  <2>. QED
    BY <2>1, PipelineAssumption
<1>. QED
  BY <1>1, <1>2 DEF Screened, Shape

\* An audit entry more.
LEMMA LoggedTyped ==
  ASSUME NEW q \in RequestRecord, NEW pc \in {"idle"} \cup Waiting \cup Ended
  PROVE  /\ Logged(q, pc) \in RequestRecord
         /\ Logged(q, pc).pc = pc /\ Logged(q, pc).audits = q.audits + 1
PROOF
<1> DEFINE n == q.audits + 1
<1>1. n \in Nat
  BY DEF RequestRecord
<1>2. Logged(q, pc) = [q EXCEPT !.pc = pc, !.audits = n]
  BY DEF Logged, RequestRecord
<1> HIDE DEF n
<1>3. [q EXCEPT !.pc = pc, !.audits = n] \in RequestRecord
      /\ [q EXCEPT !.pc = pc, !.audits = n].pc = pc
      /\ [q EXCEPT !.pc = pc, !.audits = n].audits = n
  BY <1>1 DEF RequestRecord
<1>. QED
  BY <1>2, <1>3 DEF n

\* A step that gives one request another record, or none.
LEMMA OneRequest ==
  ASSUME PipelineInv, NEW r \in Requests, NEW q \in RequestRecord,
         Becomes(r, q), q.pc # "idle", Sound(q), AuditsCounted(q),
         UNCHANGED <<version, injectionVars>>, StoredSound', \A k \in DOMAIN cache' : cache'[k].page \in Page
  PROVE  PipelineInv'
PROOF
<1>1. req' = [req EXCEPT ![r] = q] /\ req \in [Requests -> RequestRecord]
  BY DEF Becomes, PipelineInv, Typed
<1>2. Typed'
  BY <1>1 DEF PipelineInv, Typed, injectionVars
<1>3. \A r2 \in Requests : req'[r2] = IF r2 = r THEN q ELSE req[r2]
  BY <1>1
<1>4. \A x : (Sound(x))' <=> Sound(x)
  BY DEF Sound, Acceptable, Processed
<1>5. \A x : (AuditsCounted(x))' <=> AuditsCounted(x)
  BY DEF AuditsCounted
<1>. QED
  BY <1>2, <1>3, <1>4, <1>5 DEF PipelineInv

-------------------------------------------------------------------------------
\* The record a request starts with is sound, and typed, wherever it goes next.
LEMMA AdmittedSound ==
  ASSUME Typed, NEW s \in Shapes, NEW pc \in {"refused", "lookup"},
         pc = "lookup" => Admitted(Screened(s)).read
  PROVE  LET q == Admitted(Screened(s))
         IN /\ q.session \in Profiles \cup {NoProfile}
            /\ Unlogged(q, pc) \in RequestRecord
            /\ Sound(Unlogged(q, pc)) /\ AuditsCounted(Unlogged(q, pc))
            /\ Logged(q, "refused") \in RequestRecord
            /\ Sound(Logged(q, "refused")) /\ AuditsCounted(Logged(q, "refused"))
            /\ ToWalk(q) \in RequestRecord
            /\ Sound(ToWalk(q)) /\ AuditsCounted(ToWalk(q))
PROOF
<1> DEFINE screened == Screened(s)
           q == Admitted(screened)
<1>1. screened \in Shape /\ screened \in {Screened(t) : t \in Shapes}
  BY ScreenedTyped
<1>2. /\ q.session = screened.profile /\ q.shape = screened /\ q.audits = 0
      /\ q.read \/ q.write => q.session = NoProfile
      /\ q \in RequestRecord
  <2> HIDE DEF screened
  <2>1. /\ q.session = screened.profile /\ q.shape = screened /\ q.audits = 0
        /\ q.read \/ q.write => q.session = NoProfile
    BY DEF Admitted, Idle
  <2>2. q \in RequestRecord
    <3>1. /\ q = [Idle EXCEPT !.shape = screened, !.session = screened.profile,
                              !.read = q.read, !.write = q.write]
          /\ q.read \in BOOLEAN /\ q.write \in BOOLEAN
      BY DEF Admitted, Idle
    <3>2. screened.profile \in Profiles \cup {NoProfile}
      BY <1>1 DEF Shape
    <3> HIDE DEF q
    <3>. QED
      BY <1>1, <3>1, <3>2, IdleTyped DEF RequestRecord
  <2>. QED
    BY <2>1, <2>2
<1>3. version[screened.target] \in 0..MaxVersion
  BY <1>1 DEF Typed, Shape
<1>4. q.session \in Profiles \cup {NoProfile}
  BY <1>2 DEF RequestRecord
<1> HIDE DEF q, screened
<1>5. Unlogged(q, pc) \in RequestRecord /\ Sound(Unlogged(q, pc)) /\ AuditsCounted(Unlogged(q, pc))
  <2>1. Unlogged(q, pc) \in RequestRecord
    BY <1>2 DEF Unlogged, RequestRecord, Waiting, Ended
  <2>2. /\ Unlogged(q, pc).pc = pc /\ Unlogged(q, pc).audits = 0
        /\ Unlogged(q, pc).shape = q.shape /\ Unlogged(q, pc).session = q.session
        /\ Unlogged(q, pc).read = q.read /\ Unlogged(q, pc).write = q.write
    BY <1>2 DEF Unlogged, RequestRecord
  <2>3. pc = "lookup" => q.read
    BY DEF q, screened
  <2>. QED
    BY <1>1, <1>2, <2>1, <2>2, <2>3 DEF Sound, AuditsCounted, Waiting
<1>6. /\ Logged(q, "refused") \in RequestRecord
      /\ Sound(Logged(q, "refused")) /\ AuditsCounted(Logged(q, "refused"))
  <2>1. Logged(q, "refused") \in RequestRecord
    BY <1>2, LoggedTyped DEF Ended
  <2>2. /\ Logged(q, "refused").pc = "refused" /\ Logged(q, "refused").audits = 1
        /\ Logged(q, "refused").shape = q.shape /\ Logged(q, "refused").session = q.session
        /\ Logged(q, "refused").read = q.read /\ Logged(q, "refused").write = q.write
    BY <1>2 DEF Logged, RequestRecord
  <2>. QED
    BY <1>1, <1>2, <2>1, <2>2 DEF Sound, AuditsCounted, Waiting
<1>7. ToWalk(q) \in RequestRecord /\ Sound(ToWalk(q)) /\ AuditsCounted(ToWalk(q))
  <2>1. ToWalk(q) \in RequestRecord
    BY <1>2, <1>3 DEF ToWalk, RequestRecord, Waiting
  <2>2. /\ ToWalk(q).pc = "walking" /\ ToWalk(q).audits = 0
        /\ ToWalk(q).shape = q.shape /\ ToWalk(q).session = q.session
        /\ ToWalk(q).read = q.read /\ ToWalk(q).write = q.write
    BY <1>2 DEF ToWalk, RequestRecord
  <2>. QED
    BY <1>1, <1>2, <2>1, <2>2 DEF Sound, AuditsCounted, Waiting
<1>. QED
  BY <1>4, <1>5, <1>6, <1>7 DEF q, screened

LEMMA ArriveInv ==
  ASSUME PipelineInv, NEW r \in Requests, Arrive(r)
  PROVE  PipelineInv'
PROOF
<1>1. UNCHANGED <<cache, version, injectionVars>>
  BY DEF Arrive
<1>2. StoredSound' /\ (\A k \in DOMAIN cache' : cache'[k].page \in Page)
  BY <1>1 DEF PipelineInv, StoredSound, Typed
<1>3. PICK q \in RequestRecord :
        Becomes(r, q) /\ q.pc # "idle" /\ Sound(q) /\ AuditsCounted(q)
  <2>1. PICK s \in Shapes :
          LET q == Admitted(Screened(s))
          IN \/ Becomes(r, Unlogged(q, "refused"))
             \/ Becomes(r, Logged(q, "refused"))
             \/ q.read /\ Becomes(r, Unlogged(q, "lookup"))
             \/ Becomes(r, ToWalk(q))
    BY DEF Arrive
  <2> DEFINE q == Admitted(Screened(s))
  <2>2. Typed
    BY DEF PipelineInv
  <2>3. Unlogged(q, "refused").pc # "idle" /\ Unlogged(q, "lookup").pc # "idle"
        /\ Logged(q, "refused").pc # "idle" /\ ToWalk(q).pc # "idle"
    BY DEF Unlogged, Logged, ToWalk, Admitted, Idle
  <2>4. CASE Becomes(r, Unlogged(q, "refused"))
    BY <2>2, <2>3, <2>4, AdmittedSound
  <2>5. CASE Becomes(r, Logged(q, "refused"))
    BY <2>2, <2>3, <2>5, AdmittedSound
  <2>6. CASE q.read /\ Becomes(r, Unlogged(q, "lookup"))
    BY <2>2, <2>3, <2>6, AdmittedSound
  <2>7. CASE Becomes(r, ToWalk(q))
    BY <2>2, <2>3, <2>7, AdmittedSound
  <2>. QED
    BY <2>1, <2>4, <2>5, <2>6, <2>7
<1>. QED
  BY <1>1, <1>2, <1>3, OneRequest

LEMMA LookupInv ==
  ASSUME PipelineInv, NEW r \in Requests, Lookup(r)
  PROVE  PipelineInv'
PROOF
<1> DEFINE q == req[r]
           key == Key(q.shape)
           paged == [q EXCEPT !.page = cache[key].page]
           hit == Logged(paged, "answered")
<1>1. q \in RequestRecord /\ q.pc = "lookup" /\ Sound(q) /\ AuditsCounted(q)
  BY DEF PipelineInv, Typed, Lookup
<1>2. UNCHANGED <<version, injectionVars>> /\ cache' \in {cache, Restrict(cache, DOMAIN cache \ {key})}
  BY DEF Lookup, CacheGet, Dropped
<1>3. StoredSound' /\ (\A k \in DOMAIN cache' : cache'[k].page \in Page)
  BY <1>2 DEF PipelineInv, StoredSound, Typed, Restrict
<1>4. ASSUME Live(key), Becomes(r, hit) PROVE PipelineInv'
  <2>1. key \in DOMAIN cache /\ cache[key].page \in Page
    BY <1>4 DEF Live, PipelineInv, Typed
  <2>2. hit \in RequestRecord /\ hit.pc = "answered" /\ AuditsCounted(hit)
    <3>1. q.audits = 0
      BY <1>1 DEF AuditsCounted, Waiting
    <3>2. hit \in RequestRecord /\ hit.pc = "answered" /\ hit.audits = q.audits + 1
      <4>1. paged \in RequestRecord
        BY <1>1, <2>1 DEF RequestRecord
      <4>2. paged.audits = q.audits
        BY <1>1 DEF RequestRecord
      <4> HIDE DEF paged
      <4>. QED
        BY <4>1, <4>2, LoggedTyped DEF Ended
    <3>. QED
      BY <3>1, <3>2 DEF AuditsCounted, Waiting
  <2>3. /\ hit.shape = q.shape /\ hit.session = q.session /\ hit.read = q.read
        /\ hit.write = q.write /\ hit.page = cache[key].page
    BY <1>1 DEF Logged, RequestRecord
  <2>4. hit.page.session = hit.session
    BY <1>1, <2>1, <2>3 DEF PipelineInv, StoredSound, Sound
  <2>5. Sound(hit)
    BY <1>1, <2>2, <2>3, <2>4 DEF Sound
  <2>. QED
    BY <1>2, <1>3, <1>4, <2>2, <2>5, OneRequest
<1>5. ASSUME Becomes(r, ToWalk(q)) PROVE PipelineInv'
  <2>1. version[q.shape.target] \in 0..MaxVersion
    BY <1>1 DEF PipelineInv, Typed, RequestRecord, Shape
  <2>2. ToWalk(q) \in RequestRecord /\ ToWalk(q).pc = "walking" /\ AuditsCounted(ToWalk(q))
    BY <1>1, <2>1 DEF ToWalk, RequestRecord, AuditsCounted, Waiting, Ended
  <2>3. Sound(ToWalk(q))
    BY <1>1 DEF ToWalk, RequestRecord, Sound
  <2>. QED
    BY <1>2, <1>3, <1>5, <2>2, <2>3, OneRequest
<1>. QED
  BY <1>4, <1>5 DEF Lookup

-------------------------------------------------------------------------------
\* What is delivered of a page that is not blocked: with an injection in it only if
\* nothing that stops one has looked at it.
LEMMA SeenSound ==
  ASSUME NEW q \in RequestRecord, NEW page \in PagesOf(q), ~Blocked(q, page)
  PROVE  LET kept == Seen(q, Scrubbed(q, page))
         IN /\ kept \in Page /\ kept.session = page.session
            /\ kept.marks \subseteq page.marks
            /\ "hostile" \in kept.marks =>
                 /\ ~Stops(q) /\ kept.check # "passed"
                 /\ Processed(q) => kept.check = "waived"
PROOF
<1> DEFINE scrubbed == Scrubbed(q, page)
           kept == Seen(q, scrubbed)
           check == IF ~Processed(q) THEN "none" ELSE IF Stops(q) THEN "passed" ELSE "waived"
<1>1. page \in Page
  BY DEF PagesOf
<1>2. /\ scrubbed \in Page /\ scrubbed.session = page.session
      /\ scrubbed.marks \subseteq page.marks
      /\ Stops(q) => "hostile" \notin scrubbed.marks
  <2>1. CASE Checked(q) /\ detector = "scrub"
    <3>1. scrubbed = [page EXCEPT !.marks = @ \ {"hostile"}]
      BY <2>1 DEF Scrubbed
    <3>. QED
      BY <1>1, <3>1 DEF Page
  <2>2. CASE ~(Checked(q) /\ detector = "scrub")
    <3>1. scrubbed = page
      BY <2>2 DEF Scrubbed
    <3>. QED
      BY <1>1, <2>2, <3>1 DEF Blocked, Stops
  <2>. QED
    BY <2>1, <2>2
<1>3. kept = [scrubbed EXCEPT !.check = check]
  BY DEF Seen
<1> HIDE DEF scrubbed, kept
<1>4. check \in {"none", "waived", "passed"}
  OBVIOUS
<1>5. /\ kept \in Page /\ kept.session = scrubbed.session
      /\ kept.marks = scrubbed.marks /\ kept.check = check
  BY <1>2, <1>3, <1>4 DEF Page
<1>. QED
  BY <1>2, <1>5 DEF kept, scrubbed

\* What is made of a page: if it is kept, it has passed the checks.
LEMMA SettledSound ==
  ASSUME NEW q \in RequestRecord, q.pc = "walking", Sound(q), AuditsCounted(q), Typed,
         NEW page \in PagesOf(q)
  PROVE  /\ Settled(q, page) \in RequestRecord /\ Settled(q, page).pc # "idle"
         /\ Sound(Settled(q, page)) /\ AuditsCounted(Settled(q, page))
PROOF
<1>1. page \in Page /\ page.session = q.session /\ q.audits = 0
  BY DEF PagesOf, AuditsCounted, Waiting
<1>2. ASSUME NEW q2 \in {Logged(q, "refused"), Unlogged(q, "refused")}
      PROVE  q2 \in RequestRecord /\ q2.pc # "idle" /\ Sound(q2) /\ AuditsCounted(q2)
  <2>1. q2 \in RequestRecord /\ q2.pc = "refused" /\ q2.audits \in {0, 1}
    <3>1. CASE q2 = Logged(q, "refused")
      BY <1>1, <3>1, LoggedTyped DEF Ended
    <3>2. CASE q2 = Unlogged(q, "refused")
      BY <1>1, <3>2 DEF Unlogged, RequestRecord, Ended
    <3>. QED
      BY <3>1, <3>2
  <2>2. q2.shape = q.shape /\ q2.session = q.session /\ q2.read = q.read /\ q2.write = q.write
    BY DEF Logged, Unlogged, RequestRecord
  <2>. QED
    BY <2>1, <2>2 DEF Sound, AuditsCounted, Waiting
<1>3. ASSUME ~Blocked(q, page), ~Withheld(q, page)
      PROVE  LET next == Delivered(q, Seen(q, Scrubbed(q, page)))
                 q2 == Logged(next, next.pc)
             IN q2 \in RequestRecord /\ q2.pc # "idle" /\ Sound(q2) /\ AuditsCounted(q2)
  <2> DEFINE kept == Seen(q, Scrubbed(q, page))
             next == Delivered(q, kept)
             q2 == Logged(next, next.pc)
  <2>1. /\ kept \in Page /\ kept.session = page.session
        /\ kept.marks \subseteq page.marks
        /\ "hostile" \in kept.marks =>
             kept.check # "passed" /\ (Processed(q) => kept.check = "waived")
    BY <1>3, SeenSound
  <2>2. q.shape.kind = "extract" => "leaky" \notin kept.marks
    BY <1>3, <2>1 DEF Withheld
  <2> HIDE DEF kept
  <2>3. /\ next \in RequestRecord
        /\ next.pc = IF q.write /\ "poor" \notin kept.marks THEN "storing" ELSE "answered"
        /\ next.page = kept /\ next.audits = 0
        /\ next.shape = q.shape /\ next.session = q.session
        /\ next.read = q.read /\ next.write = q.write
    BY <1>1, <2>1 DEF Delivered, RequestRecord, Waiting, Ended
  <2>4. /\ q2.page = kept /\ q2.shape = q.shape /\ q2.session = q.session
        /\ q2.read = q.read /\ q2.write = q.write
    BY <2>3 DEF Logged, RequestRecord
  <2> HIDE DEF next
  <2>5. q2 \in RequestRecord /\ q2.pc = next.pc /\ q2.audits = 1
    BY <2>3, LoggedTyped DEF Waiting, Ended
  <2>6. Processed(q2) <=> Processed(q)
    BY <2>4 DEF Processed
  <2> HIDE DEF q2
  <2>7. Sound(q2)
    BY <1>1, <2>1, <2>2, <2>3, <2>4, <2>5, <2>6 DEF Sound, Acceptable
  <2>8. AuditsCounted(q2)
    BY <2>3, <2>5 DEF AuditsCounted, Waiting
  <2>. QED
    BY <2>3, <2>5, <2>7, <2>8 DEF q2, next, kept
<1>. QED
  BY <1>2, <1>3 DEF Settled

LEMMA WalkInv ==
  ASSUME PipelineInv, NEW r \in Requests, Walk(r)
  PROVE  PipelineInv'
PROOF
<1> DEFINE q == req[r]
<1>1. q \in RequestRecord /\ q.pc = "walking" /\ Sound(q) /\ AuditsCounted(q) /\ Typed
  BY DEF PipelineInv, Typed, Walk
<1>2. UNCHANGED <<cache, version, injectionVars>>
  BY DEF Walk
<1>3. StoredSound' /\ (\A k \in DOMAIN cache' : cache'[k].page \in Page)
  BY <1>2 DEF PipelineInv, StoredSound, Typed
<1>4. ASSUME NEW page \in PagesOf(q), Becomes(r, Settled(q, page))
      PROVE  PipelineInv'
  BY <1>1, <1>2, <1>3, <1>4, SettledSound, OneRequest
<1>5. ASSUME NEW q2 \in {Logged(q, "failed"), Unlogged(q, "crashed")}, Becomes(r, q2)
      PROVE  PipelineInv'
  <2>1. /\ q2 \in RequestRecord /\ q2.pc \in {"failed", "crashed"}
        /\ q2.audits = IF q2.pc = "failed" THEN 1 ELSE 0
    <3>1. q.audits = 0
      BY <1>1 DEF AuditsCounted, Waiting
    <3>2. CASE q2 = Logged(q, "failed")
      BY <1>1, <3>1, <3>2, LoggedTyped DEF Ended
    <3>3. CASE q2 = Unlogged(q, "crashed")
      BY <1>1, <3>1, <3>3 DEF Unlogged, RequestRecord, Ended
    <3>. QED
      BY <3>2, <3>3
  <2>2. q2.shape = q.shape /\ q2.session = q.session /\ q2.read = q.read /\ q2.write = q.write
    BY <1>1 DEF Logged, Unlogged, RequestRecord
  <2>3. Sound(q2)
    BY <1>1, <2>1, <2>2 DEF Sound
  <2>4. AuditsCounted(q2)
    BY <2>1 DEF AuditsCounted, Waiting
  <2>. QED
    BY <1>2, <1>3, <1>5, <2>1, <2>3, <2>4, OneRequest
<1>. QED
  BY <1>4, <1>5 DEF Walk

LEMMA StoreInv ==
  ASSUME PipelineInv, NEW r \in Requests, Store(r)
  PROVE  PipelineInv'
PROOF
<1> DEFINE q == req[r]
           key == Key(q.shape)
           q2 == Unlogged(q, "answered")
<1>1. q \in RequestRecord /\ q.pc = "storing" /\ Sound(q) /\ AuditsCounted(q)
  BY DEF PipelineInv, Typed, Store
<1>2. PICK ttl :
        cache' = [k \in DOMAIN cache \cup {key} |->
                    IF k = key THEN [page |-> q.page, age |-> 0, ttl |-> ttl] ELSE cache[k]]
  BY DEF Store, CacheSet
<1>3. q.page \in Page /\ q.page.session = NoProfile /\ Acceptable(q, q.page)
  BY <1>1 DEF Sound, RequestRecord
<1>4. ASSUME NEW k \in DOMAIN cache'
      PROVE  IF k = key THEN cache'[k].page = q.page
             ELSE k \in DOMAIN cache /\ cache'[k] = cache[k]
  BY <1>2
<1>5. \A k \in DOMAIN cache' : cache'[k].page \in Page
  BY <1>3, <1>4 DEF PipelineInv, Typed
<1>6. key.kind = q.shape.kind /\ key.form = q.shape.form
  BY DEF Key
<1> HIDE DEF key
<1>7. StoredSound'
  BY <1>3, <1>4, <1>6 DEF PipelineInv, StoredSound, Acceptable, Processed
<1>8. /\ q2 \in RequestRecord /\ q2.pc = "answered" /\ q2.audits = q.audits /\ q2.page = q.page
      /\ q2.shape = q.shape /\ q2.session = q.session /\ q2.read = q.read /\ q2.write = q.write
  BY <1>1 DEF Unlogged, RequestRecord, Ended
<1>9. Sound(q2)
  BY <1>1, <1>8 DEF Sound
<1>10. AuditsCounted(q2)
  BY <1>1, <1>8 DEF AuditsCounted, Waiting
<1>. QED
  BY <1>5, <1>7, <1>8, <1>9, <1>10, OneRequest DEF Store

-------------------------------------------------------------------------------
\* Steps that leave the requests alone, and put nothing new into the cache.
LEMMA CacheShrinks ==
  ASSUME PipelineInv, UNCHANGED <<req, detector>>, version' \in [Targets -> 0..MaxVersion],
         config' \in InjectionConfigs,
         DOMAIN cache' \subseteq DOMAIN cache,
         \A k \in DOMAIN cache' : cache'[k].page = cache[k].page
  PROVE  PipelineInv'
PROOF
<1>1. Typed'
  BY DEF PipelineInv, Typed
<1>2. StoredSound'
  BY DEF PipelineInv, StoredSound
<1>3. \A x : (Sound(x))' <=> Sound(x)
  BY DEF Sound, Acceptable, Processed
<1>4. \A x : (AuditsCounted(x))' <=> AuditsCounted(x)
  BY DEF AuditsCounted
<1>. QED
  BY <1>1, <1>2, <1>3, <1>4 DEF PipelineInv

LEMMA BuiltTyped ==
  ASSUME NEW c \in InjectionConfigs
  PROVE  Built(c) \in {"none", "block", "scrub", "alert"}
PROOF
<1>. QED
  BY PipelineAssumption DEF Built

LEMMA InitInv == Init => PipelineInv
PROOF
<1> SUFFICES ASSUME Init PROVE PipelineInv
  OBVIOUS
<1>1. DOMAIN cache = {}
  BY DEF Init, CacheInit
<1>2. \A r \in Requests : req[r] = Idle
  BY DEF Init
<1>3. Idle.pc = "idle"
  BY DEF Idle
<1>4. Typed
  BY <1>1, IdleTyped, BuiltTyped, PipelineAssumption DEF Init, Typed
<1>. QED
  BY <1>1, <1>2, <1>3, <1>4 DEF PipelineInv, StoredSound

LEMMA RestartInv ==
  ASSUME PipelineInv, Restart
  PROVE  PipelineInv'
PROOF
<1>1. \A r \in Requests : req'[r] = Idle
  BY DEF Restart
<1>2. Idle.pc = "idle"
  BY DEF Idle
<1>3. Typed'
  BY IdleTyped, BuiltTyped DEF Restart, PipelineInv, Typed
<1>4. StoredSound'
  BY DEF Restart, PipelineInv, StoredSound
<1>. QED
  BY <1>1, <1>2, <1>3, <1>4 DEF PipelineInv

LEMMA StepInv == PipelineInv /\ [Next]_vars => PipelineInv'
PROOF
<1> SUFFICES ASSUME PipelineInv, [Next]_vars PROVE PipelineInv'
  OBVIOUS
<1> USE DEF pipelineVars, injectionVars
<1>0. version \in [Targets -> 0..MaxVersion] /\ config \in InjectionConfigs
  BY DEF PipelineInv, Typed
<1>1. CASE UNCHANGED vars
  BY <1>0, <1>1, CacheShrinks DEF vars
<1>2. CASE \E r \in Requests : Arrive(r) \/ Step(r)
  BY <1>2, ArriveInv, LookupInv, WalkInv, StoreInv DEF Step
<1>3. CASE AdminCache
  BY <1>0, <1>3, CacheShrinks DEF AdminCache, CacheInvalidate, Dropped, Restrict
<1>4. CASE AdminSessions
  BY <1>0, <1>4, CacheShrinks DEF AdminSessions
<1>5. CASE PageChanges
  <2>1. version' \in [Targets -> 0..MaxVersion]
    BY <1>0, <1>5, PipelineAssumption DEF PageChanges
  <2>. QED
    BY <1>0, <1>5, <2>1, CacheShrinks DEF PageChanges
<1>6. CASE Tick
  <2>1. UNCHANGED <<req, version, config, detector>> /\ DOMAIN cache' = DOMAIN cache
    BY <1>6 DEF Tick, CacheAges
  <2>2. \A k \in DOMAIN cache : cache'[k] = [cache[k] EXCEPT !.age = Older(@)]
    BY <1>6 DEF Tick, CacheAges
  <2>3. ASSUME NEW k \in DOMAIN cache PROVE cache'[k].page = cache[k].page
    <3>1. cache'[k] = [cache[k] EXCEPT !.age = Older(cache[k].age)]
      BY <2>2
    <3>. QED
      BY <3>1
  <2>. QED
    BY <1>0, <2>1, <2>3, CacheShrinks
<1>7. CASE Reload
  BY <1>0, <1>7, CacheShrinks DEF Reload
<1>8. CASE Restart
  BY <1>8, RestartInv
<1>. QED
  BY <1>1, <1>2, <1>3, <1>4, <1>5, <1>6, <1>7, <1>8 DEF Next

-------------------------------------------------------------------------------
LEMMA Invariance == Spec => []PipelineInv
PROOF
<1>. QED
  BY InitInv, StepInv, PTL DEF Spec

\* A page fetched with a session stays with the requests that bring the session:
\* it is not stored, and no one else is answered with it.
THEOREM SessionsPrivate == Spec => []SessionsStayPrivate
PROOF
<1>1. PipelineInv => SessionsStayPrivate
  BY InvSuffices
<1>. QED
  BY <1>1, Invariance, PTL

\* The cache holds pages of the quality asked for that inbound DLP let pass, and no
\* injection from a request whose check blocks or scrubs what it finds.
THEOREM CacheAccepted == Spec => []CacheHoldsAccepted
PROOF
<1>1. PipelineInv => CacheHoldsAccepted
  BY InvSuffices
<1>. QED
  BY <1>1, Invariance, PTL

\* No request is logged twice, and those answered or failed are logged once.
THEOREM LoggedOnce == Spec => []AuditedOnce
PROOF
<1>1. PipelineInv => AuditedOnce
  BY InvSuffices
<1>. QED
  BY <1>1, Invariance, PTL

\* A request that is checked, and answered with an injection all the same, has it out
\* of the cache, from a request that was let have it.
LEMMA StepChecks ==
  ASSUME PipelineInv, [Next]_vars, NEW r \in Requests,
         req[r].pc \in {"lookup", "walking"}, Stops(req[r]),
         req'[r].pc \in {"answered", "storing"}, "hostile" \in req'[r].page.marks
  PROVE  Lookup(r) /\ req'[r].page.check = "waived"
PROOF
<1> DEFINE q == req[r]
<1>1. q \in RequestRecord /\ Sound(q) /\ req \in [Requests -> RequestRecord]
  BY DEF PipelineInv, Typed
<1>2. q.shape.kind = "extract" /\ q.shape.form = "processed"
  BY DEF Stops, Checked, Processed
<1>3. ASSUME NEW r2 \in Requests, NEW q2, Becomes(r2, q2)
      PROVE  IF r2 = r THEN req'[r] = q2 ELSE req'[r] = q
  BY <1>1, <1>3 DEF Becomes
<1>4. req'[r] # q
  BY DEF PipelineInv
<1>5. CASE UNCHANGED req
  BY <1>4, <1>5
<1>6. CASE Restart
  BY <1>6 DEF Restart, Idle
<1>7. ASSUME NEW r2 \in Requests, Arrive(r2)
      PROVE  FALSE
  <2>1. req[r2].pc \in Ended \cup {"idle"} /\ \E q2 : Becomes(r2, q2)
    BY <1>7 DEF Arrive
  <2>. QED
    BY <1>3, <1>4, <2>1 DEF Ended
<1>8. CASE Lookup(r)
  <2> DEFINE key == Key(q.shape)
             paged == [q EXCEPT !.page = cache[key].page]
             hit == Logged(paged, "answered")
  <2>1. q.pc = "lookup" /\ Becomes(r, IF Live(key) THEN hit ELSE ToWalk(q))
    BY <1>8 DEF Lookup
  <2>2. ToWalk(q).pc = "walking"
    BY <1>1 DEF ToWalk, RequestRecord
  <2>3. Live(key) /\ req'[r] = hit
    <3>1. req'[r] = IF Live(key) THEN hit ELSE ToWalk(q)
      BY <1>3, <2>1
    <3> HIDE DEF hit, key
    <3>. QED
      BY <2>2, <3>1
  <2>4. hit.page = cache[key].page
    BY <1>1 DEF Logged, RequestRecord
  <2>5. key.kind = "extract" /\ key.form = "processed"
    BY <1>2 DEF Key
  <2>6. key \in DOMAIN cache
    BY <2>3 DEF Live
  <2> HIDE DEF hit, key
  <2>. QED
    BY <1>8, <2>3, <2>4, <2>5, <2>6 DEF PipelineInv, StoredSound
<1>9. ASSUME Walk(r)
      PROVE  FALSE
  <2>1. ASSUME NEW page \in PagesOf(q), Becomes(r, Settled(q, page))
        PROVE  FALSE
    <3> DEFINE kept == Seen(q, Scrubbed(q, page))
               next == Delivered(q, kept)
    <3>1. req'[r] = Settled(q, page)
      BY <1>3, <2>1
    <3>2. \A x \in {Logged(q, "refused"), Unlogged(q, "refused")} : x.pc = "refused"
      BY <1>1 DEF Logged, Unlogged, RequestRecord
    <3>3. ~Blocked(q, page) /\ req'[r] = Logged(next, next.pc)
      BY <3>1, <3>2 DEF Settled
    <3>4. Logged(next, next.pc).page = kept
      BY <1>1 DEF Logged, Delivered, RequestRecord
    <3> HIDE DEF kept, next
    <3>5. "hostile" \notin kept.marks
      BY <1>1, <3>3, SeenSound DEF kept
    <3>. QED
      BY <3>3, <3>4, <3>5
  <2>2. Logged(q, "failed").pc = "failed" /\ Unlogged(q, "crashed").pc = "crashed"
    BY <1>1 DEF Logged, Unlogged, RequestRecord
  <2>. QED
    BY <1>3, <1>9, <2>1, <2>2 DEF Walk
<1>10. ASSUME Store(r)
       PROVE  FALSE
  BY <1>10 DEF Store
<1>11. ASSUME NEW r2 \in Requests, Step(r2), r2 # r
       PROVE  FALSE
  <2>1. \E q2 : Becomes(r2, q2)
    BY <1>11 DEF Step, Lookup, Walk, Store
  <2>. QED
    BY <1>3, <1>4, <1>11, <2>1
<1>. QED
  BY <1>5, <1>6, <1>7, <1>8, <1>9, <1>10, <1>11
  DEF Next, vars, pipelineVars, AdminCache, AdminSessions, PageChanges, Tick, Reload, Step

\* A request subject to a check that stops what it finds is never answered with an
\* injection by a provider; by the cache, only with a page that its own request was
\* let have: the key does not tell an exempt request from others.
THEOREM ChecksHold == Spec => CheckedAnswers
PROOF
<1>1. PipelineInv /\ [Next]_vars =>
        \A r \in Requests :
          /\ req[r].pc \in {"lookup", "walking"} /\ Stops(req[r])
          /\ req'[r].pc \in {"answered", "storing"} /\ "hostile" \in req'[r].page.marks
          => Lookup(r) /\ req'[r].page.check = "waived"
  BY StepChecks
<1>. QED
  BY <1>1, Invariance, PTL DEF Spec, CheckedAnswers

LEMMA StepKeepsGone == [Next]_vars => (\A p \in DOMAIN sessions' \ DOMAIN sessions : AdminSessions)
PROOF
<1> SUFFICES ASSUME [Next]_vars, ~AdminSessions PROVE DOMAIN sessions' \subseteq DOMAIN sessions
  OBVIOUS
<1> USE DEF pipelineVars, injectionVars
<1>1. CASE UNCHANGED vars
  BY <1>1 DEF vars
<1>2. ASSUME NEW r \in Requests, Arrive(r) PROVE DOMAIN sessions' \subseteq DOMAIN sessions
  BY <1>2 DEF Arrive, AfterResolve, Without, Restrict
<1>3. ASSUME NEW r \in Requests, Step(r) PROVE DOMAIN sessions' \subseteq DOMAIN sessions
  <2>1. CASE Lookup(r)
    BY <2>1 DEF Lookup
  <2>2. CASE Walk(r)
    BY <2>2 DEF Walk, AfterWalk, Without, Restrict
  <2>3. CASE Store(r)
    BY <2>3 DEF Store
  <2>. QED
    BY <1>3, <2>1, <2>2, <2>3 DEF Step
<1>4. CASE AdminCache
  BY <1>4 DEF AdminCache
<1>5. CASE PageChanges
  BY <1>5 DEF PageChanges
<1>6. CASE Tick
  BY <1>6 DEF Tick, SessionsAge
<1>7. CASE Reload \/ Restart
  BY <1>7 DEF Reload, Restart
<1>. QED
  BY <1>1, <1>2, <1>3, <1>4, <1>5, <1>6, <1>7 DEF Next

\* No step but the admin's brings a session back: neither a resolve, which writes
\* what it has read, nor the end of a request that holds the session.
THEOREM SessionsStayGone == Spec => GoneStaysGone
PROOF
<1>. QED
  BY StepKeepsGone, PTL DEF Spec, GoneStaysGone
-------------------------------------------------------------------------------
(* The types of what is kept                                                   *)

EntryTyped(entry) == entry \in [page: Page, age: Ages, ttl: Ages]

KeptTyped ==
  /\ \A k \in DOMAIN cache : EntryTyped(cache[k])
  /\ DOMAIN sessions \subseteq Profiles
  /\ \A p \in DOMAIN sessions : sessions[p] \in Session

\* The first rule that fits has a time to live, and so has the default.
LEMMA TtlTyped ==
  ASSUME NEW kind \in Kinds, NEW target \in Targets, NEW provider \in Providers
  PROVE  ResolveTtl(kind, target, provider) \in Ages
PROOF
<1> DEFINE matching == {i \in DOMAIN TtlRules :
                          /\ kind \in TtlRules[i].kinds
                          /\ target \in TtlRules[i].targets
                          /\ provider \in TtlRules[i].providers}
<1> DEFINE Rule == [kinds: SUBSET Kinds, targets: SUBSET Targets,
                    providers: SUBSET Providers, ttl: Ages]
<1>1. TtlRules \in Seq(Rule)
  BY CacheAssumption
<1>2. \A i \in DOMAIN TtlRules : i \in Nat /\ TtlRules[i].ttl \in Ages
  <2>1. \A rule \in Rule : rule.ttl \in Ages
    OBVIOUS
  <2>. HIDE DEF Rule
  <2>2. \A i \in DOMAIN TtlRules : i \in Nat /\ TtlRules[i] \in Rule
    BY <1>1
  <2>. QED
    BY <2>1, <2>2
<1>3. matching # {} => Min(matching) \in matching
  <2>1. matching \in SUBSET Nat
    BY <1>2
  <2>. HIDE DEF matching
  <2>. QED
    BY <2>1, MinExists
<1>4. matching # {} => TtlRules[Min(matching)].ttl \in Ages
  BY <1>2, <1>3
<1>5. ResolveTtl(kind, target, provider)
        = IF matching = {} THEN DefaultTtl ELSE TtlRules[Min(matching)].ttl
  BY DEF ResolveTtl
<1>. QED
  BY <1>4, <1>5, CacheAssumption

LEMMA OlderTyped == ASSUME NEW age \in Ages PROVE Older(age) \in Ages
PROOF
<1>. QED
  BY CacheAssumption DEF Older, Ages

\* What a deletion leaves was there before.
LEMMA WithoutTyped ==
  ASSUME KeptTyped, NEW gone
  PROVE  /\ DOMAIN Without(gone) \subseteq Profiles
         /\ \A p \in DOMAIN Without(gone) : Without(gone)[p] \in Session
PROOF
<1>. QED
  BY DEF KeptTyped, Without, Restrict

LEMMA DroppedTyped ==
  ASSUME KeptTyped, NEW gone, Dropped(gone)
  PROVE  \A k \in DOMAIN cache' : EntryTyped(cache'[k])
PROOF
<1>. QED
  BY DEF KeptTyped, Dropped, Restrict

LEMMA RequestsKeepTypes ==
  ASSUME PipelineInv, KeptTyped, NEW r \in Requests, Arrive(r) \/ Step(r)
  PROVE  KeptTyped'
PROOF
<1>1. CASE Arrive(r)
  <2>1. UNCHANGED cache
    BY <1>1 DEF Arrive
  <2>2. sessions' = sessions \/ \E gone : sessions' = Without(gone)
    BY <1>1 DEF Arrive, AfterResolve
  <2>. QED
    BY <2>1, <2>2, WithoutTyped DEF KeptTyped, EntryTyped
<1>2. CASE Lookup(r)
  <2>1. UNCHANGED sessions
    BY <1>2 DEF Lookup
  <2>2. UNCHANGED cache \/ \E gone : Dropped(gone)
    BY <1>2 DEF Lookup, CacheGet
  <2>3. \A k \in DOMAIN cache' : EntryTyped(cache'[k])
    BY <2>2, DroppedTyped DEF KeptTyped, EntryTyped
  <2>. QED
    BY <2>1, <2>3 DEF KeptTyped, EntryTyped
<1>3. CASE Walk(r)
  <2>1. UNCHANGED cache
    BY <1>3 DEF Walk
  <2>2. sessions' = sessions \/ \E gone : sessions' = Without(gone)
    BY <1>3 DEF Walk, AfterWalk
  <2>. QED
    BY <2>1, <2>2, WithoutTyped DEF KeptTyped, EntryTyped
<1>4. CASE Store(r)
  <2> DEFINE q == req[r]
             s == q.shape
             ttl == IF s.ttl # NoTtl THEN s.ttl ELSE ResolveTtl(s.kind, s.target, q.page.by)
  <2>1. q \in RequestRecord
    BY DEF PipelineInv, Typed
  <2>2. s \in Shape /\ q.page \in Page
    BY <2>1 DEF RequestRecord
  <2>3. /\ s.kind \in Kinds /\ s.target \in Targets /\ q.page.by \in Providers
        /\ s.ttl \in Ages \cup {NoTtl}
    BY <2>2 DEF Shape, Page
  <2>4. ResolveTtl(s.kind, s.target, q.page.by) \in Ages
    BY <2>3, TtlTyped
  <2>5. ttl \in Ages /\ 0 \in Ages
    BY <2>3, <2>4, CacheAssumption DEF Ages
  <2>6. UNCHANGED sessions /\ CacheSet(Key(s), q.page, ttl)
    BY <1>4 DEF Store
  <2>. HIDE DEF q, s, ttl
  <2>7. EntryTyped([page |-> q.page, age |-> 0, ttl |-> ttl])
    BY <2>2, <2>5 DEF EntryTyped
  <2>8. \A k \in DOMAIN cache' : EntryTyped(cache'[k])
    BY <2>6, <2>7 DEF CacheSet, KeptTyped
  <2>. QED
    BY <2>6, <2>8 DEF KeptTyped, EntryTyped
<1>. QED
  BY <1>1, <1>2, <1>3, <1>4 DEF Step

LEMMA AdminKeepsTypes ==
  ASSUME KeptTyped, AdminCache \/ AdminSessions
  PROVE  KeptTyped'
PROOF
<1>1. CASE AdminCache
  <2>1. UNCHANGED sessions /\ \E gone : Dropped(gone)
    BY <1>1 DEF AdminCache, CacheInvalidate
  <2>2. \A k \in DOMAIN cache' : EntryTyped(cache'[k])
    BY <2>1, DroppedTyped
  <2>. QED
    BY <2>1, <2>2 DEF KeptTyped, EntryTyped
<1>2. CASE AdminSessions
  <2>0. UNCHANGED cache
    BY <1>2 DEF AdminSessions
  <2>1. CASE \E gone : sessions' = Without(gone)
    BY <2>0, <2>1, WithoutTyped DEF KeptTyped, EntryTyped
  <2>2. ASSUME NEW p \in Profiles, SessionCreate(p) PROVE KeptTyped'
    BY <2>0, <2>2 DEF SessionCreate, KeptTyped, EntryTyped
  <2>3. ASSUME NEW p \in Profiles, SessionRefresh(p) PROVE KeptTyped'
    <3>1. PICK jar \in Jars : sessions' = [sessions EXCEPT ![p].jar = jar]
      BY <2>3 DEF SessionRefresh
    <3>2. [sessions[p] EXCEPT !.jar = jar] \in Session
      BY <2>3 DEF SessionRefresh, KeptTyped, Session
    <3>. QED
      BY <2>0, <2>3, <3>1, <3>2 DEF SessionRefresh, KeptTyped, EntryTyped
  <2>. QED
    BY <1>2, <2>1, <2>2, <2>3 DEF AdminSessions, SessionInvalidate, SessionInvalidateAll
<1>. QED
  BY <1>1, <1>2

LEMMA TimeKeepsTypes ==
  ASSUME KeptTyped, Tick
  PROVE  KeptTyped'
PROOF
<1>1. cache' = [k \in DOMAIN cache |-> [cache[k] EXCEPT !.age = Older(@)]]
  BY DEF Tick, CacheAges
<1>2. sessions' = [p \in DOMAIN sessions |->
                     [sessions[p] EXCEPT !.life = IF @ \in 1..MaxLife THEN @ - 1 ELSE @]]
  BY DEF Tick, SessionsAge
<1>3. ASSUME NEW k \in DOMAIN cache PROVE EntryTyped([cache[k] EXCEPT !.age = Older(@)])
  <2>1. Older(cache[k].age) \in Ages
    BY OlderTyped DEF KeptTyped, EntryTyped
  <2>. QED
    BY <2>1 DEF KeptTyped, EntryTyped
<1>4. ASSUME NEW p \in DOMAIN sessions
      PROVE  [sessions[p] EXCEPT !.life = IF @ \in 1..MaxLife THEN @ - 1 ELSE @] \in Session
  <2> DEFINE life == sessions[p].life
             left == IF life \in 1..MaxLife THEN life - 1 ELSE life
  <2>1. sessions[p] \in Session /\ life \in 0..Forever
    BY DEF KeptTyped, Session
  <2>2. left \in 0..Forever
    BY <2>1, SessionsAssumption DEF Forever
  <2>3. [sessions[p] EXCEPT !.life = left] \in Session
    BY <2>1, <2>2 DEF Session
  <2>. QED
    BY <2>3
<1>. QED
  BY <1>1, <1>2, <1>3, <1>4 DEF KeptTyped, EntryTyped

\* Requests, pages, entries and sessions have their types, whatever the admin replaces
\* or deletes meanwhile and whatever rule dates an entry.
THEOREM PipelineTyped == Spec => []TypeOK
PROOF
<1>1. Init => KeptTyped
  BY DEF Init, CacheInit, SessionsInit, KeptTyped
<1>2. PipelineInv /\ KeptTyped /\ [Next]_vars => KeptTyped'
  <2> SUFFICES ASSUME PipelineInv, KeptTyped, [Next]_vars PROVE KeptTyped'
    OBVIOUS
  <2>1. CASE UNCHANGED <<cache, sessions>>
    BY <2>1 DEF KeptTyped, EntryTyped
  <2>. QED
    BY <2>1, RequestsKeepTypes, AdminKeepsTypes, TimeKeepsTypes DEF Next, vars, PageChanges, Reload, Restart
<1>3. PipelineInv /\ KeptTyped => TypeOK
  BY DEF PipelineInv, Typed, KeptTyped, EntryTyped, TypeOK
<1>. QED
  BY <1>1, <1>2, <1>3, Invariance, PTL DEF Spec
===============================================================================
