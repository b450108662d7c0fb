------------------------------- MODULE Health -------------------------------
(* The health of the providers (registry.py:209-250, routes/health.py): what *)
(* GET /health reports is asked of the adapters, all at once, and kept for a *)
(* while; requests that find it too old at the same time each ask again, and *)
(* the slowest adapter of a request holds up what it writes.                 *)
EXTENDS Naturals, FiniteSets, Adapters

CONSTANTS
    Callers,        \* requests for /health
    Providers,      \* the providers with an adapter
    ApiKeys,        \* those of them that have an API key
    Backends,       \* the replies of a backend that are looked at
    CheckedSets,    \* the sets of providers whose health_check_enabled may be on
    HealthTtl,      \* _HEALTH_CACHE_TTL
    MaxProbe,       \* bound: an adapter's health check ends within this time
    MaxTime         \* bound

ASSUME HealthAssumption ==
    /\ Providers \subseteq DOMAIN Adapter
    /\ CheckedSets \subseteq SUBSET Providers
    /\ HealthTtl \in Nat \ {0}
    /\ {MaxProbe, MaxTime} \subseteq Nat

VARIABLES
    kept,       \* provider -> [healthy, at], and when it was seen (history)
    caller,     \* the requests
    checked,    \* the live configuration: the providers that are asked
    time

healthVars == <<kept, caller, checked, time>>

Idle == [phase |-> "idle", since |-> 0, stale |-> {}, status |-> <<>>]

HealthInit ==
    /\ kept = <<>>
    /\ caller = [c \in Callers |-> Idle]
    /\ checked \in CheckedSets
    /\ time = 0

\* Fault: what is kept is used for one unit of time too long.
RecentLonger(n) == n \in DOMAIN kept /\ time - kept[n].at <= HealthTtl

Recent(n) == n \in DOMAIN kept /\ time - kept[n].at < HealthTtl

\* A provider that is not to be asked is called healthy; "seen" is then the present.
Assumed == [healthy |-> TRUE, seen |-> time]

\* A request: what is known is taken, for the rest the adapters are asked.
AskHealth(c) ==
    LET stale == {n \in checked : ~Recent(n)}
        known == [n \in Providers \ stale |->
                    IF n \in checked THEN [healthy |-> kept[n].healthy, seen |-> kept[n].seen]
                                     ELSE Assumed]
    IN  /\ caller[c].phase = "idle"
        /\ caller' = [caller EXCEPT ![c] =
             [phase |-> IF stale = {} THEN "reported" ELSE "asking",
              since |-> time, stale |-> stale, status |-> known]]
        /\ UNCHANGED <<kept, checked, time>>

\* One of the adapters asked has its answer; a slow backend is waited for until the end.
Answer(c, n, reply) ==
    /\ caller[c].phase = "asking"
    /\ n \in caller[c].stale \ DOMAIN caller[c].status
    /\ reply = "slow" => time = caller[c].since + MaxProbe
    /\ caller' = [caller EXCEPT ![c].status =
         [m \in DOMAIN @ \cup {n} |->
            IF m = n THEN [healthy |-> HealthCheck(n, reply, ApiKeys), seen |-> time] ELSE @[m]]]
    /\ UNCHANGED <<kept, checked, time>>

\* What is kept after a request: all it asked for, stamped with the time it has all of it.
KeptAfter(c) ==
    [n \in DOMAIN kept \cup caller[c].stale |->
        IF n \in caller[c].stale
        THEN [healthy |-> caller[c].status[n].healthy, at |-> time,
              seen |-> caller[c].status[n].seen]
        ELSE kept[n]]

HasAll(c) == caller[c].phase = "asking" /\ caller[c].stale \subseteq DOMAIN caller[c].status

\* All answers are in.
Gathered(c) ==
    /\ HasAll(c)
    /\ kept' = KeptAfter(c)
    /\ caller' = [caller EXCEPT ![c].phase = "reported"]
    /\ UNCHANGED <<checked, time>>

\* The answer is sent; the slot is free for another request.
Sent(c) ==
    /\ caller[c].phase = "reported"
    /\ caller' = [caller EXCEPT ![c] = Idle]
    /\ UNCHANGED <<kept, checked, time>>

\* The configuration is read again.
ReloadChecked(new) ==
    /\ new # checked
    /\ checked' = new
    /\ UNCHANGED <<kept, caller, time>>

\* Time passes, but not beyond the end of a probe, and not while an answer is to be sent.
HealthTick ==
    /\ time < MaxTime
    /\ \A c \in Callers :
         /\ caller[c].phase # "reported" /\ ~HasAll(c)
         /\ caller[c].phase = "asking" => time < caller[c].since + MaxProbe
    /\ time' = time + 1
    /\ UNCHANGED <<kept, caller, checked>>

HealthNext ==
    \/ \E c \in Callers : AskHealth(c) \/ Gathered(c) \/ Sent(c)
    \/ \E c \in Callers, n \in Providers, reply \in Backends : Answer(c, n, reply)
    \/ \E new \in CheckedSets : ReloadChecked(new)
    \/ HealthTick

HealthSpec == HealthInit /\ [][HealthNext]_healthVars

-----------------------------------------------------------------------------
(* Properties *)

\* What is reported of a provider was so a bounded time ago: the time for which it is kept,
\* and twice that of a probe, once for the slowest of the request that kept it and once for
\* the slowest of the request that reports it; and requests that ask at the same time, one
\* writing what it saw before over what the other saw after, make it no older.
\* (registry.py:226-248)
ReportedRecent ==
    \A c \in Callers : caller[c].phase = "reported" =>
        /\ DOMAIN caller[c].status = Providers
        /\ \A n \in Providers :
             time - caller[c].status[n].seen <= HealthTtl - 1 + 2 * MaxProbe
=============================================================================
