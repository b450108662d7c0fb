----------------------------- MODULE RateLimiter -----------------------------
(***************************************************************************)
(* The sliding windows of ratelimit/limiter.py and the middleware in front *)
(* of /search, /extract and /mcp that charges them.                        *)
(*                                                                         *)
(* A bucket holds the ages of the requests charged to it, oldest first; the*)
(* code's deque holds their instants.  The lock is never contended, since  *)
(* nothing suspends while it is held: a check is one action.               *)
(*                                                                         *)
(* The code has neither log nor recently; they are there for the           *)
(* properties.  log remembers what was admitted, recently how long ago a   *)
(* configuration was in force; both stop at the longest of all windows.    *)
(***************************************************************************)
EXTENDS Naturals, Sequences, FiniteSetsExt, Functions

CONSTANTS
  Clients,        \* client addresses
  Tokens,         \* bearer tokens of known keys
  NoToken,        \* no token, or none that is known
  Configs,        \* configurations a reload may find
  MaxAge          \* ages saturate here

Rule == [requests: Nat, window: Nat]
Names == ({"ip"} \X Clients) \cup ({"key"} \X Tokens)
LongestWindow(c) == Max({c.by_ip.window, c.by_key.window})
Horizon == Max({LongestWindow(c) : c \in Configs})

ASSUME RateAssumption ==
  /\ NoToken \notin Tokens
  /\ MaxAge \in Nat
  /\ Configs # {}
  /\ \A c \in Configs :
       /\ c \in [enabled: BOOLEAN, by_ip: Rule, by_key: Rule, keys: SUBSET Tokens]
       /\ 2 * LongestWindow(c) < MaxAge

VARIABLES
  config,         \* the configuration in force
  recently,       \* configuration -> ticks since it was last in force, up to Horizon
  started,        \* the one the limiter was built with
  buckets,        \* name -> ages of the requests charged to it, oldest first
  log             \* name -> ages of the requests admitted under it

vars == <<config, recently, started, buckets, log>>

\* No configuration but that of the start has been in force.
OnlyNow(c) == [d \in Configs |-> IF d = c THEN 0 ELSE Horizon]

Init ==
  /\ config \in Configs
  /\ recently = OnlyNow(config)
  /\ started = config
  /\ buckets = << >>
  /\ log = [n \in Names |-> << >>]

-------------------------------------------------------------------------------
RuleIn(c, name) == IF name[1] = "ip" THEN c.by_ip ELSE c.by_key
RuleOf(name) == RuleIn(config, name)

\* The oldest are dropped as long as they are too old; what comes after one that is
\* not is not looked at.
Within(ages, window) ==
  LET kept == {i \in DOMAIN ages : ages[i] <= window}
  IN IF kept = {} THEN << >> ELSE SubSeq(ages, Min(kept), Len(ages))

\* The timestamps of a bucket that are not older than its window.
Recent(name) ==
  IF name \in DOMAIN buckets THEN Within(buckets[name], RuleOf(name).window) ELSE << >>

Full(name) == Len(Recent(name)) >= RuleOf(name).requests

\* The middleware looks the token up among the keys of the configuration, not
\* among those of the key store.
Checks(client, token) ==
  {<<"ip", client>>} \cup (IF token \in config.keys THEN {<<"key", token>>} ELSE {})

\* Phase 1 looks at the client first, and at the key only if the client passes.
Examined(client, token) ==
  IF Full(<<"ip", client>>) THEN {<<"ip", client>>} ELSE Checks(client, token)

\* The buckets in names are trimmed, and those in charged get one more request.
Charge(names, charged) ==
  buckets' = [n \in DOMAIN buckets \cup names |->
                IF n \notin names THEN buckets[n]
                ELSE IF n \in charged THEN Append(Recent(n), 0) ELSE Recent(n)]

Admitted(client, token) ==
  /\ config.enabled
  /\ \A n \in Checks(client, token) : ~Full(n)
  /\ Charge(Checks(client, token), Checks(client, token))
  /\ log' = [n \in Names |->
               IF n \in Checks(client, token) THEN Append(log[n], 0) ELSE log[n]]
  /\ UNCHANGED <<config, recently, started>>

\* Fault: a window is charged as soon as it has passed.
RefusedCharging(client, token) ==
  /\ config.enabled
  /\ \E n \in Checks(client, token) : Full(n)
  /\ Charge(Examined(client, token), {n \in Examined(client, token) : ~Full(n)})
  /\ UNCHANGED <<config, recently, started, log>>

\* 429, charged to nobody.
Refused(client, token) ==
  /\ config.enabled
  /\ \E n \in Checks(client, token) : Full(n)
  /\ Charge(Examined(client, token), {})
  /\ UNCHANGED <<config, recently, started, log>>

Stale(name, age) ==
  buckets[name] = << >> \/ buckets[name][Len(buckets[name])] > age

\* Fault: buckets that were trimmed to nothing stay.
PruneNonEmpty ==
  /\ buckets' = Restrict(buckets,
       {n \in DOMAIN buckets : buckets[n] = << >> \/ ~Stale(n, 2 * LongestWindow(started))})
  /\ UNCHANGED <<config, recently, started, log>>

\* Fault: the shorter window decides.
PruneEarly ==
  /\ buckets' = Restrict(buckets,
       {n \in DOMAIN buckets : ~Stale(n, Min({started.by_ip.window, started.by_key.window}))})
  /\ UNCHANGED <<config, recently, started, log>>

\* The background task: its windows are those the limiter was built with.
Prune ==
  /\ buckets' = Restrict(buckets,
       {n \in DOMAIN buckets : ~Stale(n, 2 * LongestWindow(started))})
  /\ UNCHANGED <<config, recently, started, log>>

\* The admin reloads the configuration file.
Reload ==
  /\ config' \in Configs
  /\ recently' = [recently EXCEPT ![config'] = 0]
  /\ UNCHANGED <<started, buckets, log>>

\* The buckets are in memory.
Restart ==
  /\ config' \in Configs /\ started' = config'
  /\ recently' = OnlyNow(config')
  /\ buckets' = << >>
  /\ log' = [n \in Names |-> << >>]

Older(ages) == [i \in DOMAIN ages |-> IF ages[i] < MaxAge THEN ages[i] + 1 ELSE MaxAge]

Tick ==
  /\ buckets' = [n \in DOMAIN buckets |-> Older(buckets[n])]
  /\ log' = [n \in Names |-> Within(Older(log[n]), Horizon)]
  /\ recently' = [c \in Configs |-> IF c = config THEN 0
                                     ELSE IF recently[c] < Horizon THEN recently[c] + 1
                                     ELSE Horizon]
  /\ UNCHANGED <<config, started>>

Next ==
  \/ \E client \in Clients : \E token \in Tokens \cup {NoToken} :
       Admitted(client, token) \/ Refused(client, token)
  \/ Prune
  \/ Reload
  \/ Restart
  \/ Tick

\* Time passes and the background task runs; nobody has to ask for anything.
Spec == Init /\ [][Next]_vars /\ WF_vars(Prune) /\ WF_vars(Tick)

-------------------------------------------------------------------------------
\* The types; buckets are sorted, so that trimming them from the left is enough.
TypeOK ==
  /\ config \in Configs /\ started \in Configs
  /\ recently \in [Configs -> 0..Horizon]
  /\ DOMAIN buckets \subseteq Names
  /\ \A n \in DOMAIN buckets :
       /\ buckets[n] \in Seq(0..MaxAge)
       /\ \A i, j \in DOMAIN buckets[n] : i < j => buckets[n][i] >= buckets[n][j]

\* The limiter still knows who was admitted that long ago: a shorter window in force
\* since then may have trimmed the bucket, and the prune task, which goes by the
\* windows of the start, may have dropped it.
Remembers(name, age) ==
  /\ age <= 2 * LongestWindow(started)
  /\ \A c \in Configs : age <= RuleIn(c, name).window + recently[c]

\* No client and no key is admitted more often than its limit in any stretch of time
\* up to now that lies within the window in force and that the limiter remembers,
\* whatever refused requests trim, the task prunes and a reload changes.  It remembers
\* the whole window unless a reload has made the window longer.  Then it has lost what
\* the shorter window let go, until that window is long enough out of force; and what
\* is older than twice the windows of the start is lost for good.
NeverOverLimit ==
  [][\A client \in Clients : \A token \in Tokens \cup {NoToken} :
       Admitted(client, token) =>
         \A n \in Checks(client, token) : \A age \in 0..Horizon :
           Remembers(n, age) => Len(Within(log'[n], age)) <= RuleOf(n).requests]_vars

\* What refuses a request is a client or a key that has really been admitted as often
\* as the limit in force within the window in force: requests that were refused, for
\* the other one's sake too, do not count.
RefusedOnlyFull ==
  \A n \in Names :
    Full(n) => Len(Within(log[n], RuleOf(n).window)) >= RuleOf(n).requests

Touched(name) ==
  \E client \in Clients : \E token \in Tokens \cup {NoToken} :
    name \in Checks(client, token) /\ (Admitted(client, token) \/ Refused(client, token))

\* The limiter does not collect everybody who ever called: who stays away is
\* forgotten, whatever a last refused request left behind.
QuietForgotten ==
  \A n \in Names : <>[][~Touched(n)]_vars => <>[](n \notin DOMAIN buckets)
===============================================================================
