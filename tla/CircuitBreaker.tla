---------------------------- MODULE CircuitBreaker ----------------------------
(***************************************************************************)
(* The per-provider circuit breaker of ProviderResourceManager             *)
(* (resource_manager.py): one persisted row per provider, driven by the    *)
(* outcome of provider calls, by every read of the state (routing, health, *)
(* dashboards), by the admin reset and by the clock.                       *)
(*                                                                         *)
(* Every operation runs to its end on the event loop without a suspension  *)
(* point and commits its row, so each is one action, and a restart between *)
(* two operations keeps every row.                                         *)
(*                                                                         *)
(* Time.  The code stores instants (window_start_ts, opened_at_ts) and     *)
(* only ever compares `now - instant` with a configured duration.  A row   *)
(* here keeps the two differences, as ages that Tick advances together; an *)
(* age stops growing at MaxAge, past every duration of every               *)
(* configuration, where no comparison can tell it from a larger one.       *)
(* last_failure_ts is written and never read, and is left out.             *)
(***************************************************************************)
EXTENDS Integers

CONSTANTS
  Providers,   \* provider names
  Default,     \* the "default" entry of circuit_breaker.providers
  Configs,     \* the configurations the process may be (re)started with
  MaxAge       \* ages saturate here

NoTime == -1                                   \* a NULL instant in the row
Age == 0..MaxAge

ProviderConfig == [error_threshold: Nat, window_seconds: Nat, cooldown_seconds: Nat]

\* A circuit_breaker section: whether it is enabled, and the entries it has.
BreakerConfig(c) ==
  /\ c.enabled \in BOOLEAN
  /\ DOMAIN c.providers \subseteq Providers \cup {Default}
  /\ \A p \in DOMAIN c.providers :
       /\ c.providers[p] \in ProviderConfig
       /\ c.providers[p].window_seconds < MaxAge
       /\ c.providers[p].cooldown_seconds <= MaxAge

ASSUME BreakerAssumption ==
  /\ Default \notin Providers
  /\ MaxAge \in Nat
  /\ \A c \in Configs : BreakerConfig(c)

VARIABLES
  config,      \* the circuit_breaker section the process was started with
  row          \* provider -> its row of circuit_breaker_state

breakerVars == <<config, row>>

CircuitState == {"closed", "open", "half_open"}

Row == [state: CircuitState, failure_count: Nat,
        window: Age \cup {NoTime}, opened: Age \cup {NoTime}, cooldown: Nat]

\* What _load_cb_state answers for a provider without a row.
NoRow == [state |-> "closed", failure_count |-> 0,
          window |-> NoTime, opened |-> NoTime, cooldown |-> 120]

BreakerInit ==
  /\ config \in Configs
  /\ row = [p \in Providers |-> NoRow]

-------------------------------------------------------------------------------
\* The provider's own entry, else the "default" one.
HasConfig(p) == {p, Default} \cap DOMAIN config.providers # {}

ConfigOf(p) == config.providers[IF p \in DOMAIN config.providers THEN p ELSE Default]

Tracked(p) == config.enabled /\ HasConfig(p)

Cooled(p) == row[p].opened # NoTime /\ row[p].opened >= row[p].cooldown

WindowExpired(p) ==
  row[p].window = NoTime \/ row[p].window > ConfigOf(p).window_seconds

FailuresWith(p) == IF WindowExpired(p) THEN 1 ELSE row[p].failure_count + 1

WindowWith(p) == IF WindowExpired(p) THEN 0 ELSE row[p].window

-------------------------------------------------------------------------------
(***************************************************************************)
(* Faults: what a slip in the code would make of the definitions below.    *)
(* None of them is part of the specification; each breaks a property.      *)
(***************************************************************************)
\* The instant of the opening is not stored.
FailureClosedUndated(p) ==
  /\ Tracked(p)
  /\ row[p].state = "closed"
  /\ row' = [row EXCEPT ![p] =
       [@ EXCEPT !.failure_count = FailuresWith(p), !.window = WindowWith(p),
                 !.state = IF FailuresWith(p) >= ConfigOf(p).error_threshold
                           THEN "open" ELSE "closed"]]

\* The counter outlives its window.
FailureClosedForever(p) ==
  /\ Tracked(p)
  /\ row[p].state = "closed"
  /\ row' = [row EXCEPT ![p] =
       IF row[p].failure_count + 1 >= ConfigOf(p).error_threshold
       THEN [state |-> "open", failure_count |-> row[p].failure_count + 1,
             window |-> WindowWith(p), opened |-> 0,
             cooldown |-> ConfigOf(p).cooldown_seconds]
       ELSE [@ EXCEPT !.failure_count = @ + 1, !.window = WindowWith(p)]]

\* A late failure starts the cooldown again.
FailureOpenRestarts(p) ==
  /\ Tracked(p)
  /\ row[p].state = "open"
  /\ row' = [row EXCEPT ![p].opened = 0]

\* A late success closes the circuit.
RecordSuccessCloses(p) ==
  /\ row' = IF config.enabled
            THEN [row EXCEPT ![p].state = "closed", ![p].failure_count = 0,
                             ![p].window = NoTime, ![p].opened = NoTime]
            ELSE row
  /\ UNCHANGED config

\* A success closes no circuit.
RecordSuccessClosesNone(p) ==
  /\ row' = IF config.enabled /\ row[p].state = "closed"
            THEN [row EXCEPT ![p].failure_count = 0, ![p].window = NoTime]
            ELSE row
  /\ UNCHANGED config

\* The state is stored under the name the documentation gives it.
RowReadMisspelt(p) ==
  IF config.enabled /\ row[p].state = "open" /\ Cooled(p)
  THEN [row[p] EXCEPT !.state = "half-open"]
  ELSE row[p]

-------------------------------------------------------------------------------
(***************************************************************************)
(* record_failure: a failed call of p, whenever it was dispatched.         *)
(***************************************************************************)
FailureIgnored(p) == ~Tracked(p) /\ UNCHANGED row

FailureHalfOpen(p) ==
  /\ Tracked(p)
  /\ row[p].state = "half_open"
  /\ row' = [row EXCEPT ![p] =
       [state |-> "open", failure_count |-> 1, window |-> 0, opened |-> 0,
        cooldown |-> ConfigOf(p).cooldown_seconds]]

FailureOpen(p) == Tracked(p) /\ row[p].state = "open" /\ UNCHANGED row

FailureClosed(p) ==
  /\ Tracked(p)
  /\ row[p].state = "closed"
  /\ row' = [row EXCEPT ![p] =
       IF FailuresWith(p) >= ConfigOf(p).error_threshold
       THEN [state |-> "open", failure_count |-> FailuresWith(p),
             window |-> WindowWith(p), opened |-> 0,
             cooldown |-> ConfigOf(p).cooldown_seconds]
       ELSE [@ EXCEPT !.failure_count = FailuresWith(p), !.window = WindowWith(p)]]

RecordFailure(p) ==
  /\ \/ FailureIgnored(p)
     \/ FailureHalfOpen(p)
     \/ FailureOpen(p)
     \/ FailureClosed(p)
  /\ UNCHANGED config

(***************************************************************************)
(* record_success: a call of p that was answered.  Unlike record_failure   *)
(* it does not ask whether p has a configuration.                          *)
(***************************************************************************)
RecordSuccess(p) ==
  /\ row' =
       IF ~config.enabled \/ (row[p].state = "open" /\ ~Cooled(p)) THEN row
       ELSE IF row[p].state = "open" THEN [row EXCEPT ![p].state = "half_open"]
       ELSE [row EXCEPT ![p].state = "closed", ![p].failure_count = 0,
                        ![p].window = NoTime,
                        ![p].opened = IF row[p].state = "half_open" THEN NoTime ELSE @]
  /\ UNCHANGED config

(***************************************************************************)
(* get_circuit_state writes the state it finds the circuit to be in.       *)
(***************************************************************************)
RowRead(p) ==
  IF config.enabled /\ row[p].state = "open" /\ Cooled(p)
  THEN [row[p] EXCEPT !.state = "half_open"]
  ELSE row[p]

StateRead(p) == IF config.enabled THEN RowRead(p).state ELSE "closed"

\* One pass over a set of providers: filter_available and get_summary read
\* every provider they look at.
GetCircuitStates(S) ==
  /\ row' = [p \in Providers |-> IF p \in S THEN RowRead(p) ELSE row[p]]
  /\ UNCHANGED config

GetCircuitState(p) == GetCircuitStates({p})

ResetCircuit(p) ==
  /\ row' = [row EXCEPT ![p] = NoRow]
  /\ UNCHANGED config

\* The rows are in SQLite; the configuration is the one read at startup.
Restart ==
  /\ config' \in Configs
  /\ UNCHANGED row

Older(a) == IF a \in 0..(MaxAge - 1) THEN a + 1 ELSE a

Tick ==
  /\ row' = [p \in Providers |->
       [row[p] EXCEPT !.window = Older(@), !.opened = Older(@)]]
  /\ UNCHANGED config

BreakerNext ==
  \/ \E p \in Providers :
       \/ RecordFailure(p)
       \/ RecordSuccess(p)
       \/ GetCircuitState(p)
       \/ ResetCircuit(p)
  \/ Restart
  \/ Tick

BreakerSpec == BreakerInit /\ [][BreakerNext]_breakerVars

-------------------------------------------------------------------------------
\* The type of the configuration and of every row.
BreakerTypeOK ==
  /\ config \in Configs
  /\ row \in [Providers -> Row]

\* A circuit that is not closed knows when it was opened (without that instant
\* the cooldown test of get_circuit_state never succeeds and the provider is
\* out of the pool for good), a closed one has forgotten it, and there is a
\* window exactly when failures are counted in it; over every restart and
\* every change of configuration.
RowsCoherent ==
  \A p \in Providers :
    /\ row[p].state = "closed" <=> row[p].opened = NoTime
    /\ row[p].failure_count = 0 <=> row[p].window = NoTime
    /\ row[p].state # "closed" => row[p].failure_count > 0

\* An open circuit is left through its cooldown, or by the admin; and never
\* for "closed" but by the admin: one answer that arrives late from a call made
\* before the circuit opened does not close it (record_success, record_failure
\* and get_circuit_state in any order).
OpenIsLeftCooled ==
  [][\A p \in Providers :
       row[p].state = "open" /\ row'[p].state # "open" =>
         (Cooled(p) /\ row'[p].state = "half_open") \/ ResetCircuit(p)]_breakerVars
===============================================================================
