------------------------ MODULE CircuitBreakerHistory ------------------------
(***************************************************************************)
(* The circuit breaker with a history of what happened to it, kept apart   *)
(* from the row it maintains, to say what the row must be telling: the     *)
(* ages of the latest failures it was told of since it was last told of a  *)
(* success, and the age and the cooldown of its latest opening.            *)
(***************************************************************************)
EXTENDS CircuitBreaker

CONSTANT MaxStreak   \* how many failures are remembered

VARIABLES streak, downtime, due

historyVars == <<streak, downtime, due>>
allVars == <<breakerVars, historyVars>>

PolicyOf(p) == IF Tracked(p) THEN {ConfigOf(p)} ELSE {}

Promise == INSTANCE BreakerPromise WITH
             circuit <- [p \in Providers |-> row[p].state],
             policy <- [p \in Providers |-> PolicyOf(p)]

ASSUME StreakAssumption ==
  /\ MaxStreak \in Nat \ {0}
  /\ \A c \in Configs : \A p \in DOMAIN c.providers :
       c.providers[p].error_threshold \in 0..MaxStreak

HInit ==
  /\ BreakerInit
  /\ streak = [p \in Providers |-> Promise!NoFailures]
  /\ downtime = [p \in Providers |-> NoTime]
  /\ due = [p \in Providers |-> 0]

\* An opening starts the downtime; nothing else does.
NoteOpening(p) ==
  IF row[p].state # "open" /\ row'[p].state = "open"
  THEN /\ downtime' = [downtime EXCEPT ![p] = 0]
       /\ due' = [due EXCEPT ![p] = ConfigOf(p).cooldown_seconds]
  ELSE UNCHANGED <<downtime, due>>

HFailure(p) ==
  /\ RecordFailure(p)
  /\ streak' = IF Tracked(p) THEN [streak EXCEPT ![p] = Promise!Push(@)] ELSE streak
  /\ NoteOpening(p)

HSuccess(p) ==
  /\ RecordSuccess(p)
  /\ streak' = IF config.enabled /\ row[p].state # "open"
               THEN [streak EXCEPT ![p] = Promise!NoFailures] ELSE streak
  /\ NoteOpening(p)

HRead(p) == GetCircuitState(p) /\ NoteOpening(p) /\ UNCHANGED streak

HReset(p) ==
  /\ ResetCircuit(p)
  /\ streak' = [streak EXCEPT ![p] = Promise!NoFailures]
  /\ NoteOpening(p)

HRestart == Restart /\ UNCHANGED historyVars

HTick ==
  /\ Tick
  /\ streak' = [p \in Providers |-> [k \in 1..MaxStreak |-> Older(streak[p][k])]]
  /\ downtime' = [p \in Providers |-> Older(downtime[p])]
  /\ UNCHANGED due

HNext ==
  \/ \E p \in Providers : HFailure(p) \/ HSuccess(p) \/ HRead(p) \/ HReset(p)
  \/ HRestart
  \/ HTick

HSpec == HInit /\ [][HNext]_allVars

\* The clock advances, and the state of every circuit keeps being read: /health
\* is polled by the container's health check (routes/health.py get_summary) and
\* every routed request reads the circuits of its candidates.  Calls, resets
\* and restarts are under no obligation to happen.
HFairSpec ==
  /\ HSpec
  /\ WF_allVars(HTick)
  /\ \A p \in Providers : WF_allVars(HRead(p))

-------------------------------------------------------------------------------
\* The breaker keeps its promise: every step of the row's bookkeeping is a step
\* of BreakerPromise.  So it opens only on error_threshold failures within
\* window_seconds with no success among them, although it keeps one counter and
\* one instant; and every opening is followed by its whole cooldown, although
\* late failures, late successes, reads and restarts arrive during it.
KeepsPromise == Promise!PromiseInit /\ [][Promise!PromiseNext]_(Promise!promiseVars)

\* A circuit never stays open for good while breaking is enabled: failures that
\* keep arriving from calls already in flight do not put the cooldown off
\* (record_failure on an open row), and whatever the restarts.
OpenEnds ==
  \A p \in Providers : row[p].state = "open" /\ config.enabled
                         ~> (row[p].state # "open" \/ ~config.enabled)
===============================================================================
