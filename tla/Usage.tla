------------------------------- MODULE Usage --------------------------------
(***************************************************************************)
(* The usage log of ProviderResourceManager and the quotas read from it.   *)
(* Rows of provider_usage are added up per provider and day; the month's   *)
(* and the day's use are the sums the two queries make.  Reading a quota   *)
(* raises its alerts.  Requests are admitted by filter_available, wait for *)
(* a provider under a permit, and are charged by record_usage.             *)
(***************************************************************************)
EXTENDS Alerts, QuotaLimits, FiniteSetsExt, SequencesExt

CONSTANTS
    Configured,     \* providers with an entry in quotas.providers
    AlertAt,        \* [Providers -> Int], alert_at_percent
    Chains,         \* the candidate lists requests bring to filter_available
    TicksPerDay, DaysPerMonth,
    MaxDay,         \* bound: the last day of the model
    OtherEvents,    \* events other components log
    MaxUse,         \* bound: [Providers -> Nat], a provider's sums stay within it
    MaxBoots        \* bound: restarts of the process

Days == 0..MaxDay

ASSUME UsageAssumption ==
    /\ Configured \subseteq Providers
    /\ AlertAt \in [Providers -> Int]
    /\ \A p \in Providers \ Configured : MonthlyLimit[p] = NoLimit /\ DailyLimit[p] = NoLimit
    /\ \A chain \in Chains : chain \in Seq(Providers)
    /\ TicksPerDay \in Nat \ {0} /\ DaysPerMonth \in Nat \ {0} /\ MaxDay \in Nat
    /\ IsFiniteSet(Providers)
    /\ OtherEvents \subseteq {Event(e, p) : e \in {"circuit_open", "injection_detected"}, p \in Providers}

VARIABLES
    rows,           \* [Providers -> [Days -> Int]], the cost units of a day's rows
    alerted,        \* _alerted_providers
    held,           \* the candidates a waiting request was admitted to
    boots           \* history: how often the process was restarted

alertVars == <<clock, tasks, last, tried>>
usageVars == <<rows, alerted, held, boots>>
vars == <<rows, alerted, held, boots, clock, tasks, last, tried>>

-----------------------------------------------------------------------------
(* The quotas.                                                             *)

Today == clock \div TicksPerDay
MonthOf(d) == d \div DaysPerMonth

\* SUM(cost_units) of the rows since a day; there are none after today.
SumSince(p, first) ==
    LET sum[d \in Days] == IF d < first THEN 0
                           ELSE rows[p][d] + (IF d = 0 THEN 0 ELSE sum[d - 1])
    IN  sum[Today]

\* Fault: a sliding month.
MonthUseSliding(p) == SumSince(p, Today - (DaysPerMonth - 1))

\* The sums since the start of the month and of the day.
MonthUse(p) == SumSince(p, Today - (Today % DaysPerMonth))
DayUse(p) == SumSince(p, Today)

Exhausted(p) == Reached(MonthUse(p), MonthlyLimit[p]) \/ Reached(DayUse(p), DailyLimit[p])

\* pct >= alert_at_percent: the percentage is of the monthly limit, of the
\* daily one only if there is no monthly limit above zero, and zero without either.
Percent(use, limit, percent) == use * 100 >= percent * limit
Counts(limit) == limit # NoLimit /\ limit > 0
AlertDue(p) ==
    /\ p \in Configured \ alerted
    /\ CASE Counts(MonthlyLimit[p]) -> Percent(MonthUse(p), MonthlyLimit[p], AlertAt[p])
         [] ~Counts(MonthlyLimit[p]) /\ Counts(DailyLimit[p]) ->
              Percent(DayUse(p), DailyLimit[p], AlertAt[p])
         [] ~Counts(MonthlyLimit[p]) /\ ~Counts(DailyLimit[p]) -> AlertAt[p] <= 0

\* The events get_quota_info logs for the i-th of ps, whose flag it may have set before.
Notices(ps, i) ==
    (IF AlertDue(ps[i]) /\ \A j \in 1..i-1 : ps[j] # ps[i]
     THEN <<Event("quota_alert", ps[i])>> ELSE <<>>)
    \o (IF Exhausted(ps[i]) THEN <<Event("quota_exhausted", ps[i])>> ELSE <<>>)

\* Fault: the flag is not set.
QuotasReadForgetful(ps) ==
    /\ LogEvents(FlattenSeq([i \in DOMAIN ps |-> Notices(ps, i)]))
    /\ UNCHANGED alerted

\* get_quota_info for each of a sequence of providers.
QuotasRead(ps) ==
    /\ LogEvents(FlattenSeq([i \in DOMAIN ps |-> Notices(ps, i)]))
    /\ alerted' = alerted \cup {p \in ToSet(ps) : AlertDue(p)}

-----------------------------------------------------------------------------

Init ==
    /\ AlertsInit(Providers)
    /\ rows = [p \in Providers |-> [d \in Days |-> 0]]
    /\ alerted = {}
    /\ held = [r \in Requests |-> {}]
    /\ boots = 0

\* Fault: an exhausted provider is moved to the end instead of removed.
AdmitAnyway(r, chain) ==
    /\ held[r] = {}
    /\ QuotasRead(chain)
    /\ held' = [held EXCEPT ![r] = ToSet(chain)]
    /\ UNCHANGED <<rows, boots, clock, last, tried>>

\* Under a permit, a request has its candidates filtered; the circuits'
\* part of the filter is in Fallback.  With nothing left it fails at once.  The
\* filter passes over candidates without quotas, which have nothing to tell.
Admit(r, chain) ==
    /\ held[r] = {}
    /\ QuotasRead(chain)
    /\ held' = [held EXCEPT ![r] = {p \in ToSet(chain) : ~(p \in Removes /\ Exhausted(p))}]
    /\ UNCHANGED <<rows, boots, clock, last, tried>>

AddRow(p, units) ==
    /\ rows[p][Today] + units \in -MaxUse[p]..MaxUse[p]
    /\ MonthUse(p) + units <= MaxUse[p]
    /\ rows' = [rows EXCEPT ![p][Today] = @ + units]

\* record_usage, in the step in which the provider's answer is taken.
Finish(r, p, units) ==
    /\ held[r] # {}
    /\ p \in held[r] \cup Redirects
    /\ held' = [held EXCEPT ![r] = {}]
    /\ AddRow(p, units)
    /\ UNCHANGED <<alerted, boots, alertVars>>

\* A request that fails is not recorded.
Fail(r) ==
    /\ held[r] # {}
    /\ held' = [held EXCEPT ![r] = {}]
    /\ UNCHANGED <<rows, alerted, boots, alertVars>>

\* GET /health, the usage summary and the dashboards read every quota.
GetSummary ==
    /\ \E ps \in SetToSeqs(Providers) : QuotasRead(ps)
    /\ UNCHANGED <<rows, held, boots, clock, last, tried>>

OverrideQuota(p, remaining) ==
    /\ p \in Configured /\ MonthlyLimit[p] # NoLimit
    /\ QuotasRead(<<p>>)
    /\ AddRow(p, Max({0, MonthlyLimit[p] - remaining}) - MonthUse(p))
    /\ UNCHANGED <<held, boots, clock, last, tried>>

\* Deletes the rows since the start of the month.
ResetQuota(p) ==
    /\ rows' = [rows EXCEPT ![p] =
                   [d \in Days |-> IF MonthOf(d) >= MonthOf(Today) THEN 0 ELSE rows[p][d]]]
    /\ UNCHANGED <<alerted, held, boots, alertVars>>

\* circuit_open and injection_detected come from elsewhere.
OtherEvent ==
    /\ \E e \in OtherEvents : LogEvents(<<e>>)
    /\ UNCHANGED <<usageVars, clock, last, tried>>

RunDispatch == Dispatch /\ UNCHANGED usageVars

Tick ==
    /\ clock + 1 < (MaxDay + 1) * TicksPerDay
    /\ clock' = clock + 1
    /\ UNCHANGED <<usageVars, tasks, last, tried>>

\* The rows stay, everything else is gone.
Restart ==
    /\ boots < MaxBoots
    /\ boots' = boots + 1
    /\ ForgetAlerts
    /\ alerted' = {}
    /\ held' = [r \in Requests |-> {}]
    /\ UNCHANGED <<rows, clock>>

Next ==
    \/ \E r \in Requests :
          \/ \E chain \in Chains : Admit(r, chain)
          \/ \E p \in Providers, c \in Costs : Finish(r, p, c)
          \/ Fail(r)
    \/ GetSummary
    \/ \E p \in Providers :
          \/ \E n \in Remaining : OverrideQuota(p, n)
          \/ ResetQuota(p)
    \/ OtherEvent
    \/ RunDispatch
    \/ Tick
    \/ Restart

Spec == Init /\ [][Next]_vars

-----------------------------------------------------------------------------
(* Properties.                                                             *)

\* An event is withheld only because the same event of the same provider was
\* tried less than suppress_seconds before, never because one was withheld
\* before, or because the machine has not been up that long (dispatch takes a
\* missing entry for one at 0.0 on the monotonic clock).  An event tried in the
\* tick in which it was tried before leaves no trace in `tried` and is let pass.
WithheldOnlyCovered ==
    [][(boots' = boots /\ Len(tasks') < Len(tasks) /\ tried' = tried) =>
          LET e == Head(tasks)
          IN  \/ e.event \notin Subscribed
              \/ Monotonic < Suppress
              \/ tried[e] # Never /\ clock - tried[e] < Suppress
              \/ tried[e] = clock]_vars

\* The alert of a threshold is told once in a process, and not lost: whoever reads
\* the quota (requests, health checks, dashboards, overrides), at most one
\* quota_alert per provider is waiting or tried, none for a provider that is not
\* flagged, and one for each that is, if the event is in alerts.events and the
\* machine has been up for suppress_seconds.  The flag is for the life of the
\* process: a threshold crossed again in a later month is not told again.
ThresholdToldOnce ==
    \A p \in Providers :
        LET k == Event("quota_alert", p)
            waiting == Cardinality({i \in DOMAIN tasks : tasks[i] = k})
        IN  /\ waiting + (IF tried[k] = Never THEN 0 ELSE 1) <= 1
            /\ waiting > 0 \/ tried[k] # Never => p \in alerted
            /\ p \in alerted /\ "quota_alert" \in Subscribed /\ Uptime >= Suppress =>
                   waiting > 0 \/ tried[k] # Never

-----------------------------------------------------------------------------
(* The two sums are the counters of QuotaPromise.                          *)

Promise == INSTANCE QuotaPromise WITH
    month <- [p \in Providers |-> MonthUse(p)],
    day <- [p \in Providers |-> DayUse(p)]

\* The sums over the log behave as counters that start again with the month and
\* the day, through charges, overrides, resets and restarts, and admission goes
\* by them (get_quota_info's two queries).
KeepsPromise == Promise!PromiseSpec

\* QuotaPromise's bound on a provider's use, for the sums read from the log.
OvershootBounded == Promise!OvershootBounded

=============================================================================
