---------------------------- MODULE QuotaPromise ----------------------------
(***************************************************************************)
(* What quotas promise, without the usage log: a count of cost units for   *)
(* the current month and one for the current day of each provider, that    *)
(* start again at zero with the month and the day.  Requests ask which     *)
(* providers they may use, wait for one of them, and are charged when it   *)
(* has answered.  `Usage` implements this with rows in a table.            *)
(***************************************************************************)
EXTENDS QuotaLimits

VARIABLES
    month,          \* cost units of the month so far
    day,            \* cost units of the day so far
    held            \* the candidates a waiting request was admitted to, {} if it is not waiting

quotaVars == <<month, day, held>>

-----------------------------------------------------------------------------

UsedUp(p) == Reached(month[p], MonthlyLimit[p]) \/ Reached(day[p], DailyLimit[p])

PromiseInit ==
    /\ month = [p \in Providers |-> 0]
    /\ day = [p \in Providers |-> 0]
    /\ held = [r \in Requests |-> {}]

\* A request is admitted to providers that are not used up, or that stay in
\* the pool as the last resort.
Admitted(r, S) ==
    /\ held[r] = {}
    /\ \A p \in S : p \in Removes => ~UsedUp(p)
    /\ held' = [held EXCEPT ![r] = S]
    /\ UNCHANGED <<month, day>>

\* One of its candidates, or one that a redirect put among them, has answered.
Charged(r, p, c) ==
    /\ held[r] # {}
    /\ p \in held[r] \cup Redirects
    /\ held' = [held EXCEPT ![r] = {}]
    /\ month' = [month EXCEPT ![p] = @ + c]
    /\ day' = [day EXCEPT ![p] = @ + c]

Dropped(S) ==
    /\ held' = [r \in Requests |-> IF r \in S THEN {} ELSE held[r]]
    /\ UNCHANGED <<month, day>>

Target(p, remaining) ==
    IF MonthlyLimit[p] - remaining > 0 THEN MonthlyLimit[p] - remaining ELSE 0

Overridden(p, remaining) ==
    /\ MonthlyLimit[p] # NoLimit
    /\ month' = [month EXCEPT ![p] = Target(p, remaining)]
    /\ day' = [day EXCEPT ![p] = @ + Target(p, remaining) - month[p]]
    /\ UNCHANGED held

Cleared(p) ==
    /\ month' = [month EXCEPT ![p] = 0]
    /\ day' = [day EXCEPT ![p] = 0]
    /\ UNCHANGED held

NewDay ==
    /\ day' = [p \in Providers |-> 0]
    /\ UNCHANGED <<month, held>>

NewMonth ==
    /\ day' = [p \in Providers |-> 0]
    /\ month' = [p \in Providers |-> 0]
    /\ UNCHANGED held

PromiseNext ==
    \/ \E r \in Requests, S \in SUBSET Providers : Admitted(r, S)
    \/ \E r \in Requests, p \in Providers, c \in Costs : Charged(r, p, c)
    \/ \E S \in SUBSET Requests : Dropped(S)
    \/ \E p \in Providers, n \in Remaining : Overridden(p, n)
    \/ \E p \in Providers : Cleared(p)
    \/ NewDay
    \/ NewMonth

PromiseSpec == PromiseInit /\ [][PromiseNext]_quotaVars

-----------------------------------------------------------------------------

PromiseTypeOK ==
    /\ month \in [Providers -> Int]
    /\ day \in [Providers -> Int]
    /\ held \in [Requests -> SUBSET Providers]

Users(p) == {r \in Requests : p \in held[r]}

\* Providers that only an admission can bring a request to.
Capped == {p \in Removes \ Redirects : MonthlyLimit[p] # NoLimit}

\* The month's use of a provider never goes below zero, whatever the admin
\* overrides (resource_manager.py override_quota writes negative rows), and
\* exceeds its limit by no more than what an admin has put above it and the
\* calls that were under way when the limit was reached: the check at admission
\* and the charge at the end are two steps, and each request in between adds one
\* call.
OvershootBounded ==
    \A p \in Providers :
        /\ month[p] >= 0
        /\ p \in Capped =>
              month[p] <= MonthlyLimit[p] + Owed
                          + (Cardinality(Requests) - Cardinality(Users(p))) * MaxCost

=============================================================================
