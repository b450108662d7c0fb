---------------------------- MODULE QuotaLimits -----------------------------
(***************************************************************************)
(* The limits of providers and the amounts that count towards them, as the *)
(* usage log and what quotas promise have them in common.                  *)
(***************************************************************************)
EXTENDS Integers, FiniteSets

CONSTANTS
    Providers,
    Requests,       \* concurrent requests, as many as the semaphore has permits
    MonthlyLimit,   \* [Providers -> Nat \cup {NoLimit}]
    DailyLimit,     \* [Providers -> Nat \cup {NoLimit}]
    NoLimit,        \* the limit is None
    Removes,        \* providers whose exhausted_action is remove_from_pool
    Redirects,      \* providers that redirects and solvers put among the candidates
    Costs,          \* what a call may be charged
    Remaining,      \* what an admin may set the remaining quota to
    MaxCost,        \* the dearest call
    Owed            \* how far below zero an admin may set the remaining quota

ASSUME LimitsAssumption ==
    /\ NoLimit \notin Int
    /\ MonthlyLimit \in [Providers -> Nat \cup {NoLimit}]
    /\ DailyLimit \in [Providers -> Nat \cup {NoLimit}]
    /\ Removes \subseteq Providers
    /\ Redirects \subseteq Providers
ASSUME AmountsAssumption ==
    /\ MaxCost \in Nat
    /\ Owed \in Nat
    /\ Costs \subseteq 0..MaxCost
    /\ Remaining \subseteq {n \in Int : n >= 0 - Owed}
ASSUME RequestsAssumption == IsFiniteSet(Requests)

Reached(use, limit) == limit # NoLimit /\ use >= limit

=============================================================================
