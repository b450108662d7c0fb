---------------------------- MODULE BreakerPromise ----------------------------
(***************************************************************************)
(* What a circuit breaker promises its callers, without the bookkeeping    *)
(* ProviderResourceManager does to keep it (the state table of             *)
(* docs-src/docs/operations/circuit-breaker.md):                           *)
(*   - it cuts a provider off only on evidence: as many failures as the    *)
(*     threshold, no success among them, all within the window;            *)
(*   - it keeps it cut off for the whole cooldown, counted anew from every *)
(*     opening, whatever arrives in the meantime;                          *)
(*   - it readmits it only as half-open, where one answer decides.         *)
(* It may be slower than the evidence: a failure may leave it closed.      *)
(***************************************************************************)
EXTENDS Integers

CONSTANTS
  Providers,
  MaxAge,        \* ages saturate here
  MaxStreak      \* length of the remembered streak of failures

VARIABLES
  circuit,       \* provider -> "closed" | "open" | "half_open"
  streak,        \* provider -> ages of its latest failures, newest first
  downtime,      \* provider -> age of its latest opening
  due,           \* provider -> cooldown promised at that opening
  policy         \* provider -> set of at most one policy in force for it

promiseVars == <<circuit, streak, downtime, due, policy>>

Never == -1

NoFailures == [k \in 1..MaxStreak |-> Never]

PromiseInit ==
  /\ circuit = [p \in Providers |-> "closed"]
  /\ streak = [p \in Providers |-> NoFailures]
  /\ downtime = [p \in Providers |-> Never]
  /\ due = [p \in Providers |-> 0]

\* One more failure in front of the streak.
Push(s) == [k \in 1..MaxStreak |-> IF k = 1 THEN 0 ELSE s[k - 1]]

Supports(s, pol) ==
  \A k \in 1..pol.error_threshold : s[k] \in 0..pol.window_seconds

Opens(p, pol) ==
  /\ circuit' = [circuit EXCEPT ![p] = "open"]
  /\ downtime' = [downtime EXCEPT ![p] = 0]
  /\ due' = [due EXCEPT ![p] = pol.cooldown_seconds]

Fail(p) ==
  /\ \E pol \in policy[p] :
       /\ streak' = [streak EXCEPT ![p] = Push(@)]
       /\ \/ circuit[p] = "half_open" /\ Opens(p, pol)
          \/ circuit[p] = "closed" /\ Supports(streak'[p], pol) /\ Opens(p, pol)
          \/ circuit[p] # "half_open" /\ UNCHANGED <<circuit, downtime, due>>
  /\ UNCHANGED policy

Readmit(p) ==
  /\ circuit[p] = "open" /\ downtime[p] >= due[p]
  /\ circuit' = [circuit EXCEPT ![p] = "half_open"]
  /\ UNCHANGED <<streak, downtime, due, policy>>

Answer(p) ==
  /\ circuit[p] # "open"
  /\ circuit' = [circuit EXCEPT ![p] = "closed"]
  /\ streak' = [streak EXCEPT ![p] = NoFailures]
  /\ UNCHANGED <<downtime, due, policy>>

Override(p) ==
  /\ circuit' = [circuit EXCEPT ![p] = "closed"]
  /\ streak' = [streak EXCEPT ![p] = NoFailures]
  /\ UNCHANGED <<downtime, due, policy>>

NewPolicy == policy' # policy /\ UNCHANGED <<circuit, streak, downtime, due>>

Later(a) == IF a \in 0..(MaxAge - 1) THEN a + 1 ELSE a

Clock ==
  /\ streak' = [p \in Providers |-> [k \in 1..MaxStreak |-> Later(streak[p][k])]]
  /\ downtime' = [p \in Providers |-> Later(downtime[p])]
  /\ UNCHANGED <<circuit, due, policy>>

PromiseNext ==
  \/ \E p \in Providers : Fail(p) \/ Readmit(p) \/ Answer(p) \/ Override(p)
  \/ NewPolicy
  \/ Clock

PromiseSpec == PromiseInit /\ [][PromiseNext]_promiseVars
===============================================================================
