------------------------------- MODULE Alerts -------------------------------
(***************************************************************************)
(* Operational events and their alerts: EventLogger.log_event, which hands *)
(* every event to a task of its own, and AlertDispatcher.dispatch, which   *)
(* suppresses an event for a provider that follows another too closely.    *)
(* The tasks run in the order they were created.  The line in the events   *)
(* file and the outcome of a delivery decide nothing and are left out.     *)
(***************************************************************************)
EXTENDS Integers, Sequences

CONSTANTS
    Subscribed,     \* the event types in alerts.events
    Suppress,       \* suppress_seconds, in ticks
    Uptime,         \* what the monotonic clock shows when the model starts
    MaxTasks        \* bound: dispatch tasks that wait at a time

ASSUME AlertsAssumption == Suppress \in Nat /\ Uptime \in Nat /\ MaxTasks \in Nat

VARIABLES
    clock,          \* ticks since the model started, of the wall and the monotonic clock
    tasks,          \* dispatch tasks not yet run: a sequence of events
    last,           \* _last_dispatch, with 0 for a key it does not hold
    tried           \* history: when this process last tried to deliver, per key

Events == {"quota_alert", "quota_exhausted", "circuit_open", "injection_detected"}
Never == -1
Monotonic == clock + Uptime

Event(type, provider) == [event |-> type, provider |-> provider]
Keys(Sources) == {Event(e, p) : e \in Events, p \in Sources}

AlertsInit(Sources) ==
    /\ clock = 0
    /\ tasks = <<>>
    /\ last = [k \in Keys(Sources) |-> 0]
    /\ tried = [k \in Keys(Sources) |-> Never]

\* log_event for each of a sequence of events, in a handler that does not wait.
LogEvents(events) ==
    /\ Len(tasks) + Len(events) <= MaxTasks
    /\ tasks' = tasks \o events

ShouldDispatch(e) == e.event \in Subscribed
Suppressed(e) == Suppress > 0 /\ Monotonic - last[e] < Suppress

\* Fault: a withheld event starts the window again.
DispatchSliding ==
    /\ tasks # <<>>
    /\ tasks' = Tail(tasks)
    /\ LET e == Head(tasks)
       IN  /\ last' = [last EXCEPT ![e] = Monotonic]
           /\ tried' = IF ShouldDispatch(e) /\ ~Suppressed(e)
                       THEN [tried EXCEPT ![e] = clock] ELSE tried
    /\ UNCHANGED clock

\* dispatch up to its first wait: the window starts here, whatever becomes of
\* the deliveries.
Dispatch ==
    /\ tasks # <<>>
    /\ tasks' = Tail(tasks)
    /\ LET e == Head(tasks)
       IN  IF ShouldDispatch(e) /\ ~Suppressed(e)
           THEN /\ last' = IF Suppress > 0 THEN [last EXCEPT ![e] = Monotonic] ELSE last
                /\ tried' = [tried EXCEPT ![e] = clock]
           ELSE UNCHANGED <<last, tried>>
    /\ UNCHANGED clock

\* What a new process starts from.
ForgetAlerts ==
    /\ tasks' = <<>>
    /\ last' = [k \in DOMAIN last |-> 0]
    /\ tried' = [k \in DOMAIN tried |-> Never]

=============================================================================
