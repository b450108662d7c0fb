----------------------------- MODULE FallbackProofs -----------------------------
(***************************************************************************)
(* What holds of the circuit breaker, for every set of providers, every    *)
(* threshold, window and cooldown and every sequence of its operations;    *)
(* and of the requests that use it, for every number of requests and       *)
(* permits, every chain, error rule and verdict: each way out of the loop  *)
(* of _execute_with_fallback returns the permit once; the list the walk    *)
(* rewrites loses nobody; the walk ends within its budget; a provider that *)
(* failed is not tried again; nobody is admitted over an open circuit; and *)
(* what holds of the breaker by itself holds under interleaved requests.   *)
(*                                                                         *)
(* The budget is not inductive.  What is counts how far a request can get  *)
(* at most (Reach): its list, a redirect for each provider that has not    *)
(* failed, a redirect for each place ahead a failed one may stand in, the  *)
(* solvers it has not yet added, and the cookie retry it has not had.      *)
(***************************************************************************)
EXTENDS Fallback, CircuitBreakerHistory, DataProofs, FiniteSetTheorems, SequenceTheorems

-------------------------------------------------------------------------------
(* The circuit breaker by itself                                               *)

\* The entry record_failure finds for a tracked provider is one.
LEMMA ConfigOfType ==
  ASSUME config \in Configs, NEW p \in Providers, Tracked(p)
  PROVE  /\ ConfigOf(p) \in ProviderConfig
         /\ ConfigOf(p).cooldown_seconds \in Nat
         /\ ConfigOf(p).error_threshold \in Nat
         /\ ConfigOf(p).window_seconds \in Nat
PROOF
<1>1. BreakerConfig(config)
  BY BreakerAssumption
<1>2. (IF p \in DOMAIN config.providers THEN p ELSE Default) \in DOMAIN config.providers
  BY DEF Tracked, HasConfig
<1>3. ConfigOf(p) \in ProviderConfig
  BY <1>1, <1>2 DEF BreakerConfig, ConfigOf
<1>. QED
  BY <1>3 DEF ProviderConfig

\* An age that grows stays an age, and a missing one stays missing.
LEMMA OlderType ==
  ASSUME NEW a \in Age \cup {NoTime}
  PROVE  /\ Older(a) \in Age \cup {NoTime}
         /\ Older(a) = NoTime <=> a = NoTime
PROOF
<1>. QED
  BY BreakerAssumption DEF Older, Age, NoTime

-------------------------------------------------------------------------------
(***************************************************************************)
(* The invariant of one row.  It is inductive: every operation rewrites a  *)
(* whole row of its own, and a sound row to a sound one.                   *)
(***************************************************************************)
SoundRow(x) ==
  /\ x \in Row
  /\ x.state = "closed" <=> x.opened = NoTime
  /\ x.failure_count = 0 <=> x.window = NoTime
  /\ x.state # "closed" => x.failure_count > 0

BreakerInv ==
  /\ config \in Configs
  /\ row \in [Providers -> Row]
  /\ \A p \in Providers : SoundRow(row[p])

LEMMA InvSuffices == BreakerInv => BreakerTypeOK /\ RowsCoherent
PROOF
<1>. QED
  BY DEF BreakerInv, BreakerTypeOK, RowsCoherent, SoundRow

\* A step that rewrites the row of one provider soundly keeps the invariant.
LEMMA OneRow ==
  ASSUME BreakerInv, NEW p \in Providers, NEW x, SoundRow(x),
         config' \in Configs, row' = [row EXCEPT ![p] = x]
  PROVE  BreakerInv'
PROOF
<1>1. x \in Row
  BY DEF SoundRow
<1>2. row' \in [Providers -> Row]
  BY <1>1 DEF BreakerInv
<1>3. ASSUME NEW q \in Providers PROVE SoundRow(row'[q])
  BY DEF BreakerInv
<1>. QED
  BY <1>2, <1>3 DEF BreakerInv, SoundRow

LEMMA InitInv == BreakerInit => BreakerInv
PROOF
<1>1. SoundRow(NoRow)
  BY DEF SoundRow, NoRow, Row, CircuitState, NoTime
<1>. QED
  BY <1>1 DEF BreakerInit, BreakerInv, SoundRow

LEMMA FailureInv ==
  ASSUME BreakerInv, NEW p \in Providers, RecordFailure(p)
  PROVE  BreakerInv'
PROOF
<1>1. CASE UNCHANGED row
  BY <1>1 DEF BreakerInv, SoundRow, RecordFailure
<1>2. CASE FailureHalfOpen(p)
  <2> DEFINE x == [state |-> "open", failure_count |-> 1, window |-> 0, opened |-> 0,
                   cooldown |-> ConfigOf(p).cooldown_seconds]
  <2>1. ConfigOf(p).cooldown_seconds \in Nat
    BY <1>2, ConfigOfType DEF FailureHalfOpen, BreakerInv
  <2>2. SoundRow(x)
    BY <2>1, BreakerAssumption DEF SoundRow, Row, CircuitState, NoTime, Age
  <2>. QED
    BY <1>2, <2>2, OneRow DEF FailureHalfOpen, RecordFailure, BreakerInv
<1>3. CASE FailureClosed(p)
  <2> DEFINE opened == [state |-> "open", failure_count |-> FailuresWith(p),
                        window |-> WindowWith(p), opened |-> 0,
                        cooldown |-> ConfigOf(p).cooldown_seconds]
             counted == [row[p] EXCEPT !.failure_count = FailuresWith(p),
                                       !.window = WindowWith(p)]
  <2>1. ConfigOf(p).cooldown_seconds \in Nat
    BY <1>3, ConfigOfType DEF FailureClosed, BreakerInv
  <2>2. row[p] \in Row /\ SoundRow(row[p])
    BY DEF BreakerInv
  <2>3. FailuresWith(p) \in Nat /\ FailuresWith(p) > 0
    BY <2>2 DEF FailuresWith, Row
  <2>4. WindowWith(p) \in Age
    BY <2>2, BreakerAssumption DEF WindowWith, WindowExpired, Row, Age
  <2>5. SoundRow(opened)
    BY <2>1, <2>3, <2>4, BreakerAssumption DEF SoundRow, Row, CircuitState, NoTime, Age
  <2>6. SoundRow(counted)
    <3>1. row[p].state = "closed" /\ WindowWith(p) # NoTime
      BY <1>3, <2>4, BreakerAssumption DEF FailureClosed, Age, NoTime
    <3>2. counted \in Row
      BY <2>2, <2>3, <2>4 DEF Row
    <3>3. /\ counted.state = "closed" /\ counted.failure_count = FailuresWith(p)
          /\ counted.window = WindowWith(p) /\ counted.opened = row[p].opened
      BY <2>2, <3>1 DEF Row
    <3>4. row[p].opened = NoTime
      BY <2>2, <3>1 DEF SoundRow
    <3>. QED
      BY <2>3, <3>1, <3>2, <3>3, <3>4 DEF SoundRow
  <2>7. row' = [row EXCEPT ![p] = opened] \/ row' = [row EXCEPT ![p] = counted]
    BY <1>3 DEF FailureClosed
  <2>. QED
    BY <2>5, <2>6, <2>7, OneRow DEF RecordFailure, BreakerInv
<1>. QED
  BY <1>1, <1>2, <1>3 DEF RecordFailure, FailureIgnored, FailureOpen

LEMMA SuccessInv ==
  ASSUME BreakerInv, NEW p \in Providers, RecordSuccess(p)
  PROVE  BreakerInv'
PROOF
<1> DEFINE halved == [row[p] EXCEPT !.state = "half_open"]
           closed == [row[p] EXCEPT !.state = "closed", !.failure_count = 0,
                                    !.window = NoTime,
                                    !.opened = IF row[p].state = "half_open"
                                               THEN NoTime ELSE @]
<1>1. row[p] \in Row /\ SoundRow(row[p])
  BY DEF BreakerInv
<1>2. CASE row' = row
  BY <1>2 DEF BreakerInv, SoundRow, RecordSuccess
<1>3. CASE row' = [row EXCEPT ![p].state = "half_open"] /\ row[p].state = "open"
  <2>1. SoundRow(halved)
    BY <1>1, <1>3 DEF SoundRow, Row, CircuitState
  <2>. QED
    BY <1>3, <2>1, OneRow DEF BreakerInv, RecordSuccess
<1>4. CASE /\ row' = [row EXCEPT ![p].state = "closed", ![p].failure_count = 0,
                                 ![p].window = NoTime,
                                 ![p].opened = IF row[p].state = "half_open"
                                               THEN NoTime ELSE @]
           /\ row[p].state # "open"
  <2>1. SoundRow(closed)
    BY <1>1, <1>4 DEF SoundRow, Row, CircuitState, NoTime
  <2>2. row' = [row EXCEPT ![p] = closed]
    BY <1>1, <1>4 DEF Row, BreakerInv
  <2>. QED
    BY <2>1, <2>2, OneRow DEF BreakerInv, RecordSuccess
<1>. QED
  BY <1>2, <1>3, <1>4 DEF RecordSuccess

LEMMA ReadInv ==
  ASSUME BreakerInv, NEW S, GetCircuitStates(S)
  PROVE  BreakerInv'
PROOF
<1>1. ASSUME NEW p \in Providers PROVE SoundRow(RowRead(p)) /\ SoundRow(row[p])
  BY DEF BreakerInv, SoundRow, RowRead, Row, CircuitState
<1>2. ASSUME NEW p \in Providers PROVE SoundRow(row'[p])
  BY <1>1 DEF GetCircuitStates
<1>3. row' \in [Providers -> Row]
  BY <1>1 DEF GetCircuitStates, SoundRow
<1>. QED
  BY <1>2, <1>3 DEF BreakerInv, SoundRow, GetCircuitStates

LEMMA TickInv ==
  ASSUME BreakerInv, Tick
  PROVE  BreakerInv'
PROOF
<1> DEFINE older(p) == [row[p] EXCEPT !.window = Older(@), !.opened = Older(@)]
<1>1. ASSUME NEW p \in Providers PROVE SoundRow(older(p))
  <2>1. row[p] \in Row /\ SoundRow(row[p])
    BY DEF BreakerInv
  <2>2. row[p].window \in Age \cup {NoTime} /\ row[p].opened \in Age \cup {NoTime}
    BY <2>1 DEF Row
  <2>3. /\ Older(row[p].window) \in Age \cup {NoTime}
        /\ Older(row[p].window) = NoTime <=> row[p].window = NoTime
        /\ Older(row[p].opened) \in Age \cup {NoTime}
        /\ Older(row[p].opened) = NoTime <=> row[p].opened = NoTime
    BY <2>2, OlderType
  <2>. QED
    BY <2>1, <2>3 DEF SoundRow, Row
<1>2. ASSUME NEW p \in Providers PROVE SoundRow(row'[p])
  BY <1>1 DEF Tick
<1>3. row' \in [Providers -> Row]
  BY <1>1 DEF Tick, SoundRow
<1>. QED
  BY <1>2, <1>3 DEF BreakerInv, SoundRow, Tick

LEMMA ResetInv ==
  ASSUME BreakerInv, NEW p \in Providers, ResetCircuit(p)
  PROVE  BreakerInv'
PROOF
<1>1. SoundRow(NoRow)
  BY DEF SoundRow, NoRow, Row, CircuitState, NoTime
<1>. QED
  BY <1>1, OneRow DEF ResetCircuit, BreakerInv

\* What is done to the circuits in one step, by whoever it is: a read may take in
\* several of them.
CircuitStep ==
  \/ \E p \in Providers : RecordFailure(p) \/ RecordSuccess(p) \/ ResetCircuit(p)
  \/ \E S \in SUBSET Providers : GetCircuitStates(S)
  \/ Restart
  \/ Tick

LEMMA BreakerStepIsOne == BreakerNext => CircuitStep
PROOF
<1>1. ASSUME NEW p \in Providers, GetCircuitState(p) PROVE CircuitStep
  <2>1. {p} \in SUBSET Providers /\ GetCircuitStates({p})
    BY <1>1 DEF GetCircuitState
  <2>. QED
    BY <2>1 DEF CircuitStep
<1>. QED
  BY <1>1 DEF BreakerNext, CircuitStep

LEMMA StepInv == BreakerInv /\ [CircuitStep]_breakerVars => BreakerInv'
PROOF
<1> SUFFICES ASSUME BreakerInv, [CircuitStep]_breakerVars PROVE BreakerInv'
  OBVIOUS
<1>1. ASSUME NEW p \in Providers, RecordFailure(p) PROVE BreakerInv'
  BY <1>1, FailureInv
<1>2. ASSUME NEW p \in Providers, RecordSuccess(p) PROVE BreakerInv'
  BY <1>2, SuccessInv
<1>3. ASSUME NEW S, GetCircuitStates(S) PROVE BreakerInv'
  BY <1>3, ReadInv
<1>4. ASSUME NEW p \in Providers, ResetCircuit(p) PROVE BreakerInv'
  BY <1>4, ResetInv
<1>5. CASE Restart
  BY <1>5 DEF Restart, BreakerInv, SoundRow
<1>6. CASE Tick
  BY <1>6, TickInv
<1>7. CASE UNCHANGED breakerVars
  BY <1>7 DEF breakerVars, BreakerInv, SoundRow
<1>. QED
  BY <1>1, <1>2, <1>3, <1>4, <1>5, <1>6, <1>7 DEF CircuitStep

-------------------------------------------------------------------------------
\* The rows keep their type whatever the configurations (the state written by
\* record_failure, record_success, get_circuit_state, reset_circuit and time).
THEOREM BreakerTyped == BreakerSpec => []BreakerTypeOK
PROOF
<1>. QED
  BY InitInv, StepInv, BreakerStepIsOne, InvSuffices, PTL DEF BreakerSpec

\* No sequence of calls, reads, resets and restarts leaves a circuit open with
\* no instant to count its cooldown from, or a count without its window.
THEOREM BreakerCoherent == BreakerSpec => []RowsCoherent
PROOF
<1>. QED
  BY InitInv, StepInv, BreakerStepIsOne, InvSuffices, PTL DEF BreakerSpec

\* What an operation may do to an open circuit.
LEMMA OpenStep ==
  ASSUME BreakerInv, [CircuitStep]_breakerVars, NEW p \in Providers,
         row[p].state = "open", row'[p].state # "open", ~ResetCircuit(p)
  PROVE  Cooled(p) /\ row'[p].state = "half_open"
PROOF
<1>0. row \in [Providers -> Row]
  BY DEF BreakerInv
<1>1. ASSUME NEW q \in Providers, RecordFailure(q)
      PROVE  FALSE
  <2>1. CASE q = p
    BY <1>0, <1>1, <2>1 DEF RecordFailure, FailureIgnored, FailureHalfOpen, FailureOpen,
                            FailureClosed
  <2>2. CASE q # p
    BY <1>0, <1>1, <2>2 DEF RecordFailure, FailureIgnored, FailureHalfOpen, FailureOpen,
                            FailureClosed
  <2>. QED
    BY <2>1, <2>2
<1>2. ASSUME NEW q \in Providers, RecordSuccess(q)
      PROVE  Cooled(p) /\ row'[p].state = "half_open"
  BY <1>0, <1>2 DEF RecordSuccess, Row
<1>3. ASSUME NEW S, GetCircuitStates(S)
      PROVE  Cooled(p) /\ row'[p].state = "half_open"
  BY <1>0, <1>3 DEF GetCircuitStates, RowRead, Row
<1>4. ASSUME NEW q \in Providers, ResetCircuit(q)
      PROVE  FALSE
  BY <1>0, <1>4 DEF ResetCircuit
<1>5. CASE Restart \/ UNCHANGED breakerVars
  BY <1>5 DEF Restart, breakerVars
<1>6. CASE Tick
  BY <1>0, <1>6 DEF Tick, Row
<1>. QED
  BY <1>1, <1>2, <1>3, <1>4, <1>5, <1>6 DEF CircuitStep

\* An open circuit is left only half-open and only after its cooldown, or by
\* the admin: no late answer, read or restart cuts the cooldown short.
THEOREM BreakerHoldsOpen == BreakerSpec => OpenIsLeftCooled
PROOF
<1>1. BreakerInv /\ [CircuitStep]_breakerVars =>
        [\A p \in Providers :
           row[p].state = "open" /\ row'[p].state # "open" =>
             (Cooled(p) /\ row'[p].state = "half_open") \/ ResetCircuit(p)]_breakerVars
  BY OpenStep
<1>. QED
  BY <1>1, InitInv, StepInv, BreakerStepIsOne, PTL DEF BreakerSpec, OpenIsLeftCooled

-------------------------------------------------------------------------------
(* The permits                                                                *)

\* A request's record, whatever else it holds: the steps of the loop rewrite some
\* of its fields and keep the others.
Shape(q) == "pc" \in DOMAIN q

Holders == {r \in Requests : req[r].pc \in Suspended}

RecordsShaped ==
  /\ DOMAIN req = Requests
  /\ \A r \in Requests : Shape(req[r])

\* A request stands in the queue once, and only while it waits: so the permit it
\* is granted is one it does not hold.
QueueWaits ==
  /\ queue \in Seq(Requests)
  /\ \A i \in 1..Len(queue) : req[queue[i]].pc = "queued"
  /\ \A i, j \in 1..Len(queue) : queue[i] = queue[j] => i = j

PermitInv ==
  /\ RecordsShaped
  /\ QueueWaits
  /\ permits \in Nat
  /\ permits + Cardinality(Holders) = MaxConcurrent

LEMMA PermitInvSuffices == PermitInv => PermitsConserved
PROOF
<1>. QED
  BY DEF PermitInv, PermitsConserved, Holders

LEMMA HoldersFinite == IsFiniteSet(Holders)
PROOF
<1>1. Holders \subseteq Requests
  BY DEF Holders
<1>. QED
  BY <1>1, FallbackAssumption, FS_Subset

-------------------------------------------------------------------------------
\* Turning to a candidate suspends the request or ends it.
LEMMA TryShape ==
  ASSUME NEW q, Shape(q), NEW s, NEW i
  PROVE  Shape(Try(q, s, i)) /\ Try(q, s, i).pc \in {"calling", "crashed"}
PROOF
<1>. QED
  BY DEF Try, Shape

LEMMA NextOrShape ==
  ASSUME NEW q, Shape(q), NEW s, NEW end
  PROVE  Shape(NextOr(q, s, end)) /\ NextOr(q, s, end).pc \in {"calling", "crashed", end}
PROOF
<1>1. Shape([q EXCEPT !.cands = s, !.pc = end])
      /\ [q EXCEPT !.cands = s, !.pc = end].pc = end
  BY DEF Shape
<1>. QED
  BY <1>1, TryShape DEF NextOr

LEMMA AfterErrorShape ==
  ASSUME NEW q, Shape(q), NEW choice
  PROVE  /\ Shape(AfterError(q, choice))
         /\ AfterError(q, choice).pc \in {"calling", "crashed", "failed"}
PROOF
<1>. QED
  BY TryShape, NextOrShape DEF AfterError

-------------------------------------------------------------------------------
\* A step of a request that holds a permit: it keeps it or returns it.
LEMMA BecomesInv ==
  ASSUME PermitInv, NEW r \in Requests, req[r].pc \in Suspended,
         NEW q, Shape(q), q.pc # "queued", Becomes(r, q), UNCHANGED queue
  PROVE  PermitInv'
PROOF
<1>1. DOMAIN req' = Requests /\ req'[r] = q
      /\ \A x \in Requests \ {r} : req'[x] = req[x]
  BY DEF Becomes, PermitInv, RecordsShaped
<1>2. RecordsShaped'
  BY <1>1 DEF PermitInv, RecordsShaped, Shape
<1>3. QueueWaits'
  <2>1. \A i \in 1..Len(queue) : queue[i] \in Requests /\ queue[i] # r
    BY DEF PermitInv, QueueWaits, Suspended
  <2>. QED
    BY <1>1, <2>1 DEF PermitInv, QueueWaits
<1>4. r \in Holders /\ IsFiniteSet(Holders) /\ Cardinality(Holders) \in Nat
  BY HoldersFinite, FS_CardinalityType DEF Holders
<1>5. CASE q.pc \in Suspended
  <2>1. Holders' = Holders
    BY <1>1, <1>5 DEF Holders
  <2>2. permits' = permits
    BY <1>5 DEF Becomes, PermitInv
  <2>. QED
    BY <1>2, <1>3, <2>1, <2>2 DEF PermitInv
<1>6. CASE q.pc \notin Suspended
  <2>1. Holders' = Holders \ {r}
    BY <1>1, <1>6 DEF Holders
  <2>2. permits' = permits + 1
    BY <1>6 DEF Becomes, PermitInv
  <2>3. Cardinality(Holders \ {r}) = Cardinality(Holders) - 1
    BY <1>4, FS_RemoveElement
  <2>4. permits' \in Nat /\ permits' + Cardinality(Holders') = MaxConcurrent
    BY <1>4, <2>1, <2>2, <2>3 DEF PermitInv
  <2>. QED
    BY <1>2, <1>3, <2>4 DEF PermitInv
<1>. QED
  BY <1>5, <1>6

LEMMA ArriveInv ==
  ASSUME PermitInv, NEW r \in Requests, Arrive(r)
  PROVE  PermitInv'
PROOF
<1>1. PICK route \in Routes :
        req' = [req EXCEPT ![r] = [Idle EXCEPT !.pc = "queued", !.kind = route.kind,
                                               !.cands = Candidates(route)]]
  BY DEF Arrive
<1>2. req[r].pc \notin Suspended /\ req[r].pc # "queued"
  BY DEF Arrive, Ended, Suspended
<1>3. /\ DOMAIN req' = Requests /\ Shape(req'[r]) /\ req'[r].pc = "queued"
      /\ \A x \in Requests \ {r} : req'[x] = req[x]
  BY <1>1 DEF PermitInv, RecordsShaped, Shape, Idle
<1>4. RecordsShaped'
  BY <1>3 DEF PermitInv, RecordsShaped, Shape
<1>5. QueueWaits'
  <2>1. queue \in Seq(Requests) /\ queue' = Append(queue, r)
    BY DEF Arrive, PermitInv, QueueWaits
  <2>2. \A i \in 1..Len(queue) : queue[i] \in Requests /\ queue[i] # r
    BY <1>2, <2>1 DEF PermitInv, QueueWaits
  <2>3. /\ queue' \in Seq(Requests) /\ Len(queue') = Len(queue) + 1
        /\ queue'[Len(queue) + 1] = r
        /\ \A i \in 1..Len(queue) : queue'[i] = queue[i]
    BY <2>1, AppendProperties
  <2>. QED
    BY <1>3, <2>1, <2>2, <2>3 DEF PermitInv, QueueWaits
<1>6. Holders' = Holders
  BY <1>2, <1>3 DEF Holders, Suspended
<1>. QED
  BY <1>4, <1>5, <1>6 DEF PermitInv, Arrive

LEMMA BeginInv ==
  ASSUME PermitInv, NEW r \in Requests, Begin(r)
  PROVE  PermitInv'
PROOF
<1>1. PICK standing \in Standings :
        LET s == FilterAvailable(req[r].cands, standing)
            q == [req[r] EXCEPT !.admitted = s]
            q2 == IF s = << >> THEN [q EXCEPT !.pc = "failed"] ELSE Try(q, s, 1)
        IN /\ req' = [req EXCEPT ![r] = q2]
           /\ permits' = permits - IF q2.pc \in Suspended THEN 1 ELSE 0
  BY DEF Begin
<1> DEFINE s == FilterAvailable(req[r].cands, standing)
           q == [req[r] EXCEPT !.admitted = s]
           q2 == IF s = << >> THEN [q EXCEPT !.pc = "failed"] ELSE Try(q, s, 1)
<1>2. Shape(q2) /\ q2.pc \in {"calling", "crashed", "failed"}
  <2>1. Shape(q)
    BY DEF Shape, PermitInv, RecordsShaped
  <2>2. Shape([q EXCEPT !.pc = "failed"]) /\ [q EXCEPT !.pc = "failed"].pc = "failed"
    BY <2>1 DEF Shape
  <2>. HIDE DEF q, s
  <2>. QED
    BY <2>1, <2>2, TryShape
<1>3. req' = [req EXCEPT ![r] = q2] /\ permits' = permits - IF q2.pc \in Suspended THEN 1 ELSE 0
  BY <1>1
<1> HIDE DEF q2
<1>4. /\ queue \in Seq(Requests) /\ queue # << >> /\ Head(queue) = r /\ permits > 0
      /\ queue' = Tail(queue)
  BY DEF Begin, PermitInv, QueueWaits
<1>5. /\ queue' \in Seq(Requests) /\ Len(queue') = Len(queue) - 1 /\ queue[1] = r
      /\ \A i \in 1..Len(queue') : queue'[i] = queue[i + 1]
  BY <1>4, HeadTailProperties
<1>6. req[r].pc = "queued" /\ \A i \in 1..Len(queue') : queue'[i] # r
  <2>1. Len(queue) \in Nat /\ Len(queue) > 0
    BY <1>4
  <2>. QED
    BY <1>5, <2>1 DEF PermitInv, QueueWaits
<1>7. /\ DOMAIN req' = Requests /\ req'[r] = q2
      /\ \A x \in Requests \ {r} : req'[x] = req[x]
  BY <1>3 DEF PermitInv, RecordsShaped
<1>8. RecordsShaped'
  BY <1>2, <1>7 DEF PermitInv, RecordsShaped, Shape
<1>9. QueueWaits'
  <2>1. Len(queue) \in Nat /\ \A i \in 1..Len(queue') : queue'[i] \in Requests
    BY <1>4, <1>5
  <2>2. \A i \in 1..Len(queue') : req'[queue'[i]].pc = "queued"
    BY <1>5, <1>6, <1>7, <2>1 DEF PermitInv, QueueWaits
  <2>3. \A i, j \in 1..Len(queue) : queue[i] = queue[j] => i = j
    BY DEF PermitInv, QueueWaits
  <2>4. ASSUME NEW i \in 1..Len(queue'), NEW j \in 1..Len(queue'), queue'[i] = queue'[j]
        PROVE  i = j
    <3>1. i + 1 \in 1..Len(queue) /\ j + 1 \in 1..Len(queue)
      BY <1>5, <2>1
    <3>2. queue[i + 1] = queue[j + 1]
      BY <1>5, <2>4
    <3>3. i + 1 = j + 1
      BY <2>3, <3>1, <3>2
    <3>. QED
      BY <3>3
  <2>. QED
    BY <1>5, <2>2, <2>4 DEF QueueWaits
<1>10. r \notin Holders /\ IsFiniteSet(Holders) /\ Cardinality(Holders) \in Nat
  BY <1>6, HoldersFinite, FS_CardinalityType DEF Holders, Suspended
<1>11. CASE q2.pc \in Suspended
  <2>1. Holders' = Holders \cup {r}
    BY <1>7, <1>11 DEF Holders
  <2>2. Cardinality(Holders') = Cardinality(Holders) + 1
    BY <1>10, <2>1, FS_AddElement
  <2>. QED
    BY <1>3, <1>4, <1>8, <1>9, <1>10, <1>11, <2>2 DEF PermitInv
<1>12. CASE q2.pc \notin Suspended
  <2>1. Holders' = Holders
    BY <1>6, <1>7, <1>12 DEF Holders, Suspended
  <2>. QED
    BY <1>3, <1>8, <1>9, <1>12, <2>1 DEF PermitInv
<1>. QED
  BY <1>11, <1>12

\* Each outcome of a provider's operation is one record the request becomes.
LEMMA AnsweredInv ==
  ASSUME PermitInv, NEW r \in Requests, Answered(r)
  PROVE  PermitInv'
PROOF
<1>1. Shape(req[r])
  BY DEF PermitInv, RecordsShaped
<1>2. ASSUME NEW q, Shape(q), q.pc # "queued", Becomes(r, q), UNCHANGED queue, Calling(r)
      PROVE  PermitInv'
  BY <1>2, BecomesInv DEF Calling, Suspended
<1>3. CASE Accepted(r)
  <2>1. Shape([req[r] EXCEPT !.pc = "served"]) /\ [req[r] EXCEPT !.pc = "served"].pc = "served"
    BY <1>1 DEF Shape
  <2>. QED
    BY <1>2, <1>3, <2>1 DEF Accepted
<1>4. CASE Solved(r)
  <2> DEFINE cands == IF req[r].browser = NoOne THEN req[r].cands
                      ELSE InsertCandidate(req[r].cands, req[r].browser, req[r].idx)
  <2>1. /\ Shape([req[r] EXCEPT !.pc = "crashed"])
        /\ [req[r] EXCEPT !.pc = "crashed"].pc = "crashed"
    BY <1>1 DEF Shape
  <2>2. ASSUME NEW c
        PROVE  /\ Shape([req[r] EXCEPT !.pc = "served", !.cookies = TRUE, !.cands = c])
               /\ [req[r] EXCEPT !.pc = "served", !.cookies = TRUE, !.cands = c].pc = "served"
    BY <1>1 DEF Shape
  <2>3. \/ Becomes(r, [req[r] EXCEPT !.pc = "crashed"])
        \/ Becomes(r, [req[r] EXCEPT !.pc = "served", !.cookies = TRUE, !.cands = cands])
    BY <1>4 DEF Solved
  <2>. HIDE DEF cands
  <2>. QED
    BY <1>2, <1>4, <2>1, <2>2, <2>3 DEF Solved
<1>5. ASSUME NEW q, Shape(q), NEW s, Rejected(r, NextOr(q, s, "poor"))
      PROVE  PermitInv'
  BY <1>2, <1>5, NextOrShape DEF Rejected
<1>6. CASE LowQuality(r)
  BY <1>1, <1>5, <1>6 DEF LowQuality
<1>7. CASE BlockedWithCookies(r)
  <2> DEFINE browser == IF req[r].browser = NoOne THEN Current(req[r]) ELSE req[r].browser
  <2>1. Shape([req[r] EXCEPT !.browser = browser, !.cookies = TRUE])
    BY <1>1 DEF Shape
  <2>. QED
    BY <1>5, <1>7, <2>1 DEF BlockedWithCookies
<1>8. CASE Blocked(r)
  <2> DEFINE noted == IF req[r].browser = NoOne /\ Current(req[r]) # FlareSolverr
                      THEN [req[r] EXCEPT !.browser = Current(req[r])] ELSE req[r]
  <2>1. Shape(noted)
    BY <1>1 DEF Shape
  <2>. QED
    BY <1>5, <1>8, <2>1 DEF Blocked
<1>9. ASSUME NEW e \in ErrorClasses, Errored(r, e) PROVE PermitInv'
  <2> DEFINE q == [req[r] EXCEPT !.failed = @ \cup {Current(req[r])}]
             q2 == IF ErrorRule[e] \subseteq q.failed /\ e \in JudgedErrors
                   THEN [q EXCEPT !.pc = "judging"] ELSE AfterError(q, ErrorRule[e])
  <2>1. Shape(q)
    BY <1>1 DEF Shape
  <2>2. Becomes(r, q2) /\ UNCHANGED queue /\ Calling(r)
    BY <1>9 DEF Errored
  <2>. HIDE DEF q
  <2>3. Shape([q EXCEPT !.pc = "judging"]) /\ [q EXCEPT !.pc = "judging"].pc = "judging"
    BY <2>1 DEF Shape
  <2>4. Shape(q2) /\ q2.pc # "queued"
    BY <2>1, <2>3, AfterErrorShape
  <2>. HIDE DEF q2
  <2>. QED
    BY <1>2, <2>2, <2>4
<1>. QED
  BY <1>3, <1>4, <1>6, <1>7, <1>8, <1>9 DEF Answered

LEMMA JudgedInv ==
  ASSUME PermitInv, NEW r \in Requests, Judged(r)
  PROVE  PermitInv'
PROOF
<1>1. Shape(req[r]) /\ req[r].pc \in Suspended
  BY DEF PermitInv, RecordsShaped, Judged, Suspended
<1>2. PICK verdict \in {{}} \cup {{p} : p \in Registered} :
        Becomes(r, AfterError(req[r], verdict))
  BY DEF Judged
<1>3. Shape(AfterError(req[r], verdict)) /\ AfterError(req[r], verdict).pc # "queued"
  BY <1>1, AfterErrorShape
<1>. QED
  BY <1>1, <1>2, <1>3, BecomesInv DEF Judged

LEMMA RestartInv ==
  ASSUME GatewayRestart
  PROVE  PermitInv'
PROOF
<1>1. RecordsShaped'
  BY DEF GatewayRestart, RecordsShaped, Shape, Idle
<1>2. QueueWaits'
  <2>1. queue' = << >>
    BY DEF GatewayRestart
  <2>. QED
    BY <2>1 DEF QueueWaits
<1>3. Holders' = {}
  BY DEF GatewayRestart, Holders, Idle, Suspended
<1>4. Cardinality(Holders') = 0
  BY <1>3, FS_EmptySet
<1>. QED
  BY <1>1, <1>2, <1>4, FallbackAssumption DEF PermitInv, GatewayRestart

LEMMA InitPermits == Init => PermitInv
PROOF
<1> SUFFICES ASSUME Init PROVE PermitInv
  OBVIOUS
<1>1. RecordsShaped
  BY DEF Init, RecordsShaped, Shape, Idle
<1>2. QueueWaits
  BY DEF Init, QueueWaits
<1>3. Holders = {}
  BY DEF Init, Holders, Idle, Suspended
<1>4. Cardinality(Holders) = 0
  BY <1>3, FS_EmptySet
<1>. QED
  BY <1>1, <1>2, <1>4, FallbackAssumption DEF PermitInv, Init

LEMMA StepPermits == PermitInv /\ [Next]_vars => PermitInv'
PROOF
<1> SUFFICES ASSUME PermitInv, [Next]_vars PROVE PermitInv'
  OBVIOUS
<1>1. ASSUME UNCHANGED <<req, queue, permits>> PROVE PermitInv'
  BY <1>1 DEF PermitInv, RecordsShaped, Shape, QueueWaits, Holders
<1>2. CASE UNCHANGED vars
  BY <1>1, <1>2 DEF vars, requestVars
<1>3. CASE \E r \in Requests : Arrive(r) \/ Step(r)
  BY <1>3, ArriveInv, BeginInv, AnsweredInv, JudgedInv DEF Step
<1>4. CASE Environment
  BY <1>1, <1>4 DEF Environment, requestVars
<1>5. CASE GatewayRestart
  BY <1>5, RestartInv
<1>. QED
  BY <1>2, <1>3, <1>4, <1>5 DEF Next

\* The semaphore of GatewayService loses no permit and gives none twice, for any
\* number of requests and permits and whatever ends the loop: a result, the last
\* ProviderError, an empty candidate list, a KeyError or OSError nobody handles.
THEOREM PermitsSafe == Spec => []PermitsConserved
PROOF
<1>1. Init => PermitInv
  BY InitPermits
<1>2. PermitInv /\ [Next]_vars => PermitInv'
  BY StepPermits
<1>3. PermitInv => PermitsConserved
  BY PermitInvSuffices
<1>. QED
  BY <1>1, <1>2, <1>3, PTL DEF Spec

-------------------------------------------------------------------------------
(* Candidate lists                                                            *)

LEMMA AppendedSet ==
  ASSUME NEW A, NEW s \in Seq(A), NEW e \in A
  PROVE  Len(Append(s, e)) = Len(s) + 1 /\ ToSet(Append(s, e)) = ToSet(s) \cup {e}
PROOF
<1> DEFINE t == Append(s, e)
<1>1. /\ Len(t) = Len(s) + 1 /\ Len(s) \in Nat
      /\ DOMAIN t = 1..(Len(s) + 1) /\ DOMAIN s = 1..Len(s)
      /\ t[Len(s) + 1] = e /\ \A j \in 1..Len(s) : t[j] = s[j]
  OBVIOUS
<1>2. 1..(Len(s) + 1) = (1..Len(s)) \cup {Len(s) + 1}
  BY <1>1
<1> HIDE DEF t
<1>3. {t[j] : j \in (1..Len(s)) \cup {Len(s) + 1}} = {s[j] : j \in 1..Len(s)} \cup {e}
  BY <1>1
<1>. QED
  BY <1>1, <1>2, <1>3 DEF ToSet, t

\* What `Those` has kept of the first i candidates.
KeptUpTo(f, A, s, S) ==
  /\ f \in [0..Len(s) -> Seq(A)] /\ f[0] = << >>
  /\ \A i \in 1..Len(s) : f[i] = IF s[i] \in S THEN Append(f[i - 1], s[i]) ELSE f[i - 1]

LEMMA ThoseUnrolled ==
  ASSUME NEW A, NEW s \in Seq(A), NEW S
  PROVE  \E f : KeptUpTo(f, A, s, S) /\ Those(s, S) = f[Len(s)]
PROOF
<1> DEFINE n == Len(s)
           kept(x) == IF s[x[1]] \in S THEN Append(x[2], s[x[1]]) ELSE x[2]
           h == [x \in (1..n) \X Seq(A) |-> kept(x)]
<1>1. n \in Nat /\ << >> \in Seq(A) /\ \A i \in 1..n : s[i] \in A
  OBVIOUS
<1>2. /\ h \in [(1..n) \X Seq(A) -> Seq(A)]
      /\ \A i \in 1..n, t \in Seq(A) : h[i, t] = IF s[i] \in S THEN Append(t, s[i]) ELSE t
  <2>1. ASSUME NEW x \in (1..n) \X Seq(A) PROVE kept(x) \in Seq(A)
    <3>1. s[x[1]] \in A /\ x[2] \in Seq(A)
      BY <1>1
    <3>2. Append(x[2], s[x[1]]) \in Seq(A)
      BY ONLY <3>1
    <3>. QED
      BY <3>1, <3>2
  <2>. QED
    BY <2>1
<1> HIDE DEF h
<1>3. PICK g : IsFold(g, n, Seq(A), << >>, h)
  BY <1>1, <1>2, FoldExists
<1> DEFINE f == [i \in 0..n |-> g[1..i]]
<1>4. \A i \in 0..n : 1..i \in SUBSET (1..n)
  BY <1>1
<1>5. f \in [0..n -> Seq(A)]
  BY <1>3, <1>4 DEF IsFold
<1>6. f[0] = << >>
  <2>1. 1..0 = {} /\ 0 \in 0..n
    BY <1>1
  <2>2. g[1..0] = << >>
    BY <1>3, <1>4, <2>1 DEF IsFold
  <2>. QED
    BY <2>1, <2>2
<1>7. ASSUME NEW i \in 1..n
      PROVE  f[i] = IF s[i] \in S THEN Append(f[i - 1], s[i]) ELSE f[i - 1]
  <2>1. i \in Nat \ {0} /\ i \in 0..n /\ i - 1 \in 0..n
    BY <1>1
  <2>2. 1..i # {} /\ Max(1..i) = i /\ (1..i) \ {Max(1..i)} = 1..(i - 1)
    BY <2>1, Unrolled
  <2>3. g[1..i] = h[i, g[1..(i - 1)]]
    BY <1>3, <1>4, <2>1, <2>2 DEF IsFold
  <2>4. g[1..(i - 1)] \in Seq(A)
    BY <1>5, <2>1
  <2>. QED
    BY <1>2, <2>1, <2>3, <2>4
<1> HIDE DEF f
<1> DEFINE step(t, i) == IF i = 0 THEN << >>
                         ELSE IF s[i] \in S THEN Append(t[i - 1], s[i]) ELSE t[i - 1]
           those == CHOOSE t : t = [i \in 0..n |-> step(t, i)]
<1>8. f = [i \in 0..n |-> step(f, i)]
  <2>1. ASSUME NEW i \in 0..n PROVE f[i] = step(f, i)
    <3>1. CASE i = 0
      BY <1>6, <3>1
    <3>2. CASE i # 0
      <4>1. i \in 1..n
        BY <1>1, <3>2
      <4>. QED
        BY <1>7, <3>2, <4>1
    <3>. QED
      BY <3>1, <3>2
  <2> HIDE DEF step
  <2>. QED
    BY <1>5, <2>1
<1>9. those = [i \in 0..n |-> step(those, i)]
  <2> HIDE DEF step
  <2>. QED
    BY <1>8
<1>10. \A i \in 0..n : those[i] = f[i]
  <2> DEFINE T == {i \in 0..n : those[i] = f[i]}
  <2>1. 0 \in T
    <3>1. 0 \in 0..n
      BY <1>1
    <3>2. those[0] = step(those, 0)
      <4> HIDE DEF step, those
      <4>. QED
        BY <1>9, <3>1
    <3>. QED
      BY <1>6, <3>1, <3>2
  <2>2. ASSUME NEW i \in 0..n, i \in T, i < n PROVE i + 1 \in T
    <3>1. i + 1 \in 0..n /\ i + 1 \in 1..n /\ (i + 1) - 1 = i /\ i + 1 # 0
      BY <1>1, <2>2
    <3>2. those[i + 1] = step(those, i + 1)
      <4> HIDE DEF step, those
      <4>. QED
        BY <1>9, <3>1
    <3> HIDE DEF those
    <3>3. those[i] = f[i]
      BY <2>2
    <3>4. those[i + 1] = IF s[i + 1] \in S THEN Append(f[i], s[i + 1]) ELSE f[i]
      BY <3>1, <3>2, <3>3
    <3>5. f[i + 1] = IF s[i + 1] \in S THEN Append(f[i], s[i + 1]) ELSE f[i]
      BY <1>7, <3>1
    <3>. QED
      BY <3>1, <3>4, <3>5
  <2> HIDE DEF T
  <2>3. 0..n \subseteq T
    BY <1>1, <2>1, <2>2, IntervalInduction
  <2>. QED
    BY <2>3 DEF T
<1>11. Those(s, S) = those[n]
  BY DEF Those
<1> HIDE DEF those
<1>12. Those(s, S) = f[n]
  BY <1>1, <1>10, <1>11
<1>. QED
  BY <1>5, <1>6, <1>7, <1>12 DEF KeptUpTo

\* `Those` keeps what is in S, and is shorter than what it leaves something out of.
LEMMA ThoseKept ==
  ASSUME NEW A, NEW s \in Seq(A), NEW S
  PROVE  /\ Those(s, S) \in Seq(A)
         /\ ToSet(Those(s, S)) = ToSet(s) \cap S
         /\ Len(Those(s, S)) <= Len(s)
         /\ (\E i \in 1..Len(s) : s[i] \notin S) => Len(Those(s, S)) < Len(s)
PROOF
<1>0. PICK f : KeptUpTo(f, A, s, S) /\ Those(s, S) = f[Len(s)]
  BY ThoseUnrolled
<1>1. /\ f \in [0..Len(s) -> Seq(A)] /\ f[0] = << >>
      /\ \A i \in 1..Len(s) : f[i] = IF s[i] \in S THEN Append(f[i - 1], s[i]) ELSE f[i - 1]
      /\ Those(s, S) = f[Len(s)]
  BY <1>0 DEF KeptUpTo
<1> DEFINE First(i) == {s[j] : j \in 1..i}
           Kept(i) == /\ ToSet(f[i]) = First(i) \cap S
                      /\ Len(f[i]) <= i
                      /\ (\E j \in 1..i : s[j] \notin S) => Len(f[i]) < i
           T == {i \in 0..Len(s) : Kept(i)}
<1>2. DOMAIN s = 1..Len(s) /\ Len(s) \in Nat /\ \A i \in 1..Len(s) : s[i] \in A
  OBVIOUS
<1>3. 0 \in T
  <2>1. First(0) = {} /\ ToSet(<< >>) = {} /\ Len(<< >>) = 0
    BY DEF ToSet
  <2>. QED
    BY <1>1, <1>2, <2>1
<1>4. ASSUME NEW i \in 0..Len(s), i \in T, i < Len(s) PROVE i + 1 \in T
  <2>1. i + 1 \in 1..Len(s) /\ (i + 1) - 1 = i /\ f[i] \in Seq(A) /\ s[i + 1] \in A
    BY <1>1, <1>2, <1>4
  <2>2. Kept(i)
    BY <1>4
  <2>3. First(i + 1) = First(i) \cup {s[i + 1]}
    BY <2>1
  <2>4. \A j \in 1..(i + 1) : j \in 1..i \/ j = i + 1
    BY <2>1
  <2> HIDE DEF First
  <2>5. CASE s[i + 1] \in S
    <3>1. f[i + 1] = Append(f[i], s[i + 1])
      BY <1>1, <2>1, <2>5
    <3>2. Len(f[i + 1]) = Len(f[i]) + 1 /\ ToSet(f[i + 1]) = ToSet(f[i]) \cup {s[i + 1]}
      BY <2>1, <3>1, AppendedSet
    <3>3. Len(f[i]) \in Nat
      BY <2>1
    <3>. QED
      BY <2>1, <2>2, <2>3, <2>4, <2>5, <3>2, <3>3
  <2>6. CASE s[i + 1] \notin S
    <3>1. f[i + 1] = f[i] /\ Len(f[i]) \in Nat
      BY <1>1, <2>1, <2>6
    <3>. QED
      BY <2>1, <2>2, <2>3, <2>6, <3>1
  <2>. QED
    BY <2>5, <2>6
<1> HIDE DEF T
<1>5. Len(s) \in T
  <2>1. 0..Len(s) \subseteq T
    BY <1>2, <1>3, <1>4, IntervalInduction
  <2>. QED
    BY <1>2, <2>1
<1>6. Kept(Len(s)) /\ First(Len(s)) = ToSet(s)
  BY <1>2, <1>5 DEF T, ToSet
<1>. QED
  BY <1>1, <1>2, <1>6

-------------------------------------------------------------------------------
\* The candidates from the i-th on.
Ahead(s, i) == {s[j] : j \in i..Len(s)}

LEMMA AheadCounted ==
  ASSUME NEW A, NEW s \in Seq(A), NEW i \in 1..(Len(s) + 1)
  PROVE  /\ IsFiniteSet(Ahead(s, i)) /\ Ahead(s, i) \subseteq ToSet(s)
         /\ Cardinality(Ahead(s, i)) <= Len(s) - i + 1
         /\ i <= Len(s) => Ahead(s, i) = {s[i]} \cup Ahead(s, i + 1)
PROOF
<1> DEFINE h == [j \in i..Len(s) |-> s[j]]
<1>1. Len(s) \in Nat /\ i \in Nat \ {0} /\ DOMAIN s = 1..Len(s)
  OBVIOUS
<1>2. h \in Surjection(i..Len(s), Ahead(s, i))
  BY DEF Surjection, Ahead
<1> HIDE DEF h
<1>3. IsFiniteSet(i..Len(s)) /\ Cardinality(i..Len(s)) = IF i > Len(s) THEN 0 ELSE Len(s) - i + 1
  <2>1. i \in Int /\ Len(s) \in Int
    BY <1>1
  <2>. QED
    BY <2>1, FS_Interval
<1>4. IsFiniteSet(Ahead(s, i)) /\ Cardinality(Ahead(s, i)) <= Cardinality(i..Len(s))
  BY <1>2, <1>3, FS_Surjection
<1>5. Cardinality(Ahead(s, i)) <= Len(s) - i + 1
  BY <1>1, <1>3, <1>4
<1>6. Ahead(s, i) \subseteq ToSet(s)
  BY <1>1 DEF Ahead, ToSet
<1>7. ASSUME i <= Len(s) PROVE Ahead(s, i) = {s[i]} \cup Ahead(s, i + 1)
  <2>1. i..Len(s) = {i} \cup ((i + 1)..Len(s))
    BY <1>1, <1>7
  <2>. QED
    BY <2>1 DEF Ahead
<1>. QED
  BY <1>4, <1>5, <1>6, <1>7

\* A name inserted as the next candidate is there once, nobody is lost, and the
\* list is longer only if the name was not ahead already.
LEMMA Inserted ==
  ASSUME NEW s \in ProviderList, NEW name \in Providers, NEW i \in 1..Len(s)
  PROVE  LET t == InsertCandidate(s, name, i)
         IN  /\ t \in ProviderList /\ i < Len(t)
             /\ t[i + 1] = name /\ t[i] = s[i]
             /\ ToSet(t) = ToSet(s) \cup {name}
             /\ Ahead(t, i + 1) = Ahead(s, i + 1) \cup {name}
             /\ Len(t) <= Len(s) + 1
             /\ name \in Ahead(s, i + 1) => Len(t) <= Len(s)
PROOF
<1> DEFINE front == SubSeq(s, 1, i)
           back == SubSeq(s, i + 1, Len(s))
           rest == Those(back, Providers \ {name})
           t == front \o <<name>> \o rest
<1>1. /\ Len(s) \in Nat /\ i \in Nat \ {0} /\ i <= Len(s) /\ DOMAIN s = 1..Len(s)
      /\ s \in Seq(Providers) /\ \A j \in 1..Len(s) : s[j] \in Providers
  BY DEF ProviderList
<1>0. Len(s) \in Int /\ i \in Int /\ i <= Len(s)
  BY <1>1
<1>2. front \in Seq(Providers) /\ Len(front) = i /\ \A j \in 1..i : front[j] = s[j]
  <2>1. \A j \in 1..i : s[j] \in Providers
    BY <1>1
  <2>. QED
    BY <1>1, <2>1, SubSeqProperties
<1>3. /\ back \in Seq(Providers) /\ Len(back) = Len(s) - i
      /\ \A j \in 1..(Len(s) - i) : back[j] = s[i + j]
  <2>1. \A j \in (i + 1)..Len(s) : s[j] \in Providers
    BY <1>1
  <2>2. back \in Seq(Providers)
    BY <1>1, <2>1, SubSeqProperties
  <2>3. Len(back) = IF i + 1 <= Len(s) THEN Len(s) - (i + 1) + 1 ELSE 0
    BY <1>1, <2>1, SubSeqProperties
  <2>4. \A j \in 1..(Len(s) - (i + 1) + 1) : back[j] = s[(i + 1) + j - 1]
    BY <1>1, <2>1, SubSeqProperties
  <2>5. \A j \in 1..(Len(s) - i) : (i + 1) + j - 1 = i + j
    BY <1>1
  <2>6. Len(s) - (i + 1) + 1 = Len(s) - i /\ (i + 1 <= Len(s) \/ Len(s) - i = 0)
    <3>1. \A n, k \in Int : n - (k + 1) + 1 = n - k /\ (k <= n => k + 1 <= n \/ n - k = 0)
      OBVIOUS
    <3>. QED
      BY ONLY <1>0, <3>1
  <2>7. \A j \in 1..(Len(s) - i) : back[j] = s[i + j]
    BY <2>4, <2>5, <2>6
  <2>8. Len(back) = Len(s) - i
    BY <2>3, <2>6
  <2> HIDE DEF back
  <2>. QED
    BY <2>2, <2>7, <2>8
<1> HIDE DEF front, back
<1>4. ToSet(back) = Ahead(s, i + 1)
  <2>1. ASSUME NEW x \in ToSet(back) PROVE x \in Ahead(s, i + 1)
    <3>1. PICK j \in 1..(Len(s) - i) : x = back[j]
      BY <1>3 DEF ToSet
    <3>2. i + j \in (i + 1)..Len(s) /\ x = s[i + j]
      BY <1>1, <1>3, <3>1
    <3>. QED
      BY <3>2 DEF Ahead
  <2>2. ASSUME NEW x \in Ahead(s, i + 1) PROVE x \in ToSet(back)
    <3>1. PICK k \in (i + 1)..Len(s) : x = s[k]
      BY DEF Ahead
    <3>2. k - i \in 1..(Len(s) - i) /\ i + (k - i) = k
      BY <1>1
    <3>3. back[k - i] = x
      BY <1>3, <3>1, <3>2
    <3>. QED
      BY <1>3, <3>2, <3>3 DEF ToSet
  <2>. QED
    BY <2>1, <2>2
<1>5. /\ rest \in Seq(Providers) /\ Len(rest) \in Nat
      /\ ToSet(rest) = Ahead(s, i + 1) \ {name}
      /\ Len(rest) <= Len(s) - i
      /\ name \in Ahead(s, i + 1) => Len(rest) < Len(s) - i
  <2>1. /\ rest \in Seq(Providers)
        /\ ToSet(rest) = ToSet(back) \cap (Providers \ {name})
        /\ Len(rest) <= Len(back)
        /\ (\E j \in 1..Len(back) : back[j] \notin Providers \ {name}) => Len(rest) < Len(back)
    BY <1>3, ThoseKept
  <2>2. ToSet(back) \subseteq Providers
    BY <1>3 DEF ToSet
  <2>3. name \in ToSet(back) => \E j \in 1..Len(back) : back[j] \notin Providers \ {name}
    BY <1>3 DEF ToSet
  <2>4. ToSet(rest) = Ahead(s, i + 1) \ {name}
    BY <1>4, <2>1, <2>2
  <2> HIDE DEF rest
  <2>. QED
    BY <1>3, <1>4, <2>1, <2>3, <2>4
<1> HIDE DEF rest
<1>6. /\ t \in Seq(Providers) /\ Len(t) = i + 1 + Len(rest)
      /\ \A j \in 1..i : t[j] = s[j]
      /\ t[i + 1] = name
      /\ \A j \in 1..Len(rest) : t[i + 1 + j] = rest[j]
  <2> DEFINE u == front \o <<name>>
  <2>1. /\ u \in Seq(Providers) /\ Len(u) = i + 1
        /\ \A j \in 1..i : u[j] = s[j]
        /\ u[i + 1] = name
    BY <1>1, <1>2
  <2> HIDE DEF u
  <2>2. /\ u \o rest \in Seq(Providers) /\ Len(u \o rest) = i + 1 + Len(rest)
        /\ \A j \in 1..(i + 1) : (u \o rest)[j] = u[j]
        /\ \A j \in 1..Len(rest) : (u \o rest)[i + 1 + j] = rest[j]
    <3>1. /\ u \o rest \in Seq(Providers) /\ Len(u \o rest) = Len(u) + Len(rest)
          /\ \A j \in 1..(Len(u) + Len(rest)) :
               (u \o rest)[j] = IF j <= Len(u) THEN u[j] ELSE rest[j - Len(u)]
      <4>1. u \in Seq(Providers) /\ rest \in Seq(Providers)
        BY <1>5, <2>1
      <4>. QED
        BY ONLY <4>1, ConcatProperties
    <3>2. ASSUME NEW j \in 1..(i + 1) PROVE (u \o rest)[j] = u[j]
      <4>1. j \in 1..(Len(u) + Len(rest)) /\ j <= Len(u)
        BY <1>1, <1>5, <2>1
      <4>. QED
        BY <3>1, <4>1
    <3>3. ASSUME NEW j \in 1..Len(rest) PROVE (u \o rest)[i + 1 + j] = rest[j]
      <4>1. /\ i + 1 + j \in 1..(Len(u) + Len(rest)) /\ ~(i + 1 + j <= Len(u))
            /\ (i + 1 + j) - Len(u) = j
        BY <1>1, <1>5, <2>1
      <4>. QED
        BY <3>1, <4>1
    <3>. QED
      BY <2>1, <3>1, <3>2, <3>3
  <2>3. t = u \o rest
    BY DEF u
  <2> HIDE DEF t
  <2>. QED
    BY <1>1, <2>1, <2>2, <2>3
<1>7. t = InsertCandidate(s, name, i)
  BY DEF InsertCandidate, Without, front, back, rest
<1> HIDE DEF t
<1>8. Ahead(t, i + 1) = Ahead(s, i + 1) \cup {name}
  <2>1. (i + 1)..Len(t) = {i + 1} \cup {i + 1 + j : j \in 1..Len(rest)}
    <3>1. ASSUME NEW k \in (i + 2)..Len(t)
          PROVE  k - (i + 1) \in 1..Len(rest) /\ i + 1 + (k - (i + 1)) = k
      BY <1>1, <1>5, <1>6
    <3>2. \A k \in (i + 1)..Len(t) : k = i + 1 \/ k \in (i + 2)..Len(t)
      BY <1>1, <1>5, <1>6
    <3>3. \A j \in 1..Len(rest) : i + 1 + j \in (i + 1)..Len(t)
      BY <1>1, <1>5, <1>6
    <3>4. i + 1 \in (i + 1)..Len(t)
      BY <1>1, <1>5, <1>6
    <3>. QED
      BY <3>1, <3>2, <3>3, <3>4
  <2>2. Ahead(t, i + 1) = {name} \cup {rest[j] : j \in 1..Len(rest)}
    <3>1. Ahead(t, i + 1) = {t[k] : k \in {i + 1} \cup {i + 1 + j : j \in 1..Len(rest)}}
      BY <2>1 DEF Ahead
    <3>2. ASSUME NEW x \in Ahead(t, i + 1) PROVE x \in {name} \cup {rest[j] : j \in 1..Len(rest)}
      BY <1>6, <3>1
    <3>3. ASSUME NEW j \in 1..Len(rest) PROVE rest[j] \in Ahead(t, i + 1)
      BY <1>6, <3>1
    <3>4. name \in Ahead(t, i + 1)
      BY <1>6, <3>1
    <3>. QED
      BY <3>2, <3>3, <3>4
  <2>3. ToSet(rest) = {rest[j] : j \in 1..Len(rest)}
    BY <1>5 DEF ToSet
  <2>. QED
    BY <1>5, <2>2, <2>3
<1>9. ToSet(t) = ToSet(s) \cup {name}
  <2>1. ToSet(t) = {t[j] : j \in 1..i} \cup Ahead(t, i + 1)
    <3>1. DOMAIN t = (1..i) \cup ((i + 1)..Len(t))
      BY <1>1, <1>5, <1>6
    <3>. QED
      BY <3>1 DEF ToSet, Ahead
  <2>2. ToSet(s) = {s[j] : j \in 1..i} \cup Ahead(s, i + 1)
    <3>1. DOMAIN s = (1..i) \cup ((i + 1)..Len(s))
      BY <1>1
    <3>. QED
      BY <3>1 DEF ToSet, Ahead
  <2>3. {t[j] : j \in 1..i} = {s[j] : j \in 1..i}
    BY <1>6
  <2>. QED
    BY <1>8, <2>1, <2>2, <2>3
<1>10. /\ i < Len(t) /\ t[i] = s[i] /\ Len(t) <= Len(s) + 1
       /\ name \in Ahead(s, i + 1) => Len(t) <= Len(s)
  BY <1>1, <1>5, <1>6
<1>. QED
  BY <1>6, <1>7, <1>8, <1>9, <1>10 DEF ProviderList

\* The solvers that are added have an adapter and are new.
LEMMA SolversAdded ==
  ASSUME NEW s \in ProviderList
  PROVE  LET new == {FlareSolverr, InvisiblePlaywright} \cap (Registered \ ToSet(s))
             t == WithSolvers(s)
         IN  /\ t \in ProviderList
             /\ \A j \in 1..Len(s) : t[j] = s[j]
             /\ \A j \in 1..Len(t) : j > Len(s) => t[j] \in new
             /\ ToSet(t) = ToSet(s) \cup new
             /\ \A i \in 1..(Len(s) + 1) : Ahead(t, i) = Ahead(s, i) \cup new
             /\ Len(t) = Len(s) + Cardinality(new)
PROOF
<1> DEFINE S == Registered \ ToSet(s)
           two == <<FlareSolverr, InvisiblePlaywright>>
           new == {FlareSolverr, InvisiblePlaywright} \cap S
           rest == Those(two, S)
           t == s \o rest
<1>1. Len(s) \in Nat /\ s \in Seq(Providers) /\ DOMAIN s = 1..Len(s)
  BY DEF ProviderList
<1> HIDE DEF S
<1>2. PICK f : KeptUpTo(f, {FlareSolverr, InvisiblePlaywright}, two, S) /\ rest = f[2]
  <2>1. two \in Seq({FlareSolverr, InvisiblePlaywright}) /\ Len(two) = 2
    OBVIOUS
  <2> HIDE DEF two
  <2>. QED
    BY <2>1, ThoseUnrolled
<1>3. /\ f[0] = << >>
      /\ f[1] = IF FlareSolverr \in S THEN Append(f[0], FlareSolverr) ELSE f[0]
      /\ f[2] = IF InvisiblePlaywright \in S THEN Append(f[1], InvisiblePlaywright) ELSE f[1]
  <2>1. Len(two) = 2 /\ two[1] = FlareSolverr /\ two[2] = InvisiblePlaywright
    OBVIOUS
  <2> HIDE DEF two
  <2>2. f[0] = << >> /\ \A i \in 1..2 : f[i] = IF two[i] \in S THEN Append(f[i - 1], two[i]) ELSE f[i - 1]
    BY <1>2, <2>1 DEF KeptUpTo
  <2>3. 1 \in 1..2 /\ 2 \in 1..2 /\ 1 - 1 = 0 /\ 2 - 1 = 1
    OBVIOUS
  <2>4. f[1] = IF two[1] \in S THEN Append(f[0], two[1]) ELSE f[0]
    BY <2>2, <2>3
  <2>5. f[2] = IF two[2] \in S THEN Append(f[1], two[2]) ELSE f[1]
    BY <2>2, <2>3
  <2>. QED
    BY <2>1, <2>2, <2>4, <2>5
<1>4. /\ rest = IF FlareSolverr \in S
                THEN IF InvisiblePlaywright \in S THEN <<FlareSolverr, InvisiblePlaywright>>
                     ELSE <<FlareSolverr>>
                ELSE IF InvisiblePlaywright \in S THEN <<InvisiblePlaywright>> ELSE << >>
  BY <1>2, <1>3
<1>5. /\ new = IF FlareSolverr \in S
               THEN IF InvisiblePlaywright \in S THEN {FlareSolverr, InvisiblePlaywright}
                    ELSE {FlareSolverr}
               ELSE IF InvisiblePlaywright \in S THEN {InvisiblePlaywright} ELSE {}
  OBVIOUS
<1>6. /\ rest \in Seq(Providers) /\ Len(rest) = Cardinality(new)
      /\ {rest[j] : j \in 1..Len(rest)} = new
  <2>1. S \subseteq Providers /\ FlareSolverr # InvisiblePlaywright
    BY FallbackAssumption DEF S
  <2>2. /\ Cardinality({}) = 0 /\ Cardinality({FlareSolverr}) = 1
        /\ Cardinality({InvisiblePlaywright}) = 1
        /\ Cardinality({FlareSolverr, InvisiblePlaywright}) = 2
    <3>1. {FlareSolverr, InvisiblePlaywright} = {FlareSolverr} \cup {InvisiblePlaywright}
      OBVIOUS
    <3>2. IsFiniteSet({FlareSolverr}) /\ Cardinality({FlareSolverr}) = 1
      BY FS_Singleton
    <3>3. Cardinality({FlareSolverr} \cup {InvisiblePlaywright}) = 1 + 1
      BY <2>1, <3>2, FS_AddElement
    <3>. QED
      BY <3>1, <3>2, <3>3, FS_EmptySet, FS_Singleton, 1 + 1 = 2
  <2> HIDE DEF new, rest
  <2>3. CASE FlareSolverr \in S /\ InvisiblePlaywright \in S
    BY <1>4, <1>5, <2>1, <2>2, <2>3
  <2>4. CASE FlareSolverr \in S /\ InvisiblePlaywright \notin S
    BY <1>4, <1>5, <2>1, <2>2, <2>4
  <2>5. CASE FlareSolverr \notin S /\ InvisiblePlaywright \in S
    BY <1>4, <1>5, <2>1, <2>2, <2>5
  <2>6. CASE FlareSolverr \notin S /\ InvisiblePlaywright \notin S
    BY <1>4, <1>5, <2>1, <2>2, <2>6
  <2>. QED
    BY <2>3, <2>4, <2>5, <2>6
<1> HIDE DEF rest, new
<1>7. /\ t \in Seq(Providers) /\ Len(t) = Len(s) + Len(rest) /\ Len(rest) \in Nat
      /\ \A j \in 1..Len(s) : t[j] = s[j]
      /\ \A j \in 1..Len(t) : j > Len(s) => j - Len(s) \in 1..Len(rest) /\ t[j] = rest[j - Len(s)]
  BY <1>1, <1>6
<1>8. t = WithSolvers(s)
  BY DEF WithSolvers, rest, two, S
<1> HIDE DEF t
<1>9. ASSUME NEW i \in 1..(Len(s) + 1)
      PROVE  Ahead(t, i) = Ahead(s, i) \cup new
  <2>1. ASSUME NEW x \in Ahead(t, i) PROVE x \in Ahead(s, i) \cup new
    <3>1. PICK j \in i..Len(t) : x = t[j]
      BY DEF Ahead
    <3>2. CASE j <= Len(s)
      <4>1. j \in 1..Len(s) /\ j \in i..Len(s)
        BY <1>1, <3>2
      <4>2. x = s[j]
        BY <1>7, <3>1, <4>1
      <4>. QED
        BY <4>1, <4>2 DEF Ahead
    <3>3. CASE j > Len(s)
      <4>1. j - Len(s) \in 1..Len(rest) /\ x = rest[j - Len(s)]
        BY <1>1, <1>7, <3>1, <3>3
      <4>. QED
        BY <1>6, <4>1
    <3>. QED
      BY <1>1, <3>2, <3>3
  <2>2. ASSUME NEW x \in Ahead(s, i) PROVE x \in Ahead(t, i)
    <3>1. PICK j \in i..Len(s) : x = s[j]
      BY DEF Ahead
    <3>2. j \in i..Len(t) /\ t[j] = x
      BY <1>1, <1>7, <3>1
    <3>. QED
      BY <3>2 DEF Ahead
  <2>3. ASSUME NEW x \in new PROVE x \in Ahead(t, i)
    <3>1. PICK j \in 1..Len(rest) : x = rest[j]
      BY <1>6
    <3>2. Len(s) + j \in i..Len(t) /\ (Len(s) + j) - Len(s) = j /\ Len(s) + j \in 1..Len(t)
          /\ Len(s) + j > Len(s)
      BY <1>1, <1>7
    <3>3. t[Len(s) + j] = x
      BY <1>7, <3>1, <3>2
    <3>. QED
      BY <3>2, <3>3 DEF Ahead
  <2>. QED
    BY <2>1, <2>2, <2>3
<1>10. ToSet(t) = ToSet(s) \cup new
  <2>1. ToSet(t) = Ahead(t, 1) /\ ToSet(s) = Ahead(s, 1)
    <3>1. DOMAIN t = 1..Len(t)
      BY <1>7
    <3>. QED
      BY <1>1, <3>1 DEF ToSet, Ahead
  <2>. QED
    BY <1>1, <1>9, <2>1
<1>11. \A j \in 1..Len(t) : j > Len(s) => t[j] \in new
  BY <1>6, <1>7
<1>. QED
  BY <1>6, <1>7, <1>8, <1>9, <1>10, <1>11 DEF ProviderList, new, S

-------------------------------------------------------------------------------
(* How far a request can get                                                  *)

Solvers == {FlareSolverr, InvisiblePlaywright}

\* How far the walk may get that is at candidate i of s: to the end of the list, and
\* further by what may lengthen it.  A solver not in the list may be added, the
\* browser retry may bring one call and one error of its own (2), and an error may
\* bring a redirect: the first one of a provider that has not failed, and one of
\* each place ahead that does not name such a provider for the first time.
Retry(cookies) == IF cookies THEN 0 ELSE 2

Places(n, i, new) == n - i + 1 - new

Reach(s, i, failed, cookies) ==
  Len(s) + Places(Len(s), i, Cardinality(Ahead(s, i) \ failed))
         + Cardinality(Registered \ failed) + Cardinality(Solvers \ ToSet(s)) + Retry(cookies)

LEMMA RetryTyped == ASSUME NEW cookies \in BOOLEAN PROVE Retry(cookies) \in Nat
PROOF
<1>. QED
  BY DEF Retry

\* One more in the set, at most one more in its count.
LEMMA OneAdded ==
  ASSUME NEW S, NEW T, NEW x, IsFiniteSet(S), T \subseteq S \cup {x}
  PROVE  Cardinality(T) <= Cardinality(S) + 1
PROOF
<1>1. Cardinality(S) \in Nat
  BY FS_CardinalityType
<1>2. IsFiniteSet(S \cup {x})
  BY FS_AddElement
<1>3. Cardinality(S \cup {x}) = IF x \in S THEN Cardinality(S) ELSE Cardinality(S) + 1
  BY FS_AddElement
<1>4. IsFiniteSet(T) /\ Cardinality(T) <= Cardinality(S \cup {x})
  BY <1>2, FS_Subset
<1>5. Cardinality(T) \in Nat
  BY <1>4, FS_CardinalityType
<1>. QED
  BY <1>1, <1>3, <1>4, <1>5

\* What is counted there.
LEMMA ReachTyped ==
  ASSUME NEW s \in ProviderList, NEW i \in 1..(Len(s) + 1), NEW failed
  PROVE  /\ Len(s) \in Nat /\ i \in Nat
         /\ IsFiniteSet(Ahead(s, i) \ failed) /\ Cardinality(Ahead(s, i) \ failed) \in Nat
         /\ IsFiniteSet(Registered \ failed) /\ Cardinality(Registered \ failed) \in Nat
         /\ IsFiniteSet(Solvers \ ToSet(s)) /\ Cardinality(Solvers \ ToSet(s)) \in Nat
PROOF
<1>1. Len(s) \in Nat /\ i \in Nat /\ s \in Seq(Providers)
  BY DEF ProviderList
<1>2. IsFiniteSet(Solvers)
  <2>1. Solvers = {FlareSolverr} \cup {InvisiblePlaywright}
    BY DEF Solvers
  <2>. QED
    BY <2>1, FS_Singleton, FS_AddElement
<1>3. IsFiniteSet(Ahead(s, i)) /\ IsFiniteSet(Registered)
  BY <1>1, AheadCounted, FallbackAssumption
<1>4. IsFiniteSet(Ahead(s, i) \ failed) /\ IsFiniteSet(Registered \ failed) /\ IsFiniteSet(Solvers \ ToSet(s))
  BY <1>2, <1>3, FS_Difference
<1>. QED
  BY <1>1, <1>4, FS_CardinalityType

LEMMA LessCounted ==
  ASSUME NEW S, NEW T, IsFiniteSet(S), T \subseteq S
  PROVE  IsFiniteSet(T) /\ Cardinality(T) \in Nat /\ Cardinality(S) \in Nat /\ Cardinality(T) <= Cardinality(S)
PROOF
<1>. QED
  BY FS_Subset, FS_CardinalityType

LEMMA FirstPaid ==
  ASSUME NEW n \in Int, NEW a \in Int, NEW m \in Int, NEW c \in Int, a >= 1, c <= 2
  PROVE  n + Places(n, 1, a) + m + c + 2 <= 2 * n + m + 3
PROOF
<1>. QED
  BY DEF Places

\* The first candidates of an admitted request.
LEMMA ReachAtFirst ==
  ASSUME NEW s \in ProviderList, s # << >>
  PROVE  Reach(s, 1, {}, FALSE) <= 2 * Len(s) + Cardinality(Registered) + 3
PROOF
<1>1. Len(s) \in Nat /\ 1 \in 1..Len(s) /\ 1 \in 1..(Len(s) + 1)
  BY DEF ProviderList
<1>2. Cardinality(Ahead(s, 1) \ {}) >= 1
  <2>1. s[1] \in Ahead(s, 1) \ {}
    BY <1>1 DEF Ahead
  <2>2. IsFiniteSet(Ahead(s, 1) \ {}) /\ Cardinality(Ahead(s, 1) \ {}) \in Nat
    BY <1>1, ReachTyped
  <2>3. Cardinality(Ahead(s, 1) \ {}) # 0
    BY <2>1, <2>2, FS_EmptySet
  <2>. QED
    BY <2>2, <2>3
<1>3. Cardinality(Registered \ {}) = Cardinality(Registered) /\ Cardinality(Registered) \in Nat
  <2>1. Registered \ {} = Registered
    OBVIOUS
  <2>. QED
    BY <2>1, FallbackAssumption, FS_CardinalityType
<1>4. Cardinality(Solvers \ ToSet(s)) \in Nat /\ Cardinality(Solvers \ ToSet(s)) <= 2
  <2>1. IsFiniteSet(Solvers) /\ Cardinality(Solvers) <= 2
    <3>1. Solvers = {FlareSolverr} \cup {InvisiblePlaywright}
      BY DEF Solvers
    <3>2. IsFiniteSet({FlareSolverr}) /\ Cardinality({FlareSolverr}) = 1
      BY FS_Singleton
    <3>. QED
      BY <3>1, <3>2, FS_AddElement
  <2>. QED
    BY <2>1, LessCounted
<1>5. Cardinality(Ahead(s, 1) \ {}) \in Nat
  BY <1>1, ReachTyped
<1> DEFINE n == Len(s)
           a == Cardinality(Ahead(s, 1) \ {})
           m == Cardinality(Registered)
           c == Cardinality(Solvers \ ToSet(s))
<1>6. Reach(s, 1, {}, FALSE) = n + Places(n, 1, a) + m + c + 2
  BY <1>3 DEF Reach, Retry
<1>7. n \in Int /\ a \in Int /\ m \in Int /\ c \in Int /\ a >= 1 /\ c <= 2
  BY <1>1, <1>2, <1>3, <1>4, <1>5
<1> HIDE DEF a, m, c, n
<1>8. n + Places(n, 1, a) + m + c + 2 <= 2 * n + m + 3
  BY <1>7, FirstPaid
<1>. QED
  BY <1>6, <1>8 DEF n, m

\* The next candidate: a place is passed, and perhaps with it the last that names a
\* provider which has not failed.
LEMMA ReachNext ==
  ASSUME NEW s \in ProviderList, NEW i \in 1..Len(s), NEW failed, NEW cookies \in BOOLEAN
  PROVE  Reach(s, i + 1, failed, cookies) <= Reach(s, i, failed, cookies)
PROOF
<1> DEFINE here == Ahead(s, i) \ failed
           next == Ahead(s, i + 1) \ failed
<1>1. Len(s) \in Nat /\ i \in Nat /\ i \in 1..(Len(s) + 1) /\ i + 1 \in 1..(Len(s) + 1) /\ i <= Len(s)
      /\ s \in Seq(Providers)
  BY DEF ProviderList
<1>2. IsFiniteSet(here) /\ Cardinality(here) \in Nat /\ Cardinality(next) \in Nat /\ IsFiniteSet(next)
  BY <1>1, ReachTyped
<1>3. here \subseteq next \cup {s[i]}
  BY <1>1, AheadCounted
<1>4. Cardinality(here) <= Cardinality(next) + 1
  <2> HIDE DEF here, next
  <2>. QED
    BY <1>2, <1>3, OneAdded
<1>5. Cardinality(Registered \ failed) \in Nat /\ Cardinality(Solvers \ ToSet(s)) \in Nat
  BY <1>1, ReachTyped
<1> DEFINE n == Len(s)
           a == Cardinality(here)
           b == Cardinality(next)
           m == Cardinality(Registered \ failed)
           c == Cardinality(Solvers \ ToSet(s))
           k == Retry(cookies)
<1>6. /\ Reach(s, i, failed, cookies) = n + Places(n, i, a) + m + c + k
      /\ Reach(s, i + 1, failed, cookies) = n + Places(n, i + 1, b) + m + c + k
  BY DEF Reach
<1>7. /\ n \in Int /\ i \in Int /\ a \in Int /\ b \in Int /\ m \in Int /\ c \in Int /\ k \in Int
      /\ a <= b + 1
  BY <1>1, <1>2, <1>4, <1>5, RetryTyped
<1> HIDE DEF n, a, b, m, c, k
<1>. QED
  BY <1>6, <1>7 DEF Places

\* An error: the provider has failed now, and its place is one that may bring a redirect.
LEMMA ReachFailed ==
  ASSUME NEW s \in ProviderList, NEW i \in 1..Len(s), NEW failed, NEW cookies \in BOOLEAN,
         s[i] \in Registered
  PROVE  Reach(s, i, failed \cup {s[i]}, cookies) <= Reach(s, i, failed, cookies)
PROOF
<1> DEFINE here == Ahead(s, i) \ failed
           then == Ahead(s, i) \ (failed \cup {s[i]})
           fresh == Registered \ failed
           left == Registered \ (failed \cup {s[i]})
<1>1. Len(s) \in Nat /\ i \in Nat /\ i \in 1..(Len(s) + 1) /\ i <= Len(s)
  BY DEF ProviderList
<1>2. /\ IsFiniteSet(here) /\ Cardinality(here) \in Nat /\ Cardinality(then) \in Nat
      /\ IsFiniteSet(fresh) /\ Cardinality(fresh) \in Nat /\ Cardinality(left) \in Nat
      /\ Cardinality(Solvers \ ToSet(s)) \in Nat
  BY <1>1, ReachTyped
<1>3. then = here \ {s[i]} /\ left = fresh \ {s[i]}
  OBVIOUS
<1>4. s[i] \in here <=> s[i] \in fresh
  <2>1. s[i] \in Ahead(s, i)
    BY <1>1 DEF Ahead
  <2>. QED
    BY <2>1
<1> HIDE DEF here, then, fresh, left
<1>5. Cardinality(left) - Cardinality(then) = Cardinality(fresh) - Cardinality(here)
  <2>1. Cardinality(then) = IF s[i] \in here THEN Cardinality(here) - 1 ELSE Cardinality(here)
    BY <1>2, <1>3, FS_RemoveElement
  <2>2. Cardinality(left) = IF s[i] \in fresh THEN Cardinality(fresh) - 1 ELSE Cardinality(fresh)
    BY <1>2, <1>3, FS_RemoveElement
  <2>. QED
    BY <1>2, <1>4, <2>1, <2>2
<1> DEFINE n == Len(s)
           a == Cardinality(here)
           b == Cardinality(then)
           m == Cardinality(fresh)
           l == Cardinality(left)
           c == Cardinality(Solvers \ ToSet(s))
           k == Retry(cookies)
<1>6. /\ Reach(s, i, failed, cookies) = n + Places(n, i, a) + m + c + k
      /\ Reach(s, i, failed \cup {s[i]}, cookies) = n + Places(n, i, b) + l + c + k
  BY DEF Reach, here, then, fresh, left
<1>7. /\ n \in Int /\ i \in Int /\ a \in Int /\ b \in Int /\ m \in Int /\ l \in Int /\ c \in Int
      /\ k \in Int /\ l - b = m - a
  BY <1>1, <1>2, <1>5, RetryTyped
<1> HIDE DEF n, a, b, m, l, c, k
<1>. QED
  BY <1>6, <1>7 DEF Places

\* The sums of the next two lemmas.
LEMMA RedirectPaid ==
  ASSUME NEW n \in Int, NEW l \in Int, NEW i \in Int, NEW a \in Int, NEW b \in Int, NEW m \in Int,
         NEW c \in Int, NEW d \in Int, NEW k \in Int, d <= c,
         (l <= n /\ b = a) \/ (l <= n + 1 /\ b = a + 1)
  PROVE  l + Places(l, i + 1, b) + m + d + k <= n + Places(n, i, a) + m + c + k
PROOF
<1>. QED
  BY DEF Places

LEMMA RetryPaid ==
  ASSUME NEW n \in Int, NEW l \in Int, NEW i \in Int, NEW a \in Int, NEW b \in Int, NEW m \in Int,
         NEW c \in Int, NEW d \in Int, NEW k \in Int, NEW j \in Int,
         d <= c, l <= n + 1, a <= b + 1, j + 2 <= k
  PROVE  l + Places(l, i + 1, b) + m + d + j <= n + Places(n, i, a) + m + c + k
PROOF
<1>. QED
  BY DEF Places

\* A redirect uses up the place that failed.
LEMMA ReachRedirected ==
  ASSUME NEW s \in ProviderList, NEW i \in 1..Len(s), NEW failed, NEW cookies \in BOOLEAN,
         NEW name \in Providers, s[i] \in failed, name \notin failed
  PROVE  Reach(InsertCandidate(s, name, i), i + 1, failed, cookies) <= Reach(s, i, failed, cookies)
PROOF
<1> DEFINE t == InsertCandidate(s, name, i)
           here == Ahead(s, i) \ failed
           then == Ahead(t, i + 1) \ failed
<1>1. Len(s) \in Nat /\ i \in Nat /\ i \in 1..(Len(s) + 1) /\ i <= Len(s) /\ s \in Seq(Providers)
  BY DEF ProviderList
<1>2. /\ t \in ProviderList /\ i < Len(t) /\ ToSet(t) = ToSet(s) \cup {name}
      /\ Ahead(t, i + 1) = Ahead(s, i + 1) \cup {name}
      /\ Len(t) <= Len(s) + 1
      /\ name \in Ahead(s, i + 1) => Len(t) <= Len(s)
  BY Inserted
<1> HIDE DEF t
<1>3. Len(t) \in Nat /\ i + 1 \in 1..(Len(t) + 1)
  BY <1>1, <1>2 DEF ProviderList
<1>4. /\ IsFiniteSet(here) /\ Cardinality(here) \in Nat /\ Cardinality(then) \in Nat
      /\ Cardinality(Registered \ failed) \in Nat
      /\ IsFiniteSet(Solvers \ ToSet(s)) /\ Cardinality(Solvers \ ToSet(s)) \in Nat
      /\ Cardinality(Solvers \ ToSet(t)) \in Nat
  BY <1>1, <1>2, <1>3, ReachTyped
<1>5. Cardinality(Solvers \ ToSet(t)) <= Cardinality(Solvers \ ToSet(s))
  <2>1. Solvers \ ToSet(t) \subseteq Solvers \ ToSet(s)
    BY <1>2
  <2>. QED
    BY <1>4, <2>1, LessCounted
<1>6. Ahead(s, i) = {s[i]} \cup Ahead(s, i + 1)
  BY <1>1, AheadCounted
<1>7. then = here \cup {name}
  BY <1>2, <1>6
<1>8. name \in here => name \in Ahead(s, i + 1)
  BY <1>6
<1> HIDE DEF here, then
<1>9. Cardinality(then) = IF name \in here THEN Cardinality(here) ELSE Cardinality(here) + 1
  BY <1>4, <1>7, FS_AddElement
<1> DEFINE n == Len(s)
           l == Len(t)
           a == Cardinality(here)
           b == Cardinality(then)
           m == Cardinality(Registered \ failed)
           c == Cardinality(Solvers \ ToSet(s))
           d == Cardinality(Solvers \ ToSet(t))
           k == Retry(cookies)
<1>10. /\ Reach(s, i, failed, cookies) = n + Places(n, i, a) + m + c + k
       /\ Reach(t, i + 1, failed, cookies) = l + Places(l, i + 1, b) + m + d + k
  BY DEF Reach, here, then
<1>11. /\ n \in Int /\ l \in Int /\ i \in Int /\ a \in Int /\ b \in Int /\ m \in Int /\ c \in Int
       /\ d \in Int /\ k \in Int /\ d <= c
  BY <1>1, <1>3, <1>4, <1>5, RetryTyped
<1>12. (l <= n /\ b = a) \/ (l <= n + 1 /\ b = a + 1)
  <2>1. CASE name \in here
    BY <1>2, <1>8, <1>9, <2>1
  <2>2. CASE name \notin here
    BY <1>2, <1>9, <2>2
  <2>. QED
    BY <2>1, <2>2
<1> HIDE DEF n, l, a, b, m, c, d, k
<1>13. Reach(t, i + 1, failed, cookies) <= Reach(s, i, failed, cookies)
  <2>1. l + Places(l, i + 1, b) + m + d + k <= n + Places(n, i, a) + m + c + k
    BY <1>11, <1>12, RedirectPaid
  <2>. QED
    BY <1>10, <2>1
<1>. QED
  BY <1>13 DEF t

\* The browser retry uses up its own allowance.
LEMMA ReachRetried ==
  ASSUME NEW s \in ProviderList, NEW i \in 1..Len(s), NEW failed, NEW name \in Providers
  PROVE  Reach(InsertCandidate(s, name, i), i + 1, failed, TRUE) <= Reach(s, i, failed, FALSE)
PROOF
<1> DEFINE t == InsertCandidate(s, name, i)
           here == Ahead(s, i) \ failed
           then == Ahead(t, i + 1) \ failed
<1>1. Len(s) \in Nat /\ i \in Nat /\ i \in 1..(Len(s) + 1) /\ i <= Len(s) /\ s \in Seq(Providers)
  BY DEF ProviderList
<1>2. /\ t \in ProviderList /\ i < Len(t) /\ ToSet(t) = ToSet(s) \cup {name}
      /\ Ahead(t, i + 1) = Ahead(s, i + 1) \cup {name}
      /\ Len(t) <= Len(s) + 1
  BY Inserted
<1> HIDE DEF t
<1>3. Len(t) \in Nat /\ i + 1 \in 1..(Len(t) + 1)
  BY <1>1, <1>2 DEF ProviderList
<1>4. /\ IsFiniteSet(here) /\ Cardinality(here) \in Nat /\ Cardinality(then) \in Nat
      /\ IsFiniteSet(then) /\ Cardinality(Registered \ failed) \in Nat
      /\ IsFiniteSet(Solvers \ ToSet(s)) /\ Cardinality(Solvers \ ToSet(s)) \in Nat
      /\ Cardinality(Solvers \ ToSet(t)) \in Nat
  BY <1>1, <1>2, <1>3, ReachTyped
<1>5. Cardinality(Solvers \ ToSet(t)) <= Cardinality(Solvers \ ToSet(s))
  <2>1. Solvers \ ToSet(t) \subseteq Solvers \ ToSet(s)
    BY <1>2
  <2>. QED
    BY <1>4, <2>1, LessCounted
<1>6. Ahead(s, i) = {s[i]} \cup Ahead(s, i + 1)
  BY <1>1, AheadCounted
<1>7. here \subseteq then \cup {s[i]}
  BY <1>2, <1>6
<1> HIDE DEF here, then
<1>8. Cardinality(here) <= Cardinality(then) + 1
  BY <1>4, <1>7, OneAdded
<1> DEFINE n == Len(s)
           l == Len(t)
           a == Cardinality(here)
           b == Cardinality(then)
           m == Cardinality(Registered \ failed)
           c == Cardinality(Solvers \ ToSet(s))
           d == Cardinality(Solvers \ ToSet(t))
           k == Retry(FALSE)
           j == Retry(TRUE)
<1>9. /\ Reach(s, i, failed, FALSE) = n + Places(n, i, a) + m + c + k
      /\ Reach(t, i + 1, failed, TRUE) = l + Places(l, i + 1, b) + m + d + j
  BY DEF Reach, here, then
<1>10. /\ n \in Int /\ l \in Int /\ i \in Int /\ a \in Int /\ b \in Int /\ m \in Int /\ c \in Int
       /\ d \in Int /\ d <= c /\ l <= n + 1 /\ a <= b + 1
  BY <1>1, <1>2, <1>3, <1>4, <1>5, <1>8
<1>11. k = 2 /\ j = 0
  BY DEF Retry
<1> HIDE DEF n, l, a, b, m, c, d, k, j
<1>12. l + Places(l, i + 1, b) + m + d + j <= n + Places(n, i, a) + m + c + k
  BY <1>10, <1>11, RetryPaid
<1>. QED
  BY <1>9, <1>12 DEF t

\* A solver added to the list is one that had been allowed for.
LEMMA ReachExtended ==
  ASSUME NEW s \in ProviderList, NEW i \in 1..Len(s), NEW failed, NEW cookies \in BOOLEAN,
         failed \subseteq ToSet(s)
  PROVE  Reach(WithSolvers(s), i, failed, cookies) <= Reach(s, i, failed, cookies)
PROOF
<1> DEFINE t == WithSolvers(s)
           new == Solvers \cap (Registered \ ToSet(s))
           here == Ahead(s, i) \ failed
           then == Ahead(t, i) \ failed
<1>1. Len(s) \in Nat /\ i \in Nat /\ i \in 1..(Len(s) + 1) /\ i <= Len(s) /\ s \in Seq(Providers)
  BY DEF ProviderList
<1>2. /\ t \in ProviderList /\ ToSet(t) = ToSet(s) \cup new
      /\ Ahead(t, i) = Ahead(s, i) \cup new
      /\ Len(t) = Len(s) + Cardinality(new)
  BY <1>1, SolversAdded DEF Solvers
<1> HIDE DEF t
<1>3. IsFiniteSet(Solvers \ ToSet(s))
  BY <1>1, ReachTyped
<1>4. new \subseteq Solvers \ ToSet(s)
  OBVIOUS
<1>5. IsFiniteSet(new) /\ Cardinality(new) \in Nat
  BY <1>3, <1>4, LessCounted
<1>6. Len(t) \in Nat /\ i \in 1..(Len(t) + 1)
  BY <1>1, <1>2, <1>5
<1>7. /\ IsFiniteSet(here) /\ Cardinality(here) \in Nat /\ Cardinality(then) \in Nat
      /\ Cardinality(Registered \ failed) \in Nat
      /\ Cardinality(Solvers \ ToSet(s)) \in Nat
      /\ Cardinality(Solvers \ ToSet(t)) \in Nat
  BY <1>1, <1>2, <1>6, ReachTyped
<1>8. then = here \cup new /\ here \cap new = {}
  <2>1. Ahead(s, i) \subseteq ToSet(s)
    BY <1>1, AheadCounted
  <2>. QED
    BY <1>2, <2>1
<1>9. Cardinality(then) = Cardinality(here) + Cardinality(new)
  <2> HIDE DEF here, then, new
  <2>0. Cardinality({}) = 0
    BY FS_EmptySet
  <2>1. Cardinality(here \cup new) = Cardinality(here) + Cardinality(new) - Cardinality(here \cap new)
    BY <1>5, <1>7, FS_Union
  <2>2. Cardinality(then) = Cardinality(here) + Cardinality(new) - 0
    BY <1>8, <2>0, <2>1
  <2>. QED
    BY <1>5, <1>7, <2>2
<1>10. Cardinality(Solvers \ ToSet(t)) = Cardinality(Solvers \ ToSet(s)) - Cardinality(new)
  <2>1. Solvers \ ToSet(t) = (Solvers \ ToSet(s)) \ new
    BY <1>2
  <2>2. (Solvers \ ToSet(s)) \cap new = new
    OBVIOUS
  <2>3. Cardinality((Solvers \ ToSet(s)) \ new)
          = Cardinality(Solvers \ ToSet(s)) - Cardinality((Solvers \ ToSet(s)) \cap new)
    BY <1>3, FS_Difference
  <2>. QED
    BY <2>1, <2>2, <2>3
<1> DEFINE n == Len(s)
           l == Len(t)
           a == Cardinality(here)
           b == Cardinality(then)
           m == Cardinality(Registered \ failed)
           c == Cardinality(Solvers \ ToSet(s))
           d == Cardinality(Solvers \ ToSet(t))
           e == Cardinality(new)
           k == Retry(cookies)
<1>11. /\ Reach(s, i, failed, cookies) = n + Places(n, i, a) + m + c + k
       /\ Reach(t, i, failed, cookies) = l + Places(l, i, b) + m + d + k
  BY DEF Reach, here, then
<1>12. /\ n \in Int /\ l \in Int /\ i \in Int /\ a \in Int /\ b \in Int /\ m \in Int /\ c \in Int
       /\ d \in Int /\ e \in Int /\ k \in Int
  BY <1>1, <1>5, <1>6, <1>7, RetryTyped
<1>13. d = c - e /\ l = n + e /\ b = a + e
  BY <1>2, <1>9, <1>10
<1> HIDE DEF n, l, a, b, m, c, d, e, k
<1>14. Reach(t, i, failed, cookies) <= Reach(s, i, failed, cookies)
  BY <1>11, <1>12, <1>13 DEF Places
<1>. QED
  BY <1>14 DEF t

\* A candidate that is being called, or has just failed, is itself a place that may
\* bring a redirect: the walk can always get further than it is.
LEMMA ReachBeyond ==
  ASSUME NEW s \in ProviderList, NEW i \in 1..Len(s), NEW failed, NEW cookies \in BOOLEAN,
         s[i] \in Registered \/ s[i] \in failed
  PROVE  Len(s) + 1 <= Reach(s, i, failed, cookies)
PROOF
<1> DEFINE here == Ahead(s, i) \ failed
<1>1. Len(s) \in Nat /\ i \in Nat /\ i \in 1..(Len(s) + 1) /\ i + 1 \in 1..(Len(s) + 1) /\ i <= Len(s)
      /\ s \in Seq(Providers)
  BY DEF ProviderList
<1>2. /\ IsFiniteSet(here) /\ Cardinality(here) \in Nat
      /\ IsFiniteSet(Registered \ failed) /\ Cardinality(Registered \ failed) \in Nat
      /\ Cardinality(Solvers \ ToSet(s)) \in Nat
  BY <1>1, ReachTyped
<1> DEFINE n == Len(s)
           a == Cardinality(here)
           m == Cardinality(Registered \ failed)
           c == Cardinality(Solvers \ ToSet(s))
           k == Retry(cookies)
<1>3. Reach(s, i, failed, cookies) = n + Places(n, i, a) + m + c + k
  BY DEF Reach
<1>4. n \in Int /\ i \in Int /\ a \in Int /\ m \in Nat /\ c \in Nat /\ k \in Nat
  BY <1>1, <1>2, RetryTyped
<1>5. (s[i] \in failed /\ a <= n - i) \/ (m # 0 /\ a <= n - i + 1)
  <2>1. CASE s[i] \in failed
    <3>1. here \subseteq Ahead(s, i + 1)
      BY <1>1, <2>1, AheadCounted
    <3>2. IsFiniteSet(Ahead(s, i + 1)) /\ Cardinality(Ahead(s, i + 1)) <= Len(s) - (i + 1) + 1
      BY <1>1, AheadCounted
    <3> HIDE DEF here
    <3>3. a <= Cardinality(Ahead(s, i + 1)) /\ Cardinality(Ahead(s, i + 1)) \in Nat
      BY <3>1, <3>2, LessCounted
    <3>. QED
      BY <1>1, <1>4, <2>1, <3>2, <3>3
  <2>2. CASE s[i] \notin failed
    <3>1. m # 0
      BY <1>2, <2>2, FS_EmptySet
    <3>2. here \subseteq Ahead(s, i)
      OBVIOUS
    <3>3. IsFiniteSet(Ahead(s, i)) /\ Cardinality(Ahead(s, i)) <= Len(s) - i + 1
      BY <1>1, AheadCounted
    <3> HIDE DEF here
    <3>4. a <= Cardinality(Ahead(s, i)) /\ Cardinality(Ahead(s, i)) \in Nat
      BY <3>2, <3>3, LessCounted
    <3>. QED
      BY <1>1, <1>4, <3>1, <3>3, <3>4
  <2>. QED
    BY <2>1, <2>2
<1> HIDE DEF a, m, c, k, n
<1>6. n + 1 <= Reach(s, i, failed, cookies)
  BY <1>3, <1>4, <1>5 DEF Places
<1>. QED
  BY <1>6 DEF n

\* It always gets to the end of the list.
LEMMA ReachToEnd ==
  ASSUME NEW s \in ProviderList, NEW i \in 1..Len(s), NEW failed, NEW cookies \in BOOLEAN
  PROVE  Reach(s, i, failed, cookies) \in Int /\ Len(s) <= Reach(s, i, failed, cookies)
PROOF
<1> DEFINE here == Ahead(s, i) \ failed
<1>1. Len(s) \in Nat /\ i \in Nat /\ i \in 1..(Len(s) + 1) /\ i <= Len(s) /\ s \in Seq(Providers)
  BY DEF ProviderList
<1>2. /\ Cardinality(here) \in Nat /\ Cardinality(Registered \ failed) \in Nat
      /\ Cardinality(Solvers \ ToSet(s)) \in Nat
  BY <1>1, ReachTyped
<1>3. Cardinality(here) <= Len(s) - i + 1
  <2>1. here \subseteq Ahead(s, i)
    OBVIOUS
  <2>2. IsFiniteSet(Ahead(s, i)) /\ Cardinality(Ahead(s, i)) <= Len(s) - i + 1
    BY <1>1, AheadCounted
  <2> HIDE DEF here
  <2>3. Cardinality(here) <= Cardinality(Ahead(s, i)) /\ Cardinality(Ahead(s, i)) \in Nat
    BY <2>1, <2>2, LessCounted
  <2>. QED
    BY <1>1, <1>2, <2>2, <2>3
<1> DEFINE n == Len(s)
           a == Cardinality(here)
           m == Cardinality(Registered \ failed)
           c == Cardinality(Solvers \ ToSet(s))
           k == Retry(cookies)
<1>4. Reach(s, i, failed, cookies) = n + Places(n, i, a) + m + c + k
  BY DEF Reach
<1>5. n \in Int /\ i \in Int /\ a \in Int /\ m \in Nat /\ c \in Nat /\ k \in Nat /\ a <= n - i + 1
  BY <1>1, <1>2, <1>3, RetryTyped
<1> HIDE DEF n, a, m, c, k, here
<1>6. Reach(s, i, failed, cookies) \in Int /\ n <= Reach(s, i, failed, cookies)
  BY <1>4, <1>5 DEF Places
<1>. QED
  BY <1>6 DEF n

-------------------------------------------------------------------------------
(* The walk                                                                    *)

Budget(q) == 2 * Len(q.admitted) + Cardinality(Registered) + 2

\* A request in the loop: what it was admitted to and what has failed is in the list,
\* and the walk does not get further than one beyond its budget.
Walking(q) ==
  /\ q.idx <= Len(q.cands)
  /\ ToSet(q.admitted) \subseteq ToSet(q.cands)
  /\ q.failed \subseteq ToSet(q.cands)
  /\ Reach(q.cands, q.idx, q.failed, q.cookies) <= Budget(q) + 1

Exhausted(q) == ToSet(q.admitted) \subseteq ToSet(SubSeq(q.cands, 1, q.idx))

GoodRequest(q) ==
  /\ q \in RequestRecord
  /\ q.pc = "queued" => q.failed = {} /\ q.cookies = FALSE /\ q.idx = 1
  /\ q.pc \in Suspended => Walking(q)
  /\ q.pc = "calling" => Current(q) \in Registered
  /\ q.pc = "judging" => Current(q) \in q.failed
  /\ q.pc \in {"failed", "poor"} => Exhausted(q)
  /\ q.idx <= Budget(q) + IF q.pc = "crashed" THEN 1 ELSE 0

WalkInv ==
  /\ req \in [Requests -> RequestRecord]
  /\ \A r \in Requests : GoodRequest(req[r])

LEMMA WalkInvSuffices == WalkInv => FailsOnlyExhausted /\ CallBudget
PROOF
<1>. QED
  BY DEF WalkInv, GoodRequest, FailsOnlyExhausted, CallBudget, Exhausted, Budget

LEMMA BudgetTyped ==
  ASSUME NEW q \in RequestRecord
  PROVE  Budget(q) \in Nat /\ Budget(q) >= 2
PROOF
<1>1. Len(q.admitted) \in Nat
  BY DEF RequestRecord, ProviderList
<1>2. Cardinality(Registered) \in Nat
  BY FallbackAssumption, FS_CardinalityType
<1>. QED
  BY <1>1, <1>2 DEF Budget

\* Turning to a candidate within reach.
LEMMA TurnedTo ==
  ASSUME NEW q \in RequestRecord, NEW s \in ProviderList, NEW i \in 1..Len(s),
         ToSet(q.admitted) \subseteq ToSet(s), q.failed \subseteq ToSet(s),
         Reach(s, i, q.failed, q.cookies) <= Budget(q) + 1
  PROVE  GoodRequest(Try(q, s, i))
PROOF
<1> DEFINE t == Try(q, s, i)
<1>1. Len(s) \in Nat /\ i \in Nat \ {0} /\ i <= Len(s)
  BY DEF ProviderList
<1>2. /\ t \in RequestRecord /\ t.cands = s /\ t.idx = i
      /\ t.pc = IF s[i] \in Registered THEN "calling" ELSE "crashed"
      /\ t.failed = q.failed /\ t.cookies = q.cookies /\ t.admitted = q.admitted
  BY <1>1 DEF Try, RequestRecord, Suspended, Ended
<1>3. Budget(t) = Budget(q) /\ Budget(q) \in Nat
  BY <1>2, BudgetTyped DEF Budget
<1>4. q.cookies \in BOOLEAN
  BY DEF RequestRecord
<1> HIDE DEF t
<1>5. Walking(t)
  BY <1>1, <1>2, <1>3 DEF Walking
<1>6. CASE s[i] \in Registered
  <2>1. Len(s) + 1 <= Reach(s, i, q.failed, q.cookies)
    BY <1>4, <1>6, ReachBeyond
  <2>2. Reach(s, i, q.failed, q.cookies) \in Int
    BY <1>4, ReachToEnd
  <2>3. i <= Budget(t)
    BY <1>1, <1>3, <2>1, <2>2
  <2>4. t.pc = "calling" /\ Current(t) \in Registered
    BY <1>2, <1>6 DEF Current
  <2>5. t.idx <= Budget(t) + IF t.pc = "crashed" THEN 1 ELSE 0
    BY <1>1, <1>2, <1>3, <2>3, <2>4
  <2>. QED
    BY <1>2, <1>5, <2>4, <2>5 DEF GoodRequest, t
<1>7. CASE s[i] \notin Registered
  <2>1. Len(s) <= Reach(s, i, q.failed, q.cookies) /\ Reach(s, i, q.failed, q.cookies) \in Int
    BY <1>4, ReachToEnd
  <2>2. t.pc = "crashed"
    BY <1>2, <1>7
  <2>3. t.idx <= Budget(t) + IF t.pc = "crashed" THEN 1 ELSE 0
    BY <1>1, <1>2, <1>3, <2>1, <2>2
  <2>. QED
    BY <1>2, <2>2, <2>3 DEF GoodRequest, t, Suspended
<1>. QED
  BY <1>6, <1>7

\* Going on to the next candidate, or ending when every one has been called.
LEMMA TurnedNext ==
  ASSUME NEW q \in RequestRecord, NEW s \in ProviderList, q.idx <= Len(s),
         ToSet(q.admitted) \subseteq ToSet(s), q.failed \subseteq ToSet(s),
         Reach(s, q.idx, q.failed, q.cookies) <= Budget(q) + 1,
         q.idx <= Budget(q), NEW end \in {"failed", "poor"}
  PROVE  GoodRequest(NextOr(q, s, end))
PROOF
<1>1. Len(s) \in Nat /\ q.idx \in Nat \ {0} /\ q.idx \in 1..Len(s) /\ q.cookies \in BOOLEAN
      /\ s \in Seq(Providers)
  BY DEF ProviderList, RequestRecord
<1>2. CASE q.idx < Len(s)
  <2>1. q.idx + 1 \in 1..Len(s)
    BY <1>1, <1>2
  <2>2. Reach(s, q.idx + 1, q.failed, q.cookies) <= Reach(s, q.idx, q.failed, q.cookies)
    BY <1>1, ReachNext
  <2>3. Reach(s, q.idx + 1, q.failed, q.cookies) \in Int /\ Reach(s, q.idx, q.failed, q.cookies) \in Int
    BY <1>1, <2>1, ReachToEnd
  <2>4. Reach(s, q.idx + 1, q.failed, q.cookies) <= Budget(q) + 1
    BY <2>2, <2>3, BudgetTyped
  <2>. QED
    BY <1>2, <2>1, <2>4, TurnedTo DEF NextOr
<1>3. CASE ~(q.idx < Len(s))
  <2> DEFINE t == [q EXCEPT !.cands = s, !.pc = end]
  <2>1. /\ t \in RequestRecord /\ t.cands = s /\ t.idx = q.idx /\ t.pc = end
        /\ t.admitted = q.admitted
    BY DEF RequestRecord, Ended
  <2>2. NextOr(q, s, end) = t
    BY <1>3 DEF NextOr
  <2> HIDE DEF t
  <2>3. q.idx = Len(s) /\ SubSeq(s, 1, q.idx) = s
    BY <1>1, <1>3, SubSeqFull
  <2>4. Exhausted(t)
    BY <2>1, <2>3 DEF Exhausted
  <2>5. t.idx <= Budget(t) + IF t.pc = "crashed" THEN 1 ELSE 0
    BY <1>1, <2>1, BudgetTyped DEF Budget
  <2>. QED
    BY <2>1, <2>2, <2>4, <2>5 DEF GoodRequest, Suspended
<1>. QED
  BY <1>2, <1>3

\* After an error: the provider has been added to those that failed.
LEMMA TurnedAway ==
  ASSUME NEW q \in RequestRecord, Walking(q), Current(q) \in q.failed, q.idx <= Budget(q),
         NEW choice \in SUBSET Providers
  PROVE  GoodRequest(AfterError(q, choice))
PROOF
<1> DEFINE redirects == choice \ q.failed
           name == CHOOSE p \in redirects : TRUE
           s == InsertCandidate(q.cands, name, q.idx)
<1>1. q.cands \in ProviderList /\ q.idx \in 1..Len(q.cands) /\ q.cookies \in BOOLEAN
  BY DEF RequestRecord, ProviderList, Walking
<1>2. CASE redirects = {}
  <2>1. GoodRequest(NextOr(q, q.cands, "failed"))
    BY <1>1, TurnedNext DEF Walking
  <2>. QED
    BY <1>2, <2>1 DEF AfterError
<1>3. CASE redirects # {}
  <2>1. name \in redirects
    BY <1>3
  <2>2. name \in Providers /\ name \notin q.failed
    BY <2>1
  <2> HIDE DEF name
  <2>3. /\ s \in ProviderList /\ q.idx < Len(s) /\ ToSet(s) = ToSet(q.cands) \cup {name}
    BY <1>1, <2>2, Inserted
  <2>4. Reach(s, q.idx + 1, q.failed, q.cookies) <= Reach(q.cands, q.idx, q.failed, q.cookies)
    BY <1>1, <2>2, ReachRedirected DEF Current
  <2> HIDE DEF s
  <2>5. q.idx + 1 \in 1..Len(s)
    BY <1>1, <2>3 DEF ProviderList
  <2>6. Reach(s, q.idx + 1, q.failed, q.cookies) \in Int
        /\ Reach(q.cands, q.idx, q.failed, q.cookies) \in Int
    BY <1>1, <2>3, <2>5, ReachToEnd
  <2>7. Reach(s, q.idx + 1, q.failed, q.cookies) <= Budget(q) + 1
    BY <2>4, <2>6, BudgetTyped DEF Walking
  <2>8. GoodRequest(Try(q, s, q.idx + 1))
    BY <2>3, <2>5, <2>7, TurnedTo DEF Walking
  <2>. QED
    BY <1>3, <2>8 DEF AfterError, s, name
<1>. QED
  BY <1>2, <1>3

-------------------------------------------------------------------------------
(* What the filter admits                                                     *)

\* What the candidates of a route and the filter give are providers.
LEMMA CandidatesTyped ==
  ASSUME NEW route \in Routes
  PROVE  Candidates(route) \in ProviderList
PROOF
<1>1. route.provider \in Providers /\ route.fallback_chain \in Seq(Providers)
  BY FallbackAssumption
<1>2. Without(route.fallback_chain, route.provider) \in Seq(Providers)
  BY <1>1, ThoseKept DEF Without
<1>. QED
  BY <1>1, <1>2 DEF Candidates, ProviderList

LEMMA ByUseKept ==
  ASSUME NEW s \in ProviderList, NEW S, NEW standing
  PROVE  /\ ByUse(s, S, standing) \in ProviderList
         /\ ToSet(ByUse(s, S, standing)) \subseteq ToSet(s) \cap S
PROOF
<1> DEFINE level(l) == Those(s, {p \in S : standing[p].pct = l - 1})
           levels == [l \in 1..(MaxPct + 1) |-> level(l)]
<1>1. \A l \in 1..(MaxPct + 1) :
        level(l) \in Seq(Providers) /\ ToSet(level(l)) \subseteq ToSet(s) \cap S
  <2>1. TAKE l \in 1..(MaxPct + 1)
  <2> DEFINE used == {p \in S : standing[p].pct = l - 1}
  <2>2. s \in Seq(Providers) /\ used \subseteq S
    BY DEF ProviderList
  <2>3. level(l) = Those(s, used)
    OBVIOUS
  <2> HIDE DEF used, level
  <2>4. Those(s, used) \in Seq(Providers) /\ ToSet(Those(s, used)) = ToSet(s) \cap used
    BY <2>2, ThoseKept
  <2>. QED
    BY <2>2, <2>3, <2>4
<1> HIDE DEF level
<1>2. levels \in Seq(Seq(Providers)) /\ DOMAIN levels = 1..(MaxPct + 1)
  BY <1>1 DEF MaxPct
<1>3. \A l \in DOMAIN levels : levels[l] = level(l)
  OBVIOUS
<1>4. ByUse(s, S, standing) = FlattenSeq(levels)
  BY DEF ByUse, level
<1> HIDE DEF levels
<1>5. FlattenSeq(levels) \in Seq(Providers)
  BY <1>2, FlattenedHolds
<1>6. ASSUME NEW p \in ToSet(FlattenSeq(levels)) PROVE p \in ToSet(s) \cap S
  <2>1. Holds(FlattenSeq(levels), p)
    BY DEF Holds, ToSet
  <2>2. PICK l \in DOMAIN levels : Holds(levels[l], p)
    BY <1>2, <2>1, FlattenedHolds
  <2>3. p \in ToSet(level(l))
    BY <1>3, <2>2 DEF Holds, ToSet
  <2>. QED
    BY <1>1, <1>2, <2>3
<1>. QED
  BY <1>4, <1>5, <1>6 DEF ProviderList

\* The filter admits candidates only, and none whose circuit it has read as open.
LEMMA FilterAdmits ==
  ASSUME NEW s \in ProviderList, NEW standing
  PROVE  /\ FilterAvailable(s, standing) \in ProviderList
         /\ \A p \in ToSet(FilterAvailable(s, standing)) : p \in ToSet(s) /\ StateRead(p) # "open"
PROOF
<1> DEFINE Standing(how) ==
             {p \in Providers : StateRead(p) # "open" /\ standing[p].exhausted = how}
           first == ByUse(s, Standing("no"), standing)
           last == ByUse(s, Standing("fallback_only"), standing)
<1>1. ASSUME NEW how
      PROVE  /\ ByUse(s, Standing(how), standing) \in Seq(Providers)
             /\ \A p \in ToSet(ByUse(s, Standing(how), standing)) :
                  p \in ToSet(s) /\ StateRead(p) # "open"
  <2>1. \A p \in Standing(how) : StateRead(p) # "open"
    OBVIOUS
  <2> HIDE DEF Standing
  <2>2. /\ ByUse(s, Standing(how), standing) \in ProviderList
        /\ ToSet(ByUse(s, Standing(how), standing)) \subseteq ToSet(s) \cap Standing(how)
    BY ByUseKept
  <2>. QED
    BY <2>1, <2>2 DEF ProviderList
<1>2. FilterAvailable(s, standing) = first \o last
  BY DEF FilterAvailable
<1>3. /\ first \in Seq(Providers) /\ last \in Seq(Providers)
      /\ \A p \in ToSet(first) \cup ToSet(last) : p \in ToSet(s) /\ StateRead(p) # "open"
  BY <1>1
<1> HIDE DEF first, last
<1>4. ToSet(first \o last) \subseteq ToSet(first) \cup ToSet(last)
  <2>1. ASSUME NEW p \in ToSet(first \o last) PROVE p \in ToSet(first) \cup ToSet(last)
    <3>1. Holds(first \o last, p)
      BY DEF Holds, ToSet
    <3>2. Holds(first, p) \/ Holds(last, p)
      BY <1>3, <3>1, Concatenated
    <3>. QED
      BY <3>2 DEF Holds, ToSet
  <2>. QED
    BY <2>1
<1>5. first \o last \in Seq(Providers)
  BY <1>3
<1>. QED
  BY <1>2, <1>3, <1>4, <1>5 DEF ProviderList

-------------------------------------------------------------------------------
(* The steps                                                                   *)

LEMMA BecomesGood ==
  ASSUME WalkInv, NEW r \in Requests, NEW q, GoodRequest(q), req' = [req EXCEPT ![r] = q]
  PROVE  WalkInv'
PROOF
<1>1. DOMAIN req' = Requests /\ req'[r] = q /\ \A x \in Requests \ {r} : req'[x] = req[x]
  BY DEF WalkInv
<1>2. \A x \in Requests : req'[x] = q \/ req'[x] = req[x]
  BY <1>1
<1>3. \A x \in Requests : GoodRequest(req'[x])
  BY <1>2 DEF WalkInv
<1>4. req' \in [Requests -> RequestRecord]
  BY DEF WalkInv, GoodRequest
<1>. QED
  BY <1>3, <1>4 DEF WalkInv, GoodRequest, Walking, Exhausted, Current, Budget, Reach, Ahead

LEMMA IdleGood ==
  /\ GoodRequest(Idle)
  /\ \A kind \in {"search", "extract"}, s \in ProviderList :
       GoodRequest([Idle EXCEPT !.pc = "queued", !.kind = kind, !.cands = s])
PROOF
<1>1. /\ Idle \in RequestRecord /\ Idle.pc = "idle" /\ Idle.idx = 1 /\ Idle.admitted = << >>
      /\ Idle.failed = {} /\ Idle.cookies = FALSE
  BY DEF Idle, RequestRecord, ProviderList, Ended
<1>2. ASSUME NEW kind \in {"search", "extract"}, NEW s \in ProviderList
      PROVE  GoodRequest([Idle EXCEPT !.pc = "queued", !.kind = kind, !.cands = s])
  <2> DEFINE q == [Idle EXCEPT !.pc = "queued", !.kind = kind, !.cands = s]
  <2>1. /\ q \in RequestRecord /\ q.pc = "queued" /\ q.idx = 1 /\ q.failed = {} /\ q.cookies = FALSE
    BY <1>1 DEF Idle, RequestRecord
  <2> HIDE DEF q
  <2>2. q.idx <= Budget(q) + IF q.pc = "crashed" THEN 1 ELSE 0
    BY <2>1, BudgetTyped
  <2>3. GoodRequest(q)
    BY <2>1, <2>2 DEF GoodRequest, Suspended
  <2>. QED
    BY <2>3 DEF q
<1>3. Idle.idx <= Budget(Idle) + IF Idle.pc = "crashed" THEN 1 ELSE 0
  BY <1>1, BudgetTyped
<1>4. GoodRequest(Idle)
  BY <1>1, <1>3 DEF GoodRequest, Suspended
<1>. QED
  BY <1>2, <1>4

LEMMA ArriveGood ==
  ASSUME WalkInv, NEW r \in Requests, Arrive(r)
  PROVE  WalkInv'
PROOF
<1>1. PICK route \in Routes :
        req' = [req EXCEPT ![r] = [Idle EXCEPT !.pc = "queued", !.kind = route.kind,
                                               !.cands = Candidates(route)]]
  BY DEF Arrive
<1>2. route.kind \in {"search", "extract"} /\ Candidates(route) \in ProviderList
  BY CandidatesTyped, FallbackAssumption
<1>. QED
  BY <1>1, <1>2, IdleGood, BecomesGood

LEMMA BeginGood ==
  ASSUME WalkInv, NEW r \in Requests, req[r].pc = "queued", Begin(r)
  PROVE  WalkInv'
PROOF
<1>1. PICK standing \in Standings :
        LET s == FilterAvailable(req[r].cands, standing)
            q == [req[r] EXCEPT !.admitted = s]
            q2 == IF s = << >> THEN [q EXCEPT !.pc = "failed"] ELSE Try(q, s, 1)
        IN req' = [req EXCEPT ![r] = q2]
  BY DEF Begin
<1> DEFINE s == FilterAvailable(req[r].cands, standing)
           q == [req[r] EXCEPT !.admitted = s]
           q2 == IF s = << >> THEN [q EXCEPT !.pc = "failed"] ELSE Try(q, s, 1)
<1>2. req' = [req EXCEPT ![r] = q2]
  BY <1>1
<1>3. /\ req[r] \in RequestRecord /\ req[r].cands \in ProviderList
      /\ req[r].failed = {} /\ req[r].cookies = FALSE /\ req[r].idx = 1
  BY DEF WalkInv, GoodRequest, RequestRecord
<1>4. s \in ProviderList
  BY <1>3, FilterAdmits
<1> HIDE DEF s
<1>5. /\ q \in RequestRecord /\ q.failed = {} /\ q.cookies = FALSE /\ q.idx = 1 /\ q.admitted = s
  BY <1>3, <1>4 DEF RequestRecord
<1>6. GoodRequest(q2)
  <2>1. CASE s = << >>
    <3> DEFINE t == [q EXCEPT !.pc = "failed"]
    <3>1. t \in RequestRecord /\ t.pc = "failed" /\ t.idx = 1 /\ t.admitted = << >>
      BY <1>5, <2>1 DEF RequestRecord, Ended
    <3> HIDE DEF t
    <3>2. t.idx <= Budget(t) + IF t.pc = "crashed" THEN 1 ELSE 0
      BY <3>1, BudgetTyped
    <3>3. ToSet(<< >>) = {}
      BY DEF ToSet
    <3>4. GoodRequest(t)
      BY <3>1, <3>2, <3>3 DEF GoodRequest, Suspended, Exhausted
    <3>. QED
      BY <2>1, <3>4 DEF t
  <2>2. CASE s # << >>
    <3>1. 1 \in 1..Len(s)
      BY <1>4, <2>2 DEF ProviderList
    <3>2. Reach(s, 1, {}, FALSE) <= 2 * Len(s) + Cardinality(Registered) + 3
      BY <1>4, <2>2, ReachAtFirst
    <3>3. Reach(s, 1, {}, FALSE) <= Budget(q) + 1
      <4>1. Len(s) \in Nat /\ Cardinality(Registered) \in Nat
        BY <1>4, FallbackAssumption, FS_CardinalityType DEF ProviderList
      <4>2. Budget(q) = 2 * Len(s) + Cardinality(Registered) + 2
        BY <1>5 DEF Budget
      <4>3. 2 * Len(s) + Cardinality(Registered) + 3 = Budget(q) + 1
        BY <4>1, <4>2
      <4>. QED
        BY <3>2, <4>3
    <3> HIDE DEF q
    <3>4. GoodRequest(Try(q, s, 1))
      BY <1>4, <1>5, <3>1, <3>3, TurnedTo
    <3>. QED
      BY <2>2, <3>4
  <2>. QED
    BY <2>1, <2>2
<1> HIDE DEF q2
<1>. QED
  BY <1>2, <1>6, BecomesGood

\* Each answer of a provider.
LEMMA AnsweredGood ==
  ASSUME WalkInv, NEW r \in Requests, Answered(r)
  PROVE  WalkInv'
PROOF
<1> DEFINE q == req[r]
<1>1. q.pc = "calling" /\ GoodRequest(q)
  BY DEF Answered, Accepted, Solved, LowQuality, BlockedWithCookies, Blocked, Rejected, Errored, Calling, WalkInv
<1>2. /\ q \in RequestRecord /\ Walking(q) /\ Current(q) \in Registered /\ q.idx <= Budget(q)
  BY <1>1, BudgetTyped DEF GoodRequest, Suspended, RequestRecord
<1>3. /\ q.cands \in ProviderList /\ q.idx \in Nat \ {0} /\ q.idx <= Len(q.cands) /\ q.idx \in 1..Len(q.cands)
      /\ q.cookies \in BOOLEAN /\ q.failed \in SUBSET Providers /\ Current(q) \in Providers
      /\ q.browser \in Providers \cup {NoOne}
      /\ ToSet(q.admitted) \subseteq ToSet(q.cands) /\ q.failed \subseteq ToSet(q.cands)
      /\ Reach(q.cands, q.idx, q.failed, q.cookies) <= Budget(q) + 1
      /\ Current(q) = q.cands[q.idx]
  <2>1. q.cands \in ProviderList /\ q.idx \in Nat \ {0} /\ q.idx <= Len(q.cands) /\ Len(q.cands) \in Nat
    BY <1>2 DEF RequestRecord, ProviderList, Walking
  <2>. QED
    BY <1>2, <2>1, FallbackAssumption DEF RequestRecord, Walking, Current
<1> HIDE DEF q
<1>4. ASSUME NEW t, Becomes(r, t), GoodRequest(t) PROVE WalkInv'
  BY <1>4, BecomesGood DEF Becomes
\* The request ends with an answer or an exception where it is.
<1>5. ASSUME NEW t \in RequestRecord, t.pc \in {"served", "crashed"},
             t.idx = q.idx, t.admitted = q.admitted
      PROVE  GoodRequest(t)
  <2>1. Budget(t) = Budget(q) /\ Budget(q) \in Nat
    BY <1>2, <1>5, BudgetTyped DEF Budget
  <2>. QED
    BY <1>2, <1>3, <1>5, <2>1 DEF GoodRequest, Suspended
<1>6. CASE Accepted(r)
  <2> DEFINE t == [q EXCEPT !.pc = "served"]
  <2>1. t \in RequestRecord /\ t.pc = "served" /\ t.idx = q.idx /\ t.admitted = q.admitted
    BY <1>2 DEF RequestRecord, Ended
  <2>2. Becomes(r, t)
    BY <1>6 DEF Accepted, q
  <2> HIDE DEF t
  <2>. QED
    BY <1>4, <1>5, <2>1, <2>2
<1>7. CASE Solved(r)
  <2> DEFINE c == IF q.browser = NoOne THEN q.cands ELSE InsertCandidate(q.cands, q.browser, q.idx)
             t == [q EXCEPT !.pc = "crashed"]
             u == [q EXCEPT !.pc = "served", !.cookies = TRUE, !.cands = c]
  <2>1. Becomes(r, t) \/ Becomes(r, u)
    BY <1>7 DEF Solved, q
  <2>2. c \in ProviderList
    BY <1>3, Inserted
  <2> HIDE DEF c
  <2>3. t \in RequestRecord /\ t.pc = "crashed" /\ t.idx = q.idx /\ t.admitted = q.admitted
    BY <1>2 DEF RequestRecord, Ended
  <2>4. u \in RequestRecord /\ u.pc = "served" /\ u.idx = q.idx /\ u.admitted = q.admitted
    BY <1>2, <2>2 DEF RequestRecord, Ended
  <2> HIDE DEF t, u
  <2>. QED
    BY <1>4, <1>5, <2>1, <2>3, <2>4
<1>8. CASE LowQuality(r)
  <2>1. GoodRequest(NextOr(q, q.cands, "poor"))
    BY <1>2, <1>3, TurnedNext
  <2>. QED
    BY <1>4, <1>8, <2>1 DEF LowQuality, Rejected, q
<1>9. CASE BlockedWithCookies(r)
  <2> DEFINE browser == IF q.browser = NoOne THEN Current(q) ELSE q.browser
             t == [q EXCEPT !.browser = browser, !.cookies = TRUE]
             s == InsertCandidate(q.cands, browser, q.idx)
  <2>1. Becomes(r, NextOr(t, s, "poor"))
    BY <1>9 DEF BlockedWithCookies, Rejected, q
  <2>2. q.cookies = FALSE
    BY <1>3, <1>9 DEF BlockedWithCookies, HasCookies, q
  <2>3. browser \in Providers
    BY <1>3
  <2> HIDE DEF browser
  <2>4. /\ t \in RequestRecord /\ t.idx = q.idx /\ t.failed = q.failed /\ t.admitted = q.admitted
        /\ t.cookies = TRUE /\ t.cands = q.cands
    BY <1>2, <2>3 DEF RequestRecord
  <2>5. s \in ProviderList /\ q.idx < Len(s) /\ ToSet(q.cands) \subseteq ToSet(s)
    BY <1>3, <2>3, Inserted
  <2>6. Reach(s, q.idx + 1, q.failed, TRUE) <= Reach(q.cands, q.idx, q.failed, FALSE)
    BY <1>3, <2>3, ReachRetried
  <2> HIDE DEF t, s
  <2>7. q.idx + 1 \in 1..Len(s)
    BY <1>3, <2>5 DEF ProviderList
  <2>8. Reach(s, q.idx + 1, q.failed, TRUE) \in Int /\ Reach(q.cands, q.idx, q.failed, FALSE) \in Int
    BY <1>3, <2>5, <2>7, ReachToEnd
  <2>9. Budget(t) = Budget(q) /\ Budget(q) \in Nat
    BY <1>2, <2>4, BudgetTyped DEF Budget
  <2>10. Reach(s, t.idx + 1, t.failed, t.cookies) <= Budget(t) + 1
    <3>1. Reach(q.cands, q.idx, q.failed, FALSE) <= Budget(q) + 1
      BY <1>3, <2>2
    <3>2. Reach(s, t.idx + 1, t.failed, t.cookies) = Reach(s, q.idx + 1, q.failed, TRUE)
      BY <2>4
    <3> DEFINE ahead == Reach(s, q.idx + 1, q.failed, TRUE)
               was == Reach(q.cands, q.idx, q.failed, FALSE)
               budget == Budget(q)
    <3>3. ahead \in Int /\ was \in Int /\ budget \in Int
      <4>1. ahead \in Int
        BY <2>8
      <4>2. was \in Int
        BY <2>8
      <4>3. budget \in Int
        BY <2>9
      <4>. QED
        BY <4>1, <4>2, <4>3
    <3>4. ahead <= was /\ was <= budget + 1
      BY <2>6, <3>1
    <3> HIDE DEF ahead, was, budget
    <3>5. ahead <= budget + 1
      BY <3>3, <3>4
    <3>. QED
      BY <2>9, <3>2, <3>5 DEF ahead, budget
  <2>11. GoodRequest(Try(t, s, t.idx + 1))
    BY <1>3, <2>4, <2>5, <2>7, <2>10, TurnedTo
  <2>12. NextOr(t, s, "poor") = Try(t, s, t.idx + 1)
    BY <2>4, <2>5 DEF NextOr
  <2>. QED
    BY <1>4, <2>1, <2>11, <2>12
<1>10. CASE Blocked(r)
  <2> DEFINE t == IF q.browser = NoOne /\ Current(q) # FlareSolverr
                  THEN [q EXCEPT !.browser = Current(q)] ELSE q
             s == WithSolvers(q.cands)
  <2>1. Becomes(r, NextOr(t, s, "poor"))
    BY <1>10 DEF Blocked, Rejected, q
  <2>2. /\ t \in RequestRecord /\ t.idx = q.idx /\ t.failed = q.failed /\ t.admitted = q.admitted
        /\ t.cookies = q.cookies /\ t.cands = q.cands
    BY <1>2, <1>3 DEF RequestRecord
  <2>3. s \in ProviderList /\ ToSet(q.cands) \subseteq ToSet(s)
    BY <1>3, SolversAdded
  <2>4. Len(q.cands) <= Len(s)
    <3> DEFINE new == {FlareSolverr, InvisiblePlaywright} \cap (Registered \ ToSet(q.cands))
    <3>1. Len(s) = Len(q.cands) + Cardinality(new)
      BY <1>3, SolversAdded
    <3>2. IsFiniteSet(new)
      BY FallbackAssumption, FS_Subset
    <3> HIDE DEF new, s
    <3>. QED
      BY <1>3, <3>1, <3>2, FS_CardinalityType DEF ProviderList
  <2>5. Reach(s, q.idx, q.failed, q.cookies) <= Reach(q.cands, q.idx, q.failed, q.cookies)
    BY <1>3, ReachExtended
  <2> HIDE DEF t, s
  <2>6. q.idx \in 1..Len(s) /\ q.idx <= Len(s)
    BY <1>3, <2>3, <2>4 DEF ProviderList
  <2>7. Reach(s, q.idx, q.failed, q.cookies) \in Int /\ Reach(q.cands, q.idx, q.failed, q.cookies) \in Int
    BY <1>3, <2>3, <2>6, ReachToEnd
  <2>8. Budget(t) = Budget(q) /\ Budget(q) \in Nat
    BY <1>2, <2>2, BudgetTyped DEF Budget
  <2>9. Reach(s, t.idx, t.failed, t.cookies) <= Budget(t) + 1
    BY <1>3, <2>2, <2>5, <2>7, <2>8
  <2>10. GoodRequest(NextOr(t, s, "poor"))
    BY <1>2, <1>3, <2>2, <2>3, <2>6, <2>8, <2>9, TurnedNext
  <2>. QED
    BY <1>4, <2>1, <2>10
<1>11. ASSUME NEW e \in ErrorClasses, Errored(r, e) PROVE WalkInv'
  <2> DEFINE t == [q EXCEPT !.failed = @ \cup {Current(q)}]
             judged == [t EXCEPT !.pc = "judging"]
             u == IF ErrorRule[e] \subseteq t.failed /\ e \in JudgedErrors
                  THEN judged ELSE AfterError(t, ErrorRule[e])
  <2>1. Becomes(r, u)
    BY <1>11 DEF Errored, q
  <2>2. /\ t \in RequestRecord /\ t.idx = q.idx /\ t.failed = q.failed \cup {Current(q)}
        /\ t.admitted = q.admitted /\ t.cookies = q.cookies /\ t.cands = q.cands
    BY <1>2, <1>3 DEF RequestRecord
  <2> HIDE DEF t
  <2>3. Reach(q.cands, q.idx, q.failed \cup {Current(q)}, q.cookies)
          <= Reach(q.cands, q.idx, q.failed, q.cookies)
    BY <1>2, <1>3, ReachFailed
  <2>4. /\ Reach(q.cands, q.idx, q.failed \cup {Current(q)}, q.cookies) \in Int
        /\ Reach(q.cands, q.idx, q.failed, q.cookies) \in Int
    BY <1>3, ReachToEnd
  <2>5. Budget(t) = Budget(q) /\ Budget(q) \in Nat
    BY <1>2, <2>2, BudgetTyped DEF Budget
  <2>6. Walking(t) /\ Current(t) \in t.failed /\ t.idx <= Budget(t)
    <3>1. Current(q) \in ToSet(q.cands)
      BY <1>3 DEF ToSet, ProviderList
    <3>2. Reach(t.cands, t.idx, t.failed, t.cookies) <= Budget(t) + 1
      BY <1>3, <2>2, <2>3, <2>4, <2>5
    <3>. QED
      BY <1>2, <1>3, <2>2, <2>5, <3>1, <3>2 DEF Walking, Current
  <2>7. GoodRequest(judged)
    <3>1. /\ judged \in RequestRecord /\ judged.pc = "judging" /\ judged.idx = t.idx
          /\ judged.failed = t.failed /\ judged.admitted = t.admitted
          /\ judged.cookies = t.cookies /\ judged.cands = t.cands
      BY <2>2 DEF RequestRecord, Suspended
    <3> HIDE DEF judged
    <3>2. Budget(judged) = Budget(t) /\ Walking(judged) /\ Current(judged) \in judged.failed
      BY <2>6, <3>1 DEF Budget, Walking, Current
    <3>3. judged.idx <= Budget(judged) + IF judged.pc = "crashed" THEN 1 ELSE 0
      BY <1>3, <2>2, <2>5, <2>6, <3>1, <3>2
    <3>. QED
      BY <3>1, <3>2, <3>3 DEF GoodRequest
  <2>8. GoodRequest(AfterError(t, ErrorRule[e]))
    BY <2>2, <2>6, TurnedAway, FallbackAssumption
  <2> HIDE DEF judged
  <2>9. GoodRequest(u)
    BY <2>7, <2>8
  <2>. QED
    BY <1>4, <2>1, <2>9
<1>. QED
  BY <1>6, <1>7, <1>8, <1>9, <1>10, <1>11 DEF Answered

LEMMA JudgedGood ==
  ASSUME WalkInv, NEW r \in Requests, Judged(r)
  PROVE  WalkInv'
PROOF
<1>1. PICK verdict \in {{}} \cup {{p} : p \in Registered} : Becomes(r, AfterError(req[r], verdict))
  BY DEF Judged
<1>2. req[r].pc = "judging" /\ GoodRequest(req[r])
  BY DEF Judged, WalkInv
<1>3. /\ req[r] \in RequestRecord /\ Walking(req[r]) /\ Current(req[r]) \in req[r].failed
      /\ req[r].idx <= Budget(req[r])
  BY <1>2, BudgetTyped DEF GoodRequest, Suspended, RequestRecord
<1>4. verdict \in SUBSET Providers
  BY FallbackAssumption
<1>5. GoodRequest(AfterError(req[r], verdict))
  BY <1>3, <1>4, TurnedAway
<1>. QED
  BY <1>1, <1>5, BecomesGood DEF Becomes

LEMMA WalkRestarted ==
  ASSUME req' = [r \in Requests |-> Idle]
  PROVE  WalkInv'
PROOF
<1>1. DOMAIN req' = Requests /\ \A r \in Requests : req'[r] = Idle
  OBVIOUS
<1>2. \A r \in Requests : GoodRequest(req'[r])
  BY <1>1, IdleGood
<1>3. req' \in [Requests -> RequestRecord]
  BY IdleGood DEF GoodRequest
<1>. QED
  BY <1>2, <1>3 DEF WalkInv, GoodRequest, Walking, Exhausted, Current, Budget, Reach, Ahead

LEMMA InitWalk == Init => WalkInv
PROOF
<1> SUFFICES ASSUME Init PROVE WalkInv
  OBVIOUS
<1>1. DOMAIN req = Requests /\ \A r \in Requests : req[r] = Idle
  BY DEF Init
<1>2. req \in [Requests -> RequestRecord]
  BY IdleGood DEF Init, GoodRequest
<1>. QED
  BY <1>1, <1>2, IdleGood DEF WalkInv

LEMMA HeadWaits ==
  ASSUME PermitInv, NEW r \in Requests, Begin(r)
  PROVE  req[r].pc = "queued"
PROOF
<1>1. queue \in Seq(Requests) /\ queue # << >> /\ Head(queue) = r
  BY DEF Begin, PermitInv, QueueWaits
<1>2. 1 \in 1..Len(queue) /\ queue[1] = r
  BY <1>1
<1>. QED
  BY <1>2 DEF PermitInv, QueueWaits

LEMMA StepWalk == PermitInv /\ WalkInv /\ [Next]_vars => WalkInv'
PROOF
<1> SUFFICES ASSUME PermitInv, WalkInv, [Next]_vars PROVE WalkInv'
  OBVIOUS
<1>1. ASSUME UNCHANGED req PROVE WalkInv'
  <2>1. req' \in [Requests -> RequestRecord] /\ \A r \in Requests : GoodRequest(req'[r])
    BY <1>1 DEF WalkInv
  <2>. QED
    BY <2>1 DEF WalkInv, GoodRequest, Walking, Exhausted, Current, Budget, Reach, Ahead
<1>2. CASE UNCHANGED vars
  BY <1>1, <1>2 DEF vars, requestVars
<1>3. ASSUME NEW r \in Requests, Arrive(r) \/ Step(r) PROVE WalkInv'
  BY <1>3, ArriveGood, HeadWaits, BeginGood, AnsweredGood, JudgedGood DEF Step
<1>4. CASE Environment
  BY <1>1, <1>4 DEF Environment, requestVars
<1>5. CASE GatewayRestart
  BY <1>5, WalkRestarted DEF GatewayRestart
<1>. QED
  BY <1>2, <1>3, <1>4, <1>5 DEF Next

LEMMA WalkHolds == Spec => [](PermitInv /\ WalkInv)
PROOF
<1>1. Init => PermitInv /\ WalkInv
  BY InitPermits, InitWalk
<1>2. (PermitInv /\ WalkInv) /\ [Next]_vars => (PermitInv /\ WalkInv)'
  BY StepPermits, StepWalk
<1>. QED
  BY <1>1, <1>2, PTL DEF Spec

\* Redirects, solvers and cookie retries rewrite the list a request is walking, for
\* any chain, error rule and verdict, and none of them drops a candidate it was
\* admitted to: it fails only after it has turned to every one of them.
THEOREM FailuresExhaust == Spec => []FailsOnlyExhausted
PROOF
<1>. QED
  BY WalkHolds, WalkInvSuffices, PTL

\* The walk ends, whatever the list, the providers' answers and the judge do: the
\* calls of a request are at most twice the candidates it was admitted to, one per
\* registered provider and two.
THEOREM CallsAreBounded == Spec => []CallBudget
PROOF
<1>. QED
  BY WalkHolds, WalkInvSuffices, PTL

-------------------------------------------------------------------------------
(* A provider that has failed                                                  *)

\* The step of one request from q to t calls no provider that had failed it, but the
\* next in its list or once cookies have come in.
Spares(q, t) ==
  (t.pc = "calling" /\ (q.pc # "calling" \/ t.idx # q.idx) /\ Current(t) \in q.failed) =>
    (t.cookies \/ IsNext(q, Current(t)))

NoRetryStep ==
  \A r \in Requests :
    (Calls(r) /\ Current(req'[r]) \in req[r].failed) =>
      (req'[r].cookies \/ IsNext(req[r], Current(req'[r])))

LEMMA OneSpared ==
  ASSUME WalkInv, NEW r \in Requests, NEW t, req' = [req EXCEPT ![r] = t], Spares(req[r], t)
  PROVE  NoRetryStep
PROOF
<1>1. req'[r] = t /\ \A x \in Requests \ {r} : req'[x] = req[x]
  BY DEF WalkInv
<1>2. ASSUME NEW x \in Requests, Calls(x), Current(req'[x]) \in req[x].failed
      PROVE  req'[x].cookies \/ IsNext(req[x], Current(req'[x]))
  <2>1. CASE x = r
    <3>1. t.pc = "calling" /\ (req[r].pc # "calling" \/ t.idx # req[r].idx) /\ Current(t) \in req[r].failed
      BY <1>1, <1>2, <2>1 DEF Calls
    <3>2. t.cookies \/ IsNext(req[r], Current(t))
      BY <3>1 DEF Spares
    <3>. QED
      BY <1>1, <2>1, <3>2
  <2>2. CASE x # r
    BY <1>1, <1>2, <2>2 DEF Calls
  <2>. QED
    BY <2>1, <2>2
<1>. QED
  BY <1>2 DEF NoRetryStep

\* Going on in the list q was walking, of which s keeps what is ahead.
LEMMA NextSpares ==
  ASSUME NEW q \in RequestRecord, Walking(q),
         NEW u \in RequestRecord, u.idx = q.idx,
         NEW s \in ProviderList, q.idx <= Len(s),
         q.idx < Len(s) => IsNext(q, s[q.idx + 1]) \/ s[q.idx + 1] \notin q.failed,
         NEW end \in {"failed", "poor"}
  PROVE  Spares(q, NextOr(u, s, end))
PROOF
<1>1. CASE q.idx < Len(s)
  <2> DEFINE t == Try(u, s, q.idx + 1)
  <2>1. t.cands = s /\ t.idx = q.idx + 1
    BY DEF Try, RequestRecord
  <2>2. Current(t) = s[q.idx + 1]
    BY <2>1 DEF Current
  <2>3. NextOr(u, s, end) = t
    BY <1>1 DEF NextOr
  <2> HIDE DEF t
  <2>. QED
    BY <1>1, <2>2, <2>3 DEF Spares
<1>2. CASE ~(q.idx < Len(s))
  <2>1. NextOr(u, s, end) = [u EXCEPT !.cands = s, !.pc = end]
    BY <1>2 DEF NextOr
  <2>2. [u EXCEPT !.cands = s, !.pc = end].pc # "calling"
    BY DEF RequestRecord
  <2>. QED
    BY <2>1, <2>2 DEF Spares
<1>. QED
  BY <1>1, <1>2

LEMMA AfterErrorSpares ==
  ASSUME NEW q \in RequestRecord, Walking(q),
         NEW u \in RequestRecord, u.idx = q.idx, u.cands = q.cands, q.failed \subseteq u.failed,
         NEW choice \in SUBSET Providers
  PROVE  Spares(q, AfterError(u, choice))
PROOF
<1> DEFINE redirects == choice \ u.failed
           name == CHOOSE p \in redirects : TRUE
           s == InsertCandidate(u.cands, name, u.idx)
<1>1. q.cands \in ProviderList /\ q.idx \in 1..Len(q.cands) /\ q.idx \in Nat /\ q.idx <= Len(q.cands)
  BY DEF RequestRecord, ProviderList, Walking
<1>2. CASE redirects = {}
  <2>1. q.idx < Len(q.cands) => IsNext(q, q.cands[q.idx + 1])
    BY DEF IsNext
  <2>2. Spares(q, NextOr(u, q.cands, "failed"))
    BY <1>1, <2>1, NextSpares
  <2>. QED
    BY <1>2, <2>2 DEF AfterError
<1>3. CASE redirects # {}
  <2>1. name \in redirects
    BY <1>3
  <2>2. name \in Providers /\ name \notin q.failed
    BY <2>1
  <2> HIDE DEF name
  <2>3. s[q.idx + 1] = name
    BY <1>1, <2>2, Inserted
  <2> HIDE DEF s
  <2> DEFINE t == Try(u, s, u.idx + 1)
  <2>4. t.cands = s /\ t.idx = q.idx + 1
    BY DEF Try, RequestRecord
  <2>5. Current(t) = name
    BY <2>3, <2>4 DEF Current
  <2>6. AfterError(u, choice) = t
    BY <1>3 DEF AfterError, s, name
  <2> HIDE DEF t
  <2>. QED
    BY <2>2, <2>5, <2>6 DEF Spares
<1>. QED
  BY <1>2, <1>3

LEMMA AnsweredSpares ==
  ASSUME WalkInv, NEW r \in Requests, Answered(r)
  PROVE  NoRetryStep
PROOF
<1> DEFINE q == req[r]
<1>1. q.pc = "calling" /\ GoodRequest(q)
  BY DEF Answered, Accepted, Solved, LowQuality, BlockedWithCookies, Blocked, Rejected, Errored, Calling, WalkInv
<1>2. q \in RequestRecord /\ Walking(q)
  BY <1>1 DEF GoodRequest, Suspended
<1>3. /\ q.cands \in ProviderList /\ q.idx \in Nat \ {0} /\ q.idx <= Len(q.cands) /\ Len(q.cands) \in Nat
      /\ q.idx \in 1..Len(q.cands) /\ Current(q) = q.cands[q.idx]
      /\ q.browser \in Providers \cup {NoOne} /\ q.failed \in SUBSET Providers
      /\ q.failed \subseteq ToSet(q.cands)
  <2>1. q.cands \in ProviderList /\ q.idx \in Nat \ {0} /\ q.idx <= Len(q.cands) /\ Len(q.cands) \in Nat
    BY <1>2 DEF RequestRecord, ProviderList, Walking
  <2>. QED
    BY <1>2, <2>1 DEF RequestRecord, Walking, Current
<1>4. Current(q) \in Providers
  BY <1>1, FallbackAssumption DEF GoodRequest
<1> HIDE DEF q
<1>5. ASSUME NEW t, Becomes(r, t), Spares(q, t) PROVE NoRetryStep
  BY <1>5, OneSpared DEF Becomes, q
<1>6. CASE Accepted(r)
  <2> DEFINE t == [q EXCEPT !.pc = "served"]
  <2>1. Becomes(r, t) /\ t.pc # "calling"
    BY <1>2, <1>6 DEF Accepted, q, RequestRecord
  <2> HIDE DEF t
  <2>. QED
    BY <1>5, <2>1 DEF Spares
<1>7. CASE Solved(r)
  <2> DEFINE c == IF q.browser = NoOne THEN q.cands ELSE InsertCandidate(q.cands, q.browser, q.idx)
             t == [q EXCEPT !.pc = "crashed"]
             u == [q EXCEPT !.pc = "served", !.cookies = TRUE, !.cands = c]
  <2>1. Becomes(r, t) \/ Becomes(r, u)
    BY <1>7 DEF Solved, q
  <2> HIDE DEF c
  <2>2. t.pc # "calling" /\ u.pc # "calling"
    BY <1>2 DEF RequestRecord
  <2> HIDE DEF t, u
  <2>. QED
    BY <1>5, <2>1, <2>2 DEF Spares
<1>8. CASE LowQuality(r)
  <2>1. q.idx < Len(q.cands) => IsNext(q, q.cands[q.idx + 1])
    BY DEF IsNext
  <2>2. Spares(q, NextOr(q, q.cands, "poor"))
    BY <1>2, <1>3, <2>1, NextSpares
  <2>. QED
    BY <1>5, <1>8, <2>2 DEF LowQuality, Rejected, q
<1>9. CASE BlockedWithCookies(r)
  <2> DEFINE browser == IF q.browser = NoOne THEN Current(q) ELSE q.browser
             u == [q EXCEPT !.browser = browser, !.cookies = TRUE]
             s == InsertCandidate(q.cands, browser, q.idx)
             t == NextOr(u, s, "poor")
  <2>1. Becomes(r, t)
    BY <1>9 DEF BlockedWithCookies, Rejected, q
  <2>2. browser \in Providers
    BY <1>3, <1>4
  <2> HIDE DEF browser, s
  <2>3. u \in RequestRecord /\ u.cookies = TRUE
    BY <1>2, <2>2 DEF RequestRecord
  <2> HIDE DEF u
  <2>4. t.cookies = TRUE
    BY <2>3 DEF NextOr, Try, RequestRecord
  <2> HIDE DEF t
  <2>. QED
    BY <1>5, <2>1, <2>4 DEF Spares
<1>10. CASE Blocked(r)
  <2> DEFINE u == IF q.browser = NoOne /\ Current(q) # FlareSolverr
                  THEN [q EXCEPT !.browser = Current(q)] ELSE q
             new == {FlareSolverr, InvisiblePlaywright} \cap (Registered \ ToSet(q.cands))
             s == WithSolvers(q.cands)
  <2>1. Becomes(r, NextOr(u, s, "poor"))
    BY <1>10 DEF Blocked, Rejected, q
  <2>2. u \in RequestRecord /\ u.idx = q.idx
    BY <1>2, <1>4 DEF RequestRecord
  <2> HIDE DEF u
  <2>3. /\ s \in ProviderList /\ Len(s) = Len(q.cands) + Cardinality(new)
        /\ \A j \in 1..Len(q.cands) : s[j] = q.cands[j]
        /\ \A j \in 1..Len(s) : j > Len(q.cands) => s[j] \in new
    BY <1>3, SolversAdded
  <2>4. IsFiniteSet(new)
    BY FallbackAssumption, FS_Subset
  <2>5. \A p \in new : p \notin q.failed
    BY <1>3
  <2> HIDE DEF new, s
  <2>6. Cardinality(new) \in Nat
    BY <2>4, FS_CardinalityType
  <2>7. q.idx <= Len(s) /\ Len(s) \in Nat
    BY <1>3, <2>3, <2>6
  <2>8. ASSUME q.idx < Len(s) PROVE IsNext(q, s[q.idx + 1]) \/ s[q.idx + 1] \notin q.failed
    <3>1. q.idx + 1 \in 1..Len(s)
      BY <1>3, <2>7, <2>8
    <3>2. CASE q.idx < Len(q.cands)
      <4>1. q.idx + 1 \in 1..Len(q.cands)
        BY <1>3, <3>2
      <4>. QED
        BY <2>3, <3>2, <4>1 DEF IsNext
    <3>3. CASE ~(q.idx < Len(q.cands))
      <4>1. q.idx + 1 > Len(q.cands)
        BY <1>3, <3>3
      <4>. QED
        BY <2>3, <2>5, <3>1, <4>1
    <3>. QED
      BY <3>2, <3>3
  <2>9. Spares(q, NextOr(u, s, "poor"))
    BY <1>2, <2>2, <2>3, <2>7, <2>8, NextSpares
  <2>. QED
    BY <1>5, <2>1, <2>9
<1>11. ASSUME NEW e \in ErrorClasses, Errored(r, e) PROVE NoRetryStep
  <2> DEFINE u == [q EXCEPT !.failed = @ \cup {Current(q)}]
             judged == [u EXCEPT !.pc = "judging"]
             t == IF ErrorRule[e] \subseteq u.failed /\ e \in JudgedErrors
                  THEN judged ELSE AfterError(u, ErrorRule[e])
  <2>1. Becomes(r, t)
    BY <1>11 DEF Errored, q
  <2>2. u \in RequestRecord /\ u.idx = q.idx /\ u.cands = q.cands /\ q.failed \subseteq u.failed
    BY <1>2, <1>4 DEF RequestRecord
  <2> HIDE DEF u
  <2>3. Spares(q, AfterError(u, ErrorRule[e]))
    BY <1>2, <2>2, AfterErrorSpares, FallbackAssumption
  <2>4. judged.pc # "calling"
    BY <2>2 DEF RequestRecord
  <2> HIDE DEF judged
  <2>5. Spares(q, judged)
    BY <2>4 DEF Spares
  <2>6. Spares(q, t)
    BY <2>3, <2>5
  <2>. QED
    BY <1>5, <2>1, <2>6
<1>. QED
  BY <1>6, <1>7, <1>8, <1>9, <1>10, <1>11 DEF Answered

LEMMA StepSpares == PermitInv /\ WalkInv /\ [Next]_vars => [NoRetryStep]_vars
PROOF
<1> SUFFICES ASSUME PermitInv, WalkInv, Next PROVE NoRetryStep
  OBVIOUS
<1>1. ASSUME UNCHANGED req PROVE NoRetryStep
  BY <1>1 DEF NoRetryStep, Calls
<1>2. ASSUME NEW r \in Requests, Arrive(r) PROVE NoRetryStep
  <2>1. PICK route \in Routes :
          req' = [req EXCEPT ![r] = [Idle EXCEPT !.pc = "queued", !.kind = route.kind,
                                                 !.cands = Candidates(route)]]
    BY <1>2 DEF Arrive
  <2> DEFINE t == [Idle EXCEPT !.pc = "queued", !.kind = route.kind, !.cands = Candidates(route)]
  <2>2. t.pc = "queued"
    BY DEF Idle
  <2>3. req' = [req EXCEPT ![r] = t]
    BY <2>1
  <2> HIDE DEF t
  <2>. QED
    BY <2>2, <2>3, OneSpared DEF Spares
<1>3. ASSUME NEW r \in Requests, Begin(r) PROVE NoRetryStep
  <2>1. req[r].failed = {}
    BY <1>3, HeadWaits DEF WalkInv, GoodRequest
  <2>2. \E t : req' = [req EXCEPT ![r] = t]
    BY <1>3 DEF Begin
  <2>. QED
    BY <2>1, <2>2, OneSpared DEF Spares
<1>4. ASSUME NEW r \in Requests, Judged(r) PROVE NoRetryStep
  <2>1. PICK verdict \in {{}} \cup {{p} : p \in Registered} : Becomes(r, AfterError(req[r], verdict))
    BY <1>4 DEF Judged
  <2>2. req[r] \in RequestRecord /\ Walking(req[r])
    BY <1>4 DEF Judged, WalkInv, GoodRequest, Suspended
  <2>3. Spares(req[r], AfterError(req[r], verdict))
    BY <2>2, AfterErrorSpares, FallbackAssumption
  <2>. QED
    BY <2>1, <2>3, OneSpared DEF Becomes
<1>5. CASE Environment
  BY <1>1, <1>5 DEF Environment, requestVars
<1>6. CASE GatewayRestart
  <2>1. \A r \in Requests : req'[r].pc = "idle"
    BY <1>6 DEF GatewayRestart, Idle
  <2>. QED
    BY <2>1 DEF NoRetryStep, Calls
<1>. QED
  BY <1>2, <1>3, <1>4, <1>5, <1>6, AnsweredSpares DEF Next, Step

\* For any error policy and any verdict of the retry judge, no request is sent back to
\* a provider whose error it has seen, but by the chain it was admitted with or after
\* the cookies of a solved challenge.
THEOREM FailedAreSpared == Spec => NoRetryAfterError
PROOF
<1>1. PermitInv /\ WalkInv /\ [Next]_vars => [NoRetryStep]_vars
  BY StepSpares
<1>. QED
  BY <1>1, WalkHolds, PTL DEF Spec, NoRetryAfterError, NoRetryStep

-------------------------------------------------------------------------------
(* Admission                                                                   *)

LEMMA BeginAdmits ==
  ASSUME WalkInv, NEW r \in Requests, Begin(r), config.enabled,
         NEW p \in ToSet(req'[r].admitted)
  PROVE  row'[p].state # "open"
PROOF
<1>1. PICK standing \in Standings :
        LET s == FilterAvailable(req[r].cands, standing)
            q == [req[r] EXCEPT !.admitted = s]
            q2 == IF s = << >> THEN [q EXCEPT !.pc = "failed"] ELSE Try(q, s, 1)
        IN req' = [req EXCEPT ![r] = q2]
  BY DEF Begin
<1> DEFINE s == FilterAvailable(req[r].cands, standing)
           q == [req[r] EXCEPT !.admitted = s]
           q2 == IF s = << >> THEN [q EXCEPT !.pc = "failed"] ELSE Try(q, s, 1)
<1>2. req[r] \in RequestRecord /\ req[r].cands \in ProviderList
  BY DEF WalkInv, GoodRequest, RequestRecord
<1>3. \A x \in ToSet(s) : x \in ToSet(req[r].cands) /\ StateRead(x) # "open"
  BY <1>2, FilterAdmits
<1> HIDE DEF s
<1>4. q2.admitted = s
  BY <1>2 DEF Try, RequestRecord
<1>5. req'[r] = q2
  BY <1>1 DEF WalkInv, s
<1> HIDE DEF q2
<1>6. p \in ToSet(req[r].cands) /\ StateRead(p) # "open"
  BY <1>3, <1>4, <1>5
<1>7. p \in Providers
  BY <1>2, <1>6 DEF ProviderList, ToSet
<1>8. row'[p] = RowRead(p)
  BY <1>6, <1>7 DEF Begin, GetCircuitStates
<1>. QED
  BY <1>6, <1>8 DEF StateRead

\* For any chain and any standing of the quotas: a request is admitted to no provider
\* whose circuit the same step leaves open.
THEOREM AdmissionsRespectCircuits == Spec => AdmissionRespectsCircuits
PROOF
<1> DEFINE Admits == \A r \in Requests : Begin(r) => \A p \in ToSet(req'[r].admitted) :
                       config.enabled => row'[p].state # "open"
<1>1. WalkInv => Admits
  BY BeginAdmits
<1>. QED
  BY <1>1, WalkHolds, PTL DEF Spec, AdmissionRespectsCircuits

-------------------------------------------------------------------------------
(* The circuits under the requests                                             *)

\* Whatever a request does to the circuits is one of the breaker's operations: the
\* provider it reports on, and those it reads, are providers.
LEMMA RequestsStepCircuits == PermitInv /\ WalkInv /\ [Next]_vars => [CircuitStep]_breakerVars
PROOF
<1> SUFFICES ASSUME PermitInv, WalkInv, [Next]_vars PROVE [CircuitStep]_breakerVars
  OBVIOUS
<1>1. CASE UNCHANGED breakerVars
  BY <1>1
<1>2. CASE UNCHANGED vars
  BY <1>2 DEF vars
<1>3. ASSUME NEW r \in Requests, Arrive(r) \/ Judged(r) PROVE UNCHANGED breakerVars
  BY <1>3 DEF Arrive, Judged
<1>4. ASSUME NEW r \in Requests, Begin(r) PROVE CircuitStep
  <2>1. req[r].cands \in Seq(Providers)
    BY DEF WalkInv, GoodRequest, RequestRecord, ProviderList
  <2>2. ToSet(req[r].cands) \in SUBSET Providers
    BY <2>1 DEF ToSet
  <2>. QED
    BY <1>4, <2>2 DEF Begin, CircuitStep
<1>5. ASSUME NEW r \in Requests, Answered(r) PROVE [CircuitStep]_breakerVars
  <2>1. Current(req[r]) \in Providers
    <3>1. req[r].pc = "calling"
      BY <1>5 DEF Answered, Accepted, Solved, LowQuality, BlockedWithCookies, Blocked, Rejected,
                  Errored, Calling
    <3>. QED
      BY <3>1, FallbackAssumption DEF WalkInv, GoodRequest
  <2>2. \/ RecordFailure(Current(req[r])) \/ RecordSuccess(Current(req[r])) \/ UNCHANGED breakerVars
    BY <1>5 DEF Answered, Accepted, Solved, LowQuality, BlockedWithCookies, Blocked, Rejected, Errored
  <2>. QED
    BY <2>1, <2>2 DEF CircuitStep
<1>6. CASE Environment
  <2>1. Providers \in SUBSET Providers
    OBVIOUS
  <2>. QED
    BY <1>6, <2>1 DEF Environment, CircuitStep
<1>7. CASE GatewayRestart
  BY <1>7 DEF GatewayRestart, CircuitStep
<1>. QED
  BY <1>1, <1>2, <1>3, <1>4, <1>5, <1>6, <1>7 DEF Next, Step

LEMMA StepJar == jar \in BOOLEAN /\ [Next]_vars => jar' \in BOOLEAN
PROOF
<1>. QED
  BY FallbackAssumption
  DEF Next, vars, requestVars, Step, Arrive, Begin, Answered, Accepted, Solved, LowQuality,
      BlockedWithCookies, Blocked, Rejected, Errored, Judged, Environment, GatewayRestart

LEMMA InvsType == PermitInv /\ WalkInv /\ BreakerInv /\ jar \in BOOLEAN => TypeOK
PROOF
<1> SUFFICES ASSUME PermitInv, WalkInv, BreakerInv, jar \in BOOLEAN PROVE TypeOK
  OBVIOUS
<1>1. req \in [Requests -> RequestRecord]
  BY DEF WalkInv
<1>2. permits \in 0..MaxConcurrent
  BY HoldersFinite, FS_CardinalityType, FallbackAssumption DEF PermitInv
<1>. QED
  BY <1>1, <1>2, InvSuffices DEF PermitInv, QueueWaits, TypeOK, RequestTypeOK

\* The types of the breaker and of the requests, and with them the coherence of the
\* rows: however the requests interleave between the read that admits them and the
\* report of their call, no circuit is left open without the instant of its opening.
THEOREM RequestsTyped == Spec => [](TypeOK /\ RowsCoherent)
PROOF
<1>1. Init => BreakerInv /\ jar \in BOOLEAN
  BY InitInv DEF Init
<1>2. (PermitInv /\ WalkInv) /\ (BreakerInv /\ jar \in BOOLEAN) /\ [Next]_vars
        => (BreakerInv /\ jar \in BOOLEAN)'
  BY RequestsStepCircuits, StepInv, StepJar
<1>3. (PermitInv /\ WalkInv) /\ (BreakerInv /\ jar \in BOOLEAN) => TypeOK /\ RowsCoherent
  BY InvsType, InvSuffices
<1>. QED
  BY <1>1, <1>2, <1>3, WalkHolds, PTL DEF Spec

\* And none is closed by an answer that comes late, whichever request's it is.
THEOREM RequestsHoldOpen == Spec => OpenIsLeftCooled
PROOF
<1>1. BreakerInv /\ [CircuitStep]_breakerVars =>
        [\A p \in Providers :
           row[p].state = "open" /\ row'[p].state # "open" =>
             (Cooled(p) /\ row'[p].state = "half_open") \/ ResetCircuit(p)]_breakerVars
  BY OpenStep
<1>2. Init => BreakerInv
  BY InitInv DEF Init
<1>3. (PermitInv /\ WalkInv) /\ [Next]_vars => [CircuitStep]_breakerVars
  BY RequestsStepCircuits
<1>. QED
  BY <1>1, <1>2, <1>3, StepInv, WalkHolds, PTL DEF Spec, OpenIsLeftCooled

-------------------------------------------------------------------------------
(***************************************************************************)
(* That the breaker implements BreakerPromise.  The invariant ties the row *)
(* to the history: a closed row counts failures that are all remembered,   *)
(* each no older than the window it counts them in, and an open row has    *)
(* the instant and the cooldown of the latest opening.                     *)
(***************************************************************************)
HistoryTyped ==
  /\ streak \in [Providers -> [1..MaxStreak -> Age \cup {NoTime}]]
  /\ downtime \in [Providers -> Age \cup {NoTime}]
  /\ due \in [Providers -> Nat]

CountWitnessed(p) ==
  row[p].state = "closed" =>
    \A k \in 1..MaxStreak : k <= row[p].failure_count => streak[p][k] \in 0..row[p].window

OpeningNoted(p) ==
  row[p].state = "open" => row[p].opened = downtime[p] /\ row[p].cooldown = due[p]

HistoryInv ==
  /\ BreakerInv
  /\ HistoryTyped
  /\ \A p \in Providers : CountWitnessed(p) /\ OpeningNoted(p)

\* A pushed streak is a streak, with the new failure in front.
LEMMA PushType ==
  ASSUME NEW s \in [1..MaxStreak -> Age \cup {NoTime}]
  PROVE  /\ Promise!Push(s) \in [1..MaxStreak -> Age \cup {NoTime}]
         /\ \A k \in 1..MaxStreak :
              Promise!Push(s)[k] = IF k = 1 THEN 0 ELSE s[k - 1]
PROOF
<1>1. 0 \in Age
  BY BreakerAssumption DEF Age
<1>2. ASSUME NEW k \in 1..MaxStreak, k # 1 PROVE k - 1 \in 1..MaxStreak
  BY <1>2, StreakAssumption
<1>3. ASSUME NEW k \in 1..MaxStreak
      PROVE  (IF k = 1 THEN 0 ELSE s[k - 1]) \in Age \cup {NoTime}
  BY <1>1, <1>2
<1>. QED
  BY <1>3 DEF Promise!Push

LEMMA NoFailuresType == Promise!NoFailures \in [1..MaxStreak -> Age \cup {NoTime}]
PROOF
<1>. QED
  BY DEF Promise!NoFailures, Promise!Never, NoTime

LEMMA HInitInv == HInit => HistoryInv
PROOF
<1> SUFFICES ASSUME HInit PROVE HistoryInv
  OBVIOUS
<1>1. BreakerInv
  BY InitInv DEF HInit
<1>2. HistoryTyped
  BY NoFailuresType, BreakerAssumption DEF HInit, HistoryTyped, NoTime
<1>3. ASSUME NEW p \in Providers PROVE CountWitnessed(p) /\ OpeningNoted(p)
  <2>1. row[p] = NoRow
    BY DEF HInit, BreakerInit
  <2>2. row[p].state = "closed" /\ row[p].failure_count = 0
    BY <2>1 DEF NoRow
  <2>. QED
    BY <2>2 DEF CountWitnessed, OpeningNoted
<1>. QED
  BY <1>1, <1>2, <1>3 DEF HistoryInv

\* Every step of the history is one of the breaker.
LEMMA HStepIsStep == [HNext]_allVars => [BreakerNext]_breakerVars
PROOF
<1>. QED
  BY DEF HNext, HFailure, HSuccess, HRead, HReset, HRestart, HTick, BreakerNext, allVars,
         breakerVars

\* The threshold of a tracked provider is no longer than the remembered streak.
LEMMA ThresholdRemembered ==
  ASSUME config \in Configs, NEW p \in Providers, Tracked(p)
  PROVE  ConfigOf(p).error_threshold \in 0..MaxStreak
PROOF
<1>1. (IF p \in DOMAIN config.providers THEN p ELSE Default) \in DOMAIN config.providers
  BY DEF Tracked, HasConfig
<1>. QED
  BY <1>1, StreakAssumption DEF ConfigOf

\* A streak, its window and the downtime grow older together.
LEMMA OlderKeepsOrder ==
  ASSUME NEW a \in Age \cup {NoTime}, NEW b \in Age \cup {NoTime}, a \in 0..b
  PROVE  Older(a) \in 0..Older(b)
PROOF
<1>. QED
  BY BreakerAssumption DEF Older, Age, NoTime

-------------------------------------------------------------------------------
(***************************************************************************)
(* One lemma per operation: the invariant is kept and the step is one of   *)
(* the promise, or a stutter.                                              *)
(***************************************************************************)
Keeps == HistoryInv' /\ [Promise!PromiseNext]_(Promise!promiseVars)

\* An operation on one provider leaves the others' history as it is.
LEMMA OneHistory ==
  ASSUME HistoryInv, BreakerInv', NEW p \in Providers, HistoryTyped',
         \A q \in Providers \ {p} : /\ row'[q] = row[q] /\ streak'[q] = streak[q]
                                    /\ downtime'[q] = downtime[q] /\ due'[q] = due[q],
         CountWitnessed(p)', OpeningNoted(p)'
  PROVE  HistoryInv'
PROOF
<1>1. ASSUME NEW q \in Providers \ {p} PROVE CountWitnessed(q)' /\ OpeningNoted(q)'
  BY DEF HistoryInv, CountWitnessed, OpeningNoted
<1>. QED
  BY <1>1 DEF HistoryInv

\* What an opening leaves in the history.
LEMMA OpeningKeeps ==
  ASSUME HistoryInv, BreakerInv', NEW p \in Providers, NEW x,
         config' = config, Tracked(p), row[p].state # "open",
         row' = [row EXCEPT ![p] = x], x.state = "open", x.opened = 0,
         x.cooldown = ConfigOf(p).cooldown_seconds,
         streak' = [streak EXCEPT ![p] = Promise!Push(@)], NoteOpening(p),
         \/ row[p].state = "half_open"
         \/ row[p].state = "closed" /\ Promise!Supports(streak'[p], ConfigOf(p))
  PROVE  Keeps
PROOF
<1>1. /\ row \in [Providers -> Row] /\ config \in Configs /\ HistoryTyped
      /\ streak \in [Providers -> [1..MaxStreak -> Age \cup {NoTime}]]
      /\ downtime \in [Providers -> Age \cup {NoTime}] /\ due \in [Providers -> Nat]
  BY DEF HistoryInv, BreakerInv, HistoryTyped
<1>2. row'[p] = x /\ row' \in [Providers -> Row]
  BY <1>1 DEF BreakerInv
<1>3. /\ downtime' = [downtime EXCEPT ![p] = 0]
      /\ due' = [due EXCEPT ![p] = ConfigOf(p).cooldown_seconds]
  BY <1>2 DEF NoteOpening
<1>4. HistoryTyped'
  BY <1>1, <1>3, PushType, ConfigOfType, BreakerAssumption DEF HistoryTyped, Age
<1>5. CountWitnessed(p)' /\ OpeningNoted(p)'
  BY <1>1, <1>2, <1>3 DEF CountWitnessed, OpeningNoted
<1>6. HistoryInv'
  BY <1>1, <1>3, <1>4, <1>5, OneHistory
<1>7. Promise!Fail(p)
  <2>1. [q \in Providers |-> row'[q].state]
          = [[q \in Providers |-> row[q].state] EXCEPT ![p] = "open"]
    BY <1>1
  <2>2. PolicyOf(p) = {ConfigOf(p)}
    BY DEF PolicyOf
  <2>3. \A q \in Providers : PolicyOf(q)' = PolicyOf(q)
    BY DEF PolicyOf, Tracked, HasConfig, ConfigOf
  <2>4. Promise!Opens(p, ConfigOf(p))
    BY <1>3, <2>1 DEF Promise!Opens
  <2>5. ConfigOf(p) \in [q \in Providers |-> PolicyOf(q)][p]
    BY <2>2
  <2>6. UNCHANGED [q \in Providers |-> PolicyOf(q)]
    BY <2>3
  <2> DEFINE circuit == [q \in Providers |-> row[q].state]
             policy == [q \in Providers |-> PolicyOf(q)]
             New(pol) ==
               \/ circuit[p] = "half_open" /\ Promise!Opens(p, pol)
               \/ circuit[p] = "closed" /\ Promise!Supports(streak'[p], pol)
                                        /\ Promise!Opens(p, pol)
               \/ circuit[p] # "half_open" /\ UNCHANGED <<circuit, downtime, due>>
  <2>7. New(ConfigOf(p))
    BY <2>4
  <2>8. \E pol \in policy[p] : streak' = [streak EXCEPT ![p] = Promise!Push(@)] /\ New(pol)
    <3> HIDE DEF New, circuit, policy
    <3>1. ConfigOf(p) \in policy[p]
      BY <2>5 DEF policy
    <3>. QED
      BY <2>7, <3>1
  <2>. QED
    BY <2>6, <2>8, Zenon DEF Promise!Fail
<1>. QED
  BY <1>6, <1>7 DEF Keeps, Promise!PromiseNext

\* A failure that leaves the state as it is.
LEMMA QuietFailureKeeps ==
  ASSUME HistoryInv, BreakerInv', NEW p \in Providers,
         config' = config, Tracked(p), row[p].state # "half_open",
         \A q \in Providers : row'[q].state = row[q].state,
         \A q \in Providers \ {p} : row'[q] = row[q],
         streak' = [streak EXCEPT ![p] = Promise!Push(@)], NoteOpening(p),
         CountWitnessed(p)', OpeningNoted(p)'
  PROVE  Keeps
PROOF
<1>1. /\ streak \in [Providers -> [1..MaxStreak -> Age \cup {NoTime}]]
      /\ downtime \in [Providers -> Age \cup {NoTime}] /\ due \in [Providers -> Nat]
  BY DEF HistoryInv, HistoryTyped
<1>2. UNCHANGED <<downtime, due>>
  BY DEF NoteOpening
<1>3. HistoryTyped'
  BY <1>1, <1>2, PushType DEF HistoryTyped
<1>4. HistoryInv'
  BY <1>1, <1>2, <1>3, OneHistory
<1>5. Promise!Fail(p)
  <2> DEFINE circuit == [q \in Providers |-> row[q].state]
             policy == [q \in Providers |-> PolicyOf(q)]
             New(pol) ==
               \/ circuit[p] = "half_open" /\ Promise!Opens(p, pol)
               \/ circuit[p] = "closed" /\ Promise!Supports(streak'[p], pol)
                                        /\ Promise!Opens(p, pol)
               \/ circuit[p] # "half_open" /\ UNCHANGED <<circuit, downtime, due>>
  <2>1. PolicyOf(p) = {ConfigOf(p)}
    BY DEF PolicyOf
  <2>2. \A q \in Providers : PolicyOf(q)' = PolicyOf(q)
    BY DEF PolicyOf, Tracked, HasConfig, ConfigOf
  <2>3. UNCHANGED policy
    BY <2>2
  <2>4. New(ConfigOf(p))
    BY <1>2
  <2>5. \E pol \in policy[p] : streak' = [streak EXCEPT ![p] = Promise!Push(@)] /\ New(pol)
    <3>1. ConfigOf(p) \in policy[p]
      BY <2>1
    <3> HIDE DEF New, circuit, policy
    <3>. QED
      BY <2>4, <3>1
  <2>. QED
    BY <2>3, <2>5, Zenon DEF Promise!Fail
<1>. QED
  BY <1>4, <1>5 DEF Keeps, Promise!PromiseNext

\* A step that changes nothing but rows, and no state of them, is a stutter.
LEMMA StutterKeeps ==
  ASSUME HistoryInv', UNCHANGED historyVars, config' = config,
         \A q \in Providers : row'[q].state = row[q].state
  PROVE  Keeps
PROOF
<1>1. \A q \in Providers : PolicyOf(q)' = PolicyOf(q)
  BY DEF PolicyOf, Tracked, HasConfig, ConfigOf
<1>2. UNCHANGED [q \in Providers |-> PolicyOf(q)]
  BY <1>1
<1>3. UNCHANGED [q \in Providers |-> row[q].state]
  OBVIOUS
<1>4. UNCHANGED Promise!promiseVars
  BY <1>2, <1>3 DEF Promise!promiseVars, historyVars
<1>. QED
  BY <1>4 DEF Keeps

LEMMA HFailureKeeps ==
  ASSUME HistoryInv, BreakerInv', NEW p \in Providers, HFailure(p)
  PROVE  Keeps
PROOF
<1>1. /\ row \in [Providers -> Row] /\ config \in Configs /\ config' = config
      /\ row[p] \in Row /\ SoundRow(row[p])
      /\ streak \in [Providers -> [1..MaxStreak -> Age \cup {NoTime}]]
      /\ CountWitnessed(p) /\ OpeningNoted(p) /\ NoteOpening(p)
  BY DEF HistoryInv, BreakerInv, HistoryTyped, HFailure, RecordFailure
<1>2. CASE FailureIgnored(p)
  <2>1. row' = row /\ UNCHANGED historyVars
    BY <1>2 DEF FailureIgnored, HFailure, NoteOpening, historyVars
  <2>2. HistoryInv'
    BY <1>1, <2>1 DEF HistoryInv, HistoryTyped, CountWitnessed, OpeningNoted, historyVars
  <2>. QED
    BY <1>1, <2>1, <2>2, StutterKeeps
<1>3. CASE FailureHalfOpen(p)
  <2>1. Tracked(p) /\ streak' = [streak EXCEPT ![p] = Promise!Push(@)]
    BY <1>3 DEF FailureHalfOpen, HFailure
  <2> DEFINE x == [state |-> "open", failure_count |-> 1, window |-> 0, opened |-> 0,
                   cooldown |-> ConfigOf(p).cooldown_seconds]
  <2>2. /\ row[p].state = "half_open" /\ row' = [row EXCEPT ![p] = x]
        /\ x.state = "open" /\ x.opened = 0 /\ x.cooldown = ConfigOf(p).cooldown_seconds
    BY <1>3 DEF FailureHalfOpen
  <2> HIDE DEF x
  <2>. QED
    BY <1>1, <2>1, <2>2, OpeningKeeps
<1>4. CASE FailureOpen(p)
  <2>1. Tracked(p) /\ streak' = [streak EXCEPT ![p] = Promise!Push(@)]
    BY <1>4 DEF FailureOpen, HFailure
  <2>2. row' = row /\ row[p].state = "open" /\ UNCHANGED <<downtime, due>>
    BY <1>1, <1>4 DEF FailureOpen, NoteOpening
  <2>3. CountWitnessed(p)' /\ OpeningNoted(p)'
    BY <1>1, <2>2 DEF CountWitnessed, OpeningNoted
  <2>. QED
    BY <1>1, <2>1, <2>2, <2>3, QuietFailureKeeps
<1>5. CASE FailureClosed(p)
  <2> DEFINE threshold == ConfigOf(p).error_threshold
             window == ConfigOf(p).window_seconds
  <2>1. Tracked(p) /\ streak' = [streak EXCEPT ![p] = Promise!Push(@)]
    BY <1>5 DEF FailureClosed, HFailure
  <2>2. threshold \in 0..MaxStreak /\ window \in Nat /\ MaxStreak \in Nat
    BY <1>1, <2>1, ThresholdRemembered, ConfigOfType, StreakAssumption
  <2>3. /\ row[p].state = "closed" /\ row[p].failure_count \in Nat
        /\ row[p].window \in Age \cup {NoTime}
        /\ row[p].failure_count = 0 <=> row[p].window = NoTime
    BY <1>1, <1>5 DEF FailureClosed, SoundRow, Row
  <2>4. /\ streak'[p] = Promise!Push(streak[p])
        /\ \A k \in 1..MaxStreak :
             streak'[p][k] = IF k = 1 THEN 0 ELSE streak[p][k - 1]
    BY <1>1, <2>1, PushType
  <2>5. FailuresWith(p) \in Nat /\ WindowWith(p) \in 0..window
    BY <2>2, <2>3, BreakerAssumption DEF FailuresWith, WindowWith, WindowExpired, Age, NoTime
  <2>6. \A k \in 1..MaxStreak : k <= FailuresWith(p) => streak'[p][k] \in 0..WindowWith(p)
    <3> SUFFICES ASSUME NEW k \in 1..MaxStreak, k <= FailuresWith(p)
                 PROVE  streak'[p][k] \in 0..WindowWith(p)
      OBVIOUS
    <3>1. CASE k = 1
      BY <2>4, <2>5, <3>1
    <3>2. CASE k # 1
      <4>1. ~WindowExpired(p) /\ k - 1 \in 1..MaxStreak /\ k - 1 <= row[p].failure_count
        BY <2>2, <2>3, <3>2 DEF FailuresWith
      <4>2. streak[p][k - 1] \in 0..row[p].window
        BY <1>1, <2>3, <4>1 DEF CountWitnessed
      <4>. QED
        BY <2>4, <3>2, <4>1, <4>2 DEF WindowWith
    <3>. QED
      BY <3>1, <3>2
  <2>7. CASE FailuresWith(p) >= threshold
    <3>1. Promise!Supports(streak'[p], ConfigOf(p))
      BY <2>2, <2>5, <2>6, <2>7 DEF Promise!Supports
    <3> DEFINE x == [state |-> "open", failure_count |-> FailuresWith(p),
                     window |-> WindowWith(p), opened |-> 0,
                     cooldown |-> ConfigOf(p).cooldown_seconds]
    <3>2. /\ row' = [row EXCEPT ![p] = x]
          /\ x.state = "open" /\ x.opened = 0 /\ x.cooldown = ConfigOf(p).cooldown_seconds
      BY <1>5, <2>7 DEF FailureClosed
    <3> HIDE DEF x
    <3>. QED
      BY <1>1, <2>1, <2>3, <3>1, <3>2, OpeningKeeps
  <2>8. CASE ~(FailuresWith(p) >= threshold)
    <3>1. row' = [row EXCEPT ![p] = [@ EXCEPT !.failure_count = FailuresWith(p),
                                              !.window = WindowWith(p)]]
      BY <1>5, <2>8 DEF FailureClosed
    <3>2. /\ row'[p].state = "closed" /\ row'[p].failure_count = FailuresWith(p)
          /\ row'[p].window = WindowWith(p)
      BY <1>1, <2>3, <3>1 DEF Row
    <3>3. CountWitnessed(p)' /\ OpeningNoted(p)'
      BY <2>6, <3>2 DEF CountWitnessed, OpeningNoted
    <3>4. \A q \in Providers \ {p} : row'[q] = row[q]
      BY <1>1, <3>1
    <3>. QED
      BY <1>1, <2>1, <2>3, <3>2, <3>3, <3>4, QuietFailureKeeps
  <2>. QED
    BY <2>7, <2>8
<1>. QED
  BY <1>2, <1>3, <1>4, <1>5 DEF HFailure, RecordFailure

LEMMA HSuccessKeeps ==
  ASSUME HistoryInv, BreakerInv', NEW p \in Providers, HSuccess(p)
  PROVE  Keeps
PROOF
<1>1. /\ row \in [Providers -> Row] /\ config' = config /\ row[p] \in Row
      /\ CountWitnessed(p) /\ OpeningNoted(p) /\ NoteOpening(p) /\ HistoryTyped
      /\ streak \in [Providers -> [1..MaxStreak -> Age \cup {NoTime}]]
  BY DEF HistoryInv, BreakerInv, HistoryTyped, HSuccess, RecordSuccess
<1>2. \A q \in Providers : PolicyOf(q)' = PolicyOf(q)
  BY <1>1 DEF PolicyOf, Tracked, HasConfig, ConfigOf
<1>3. UNCHANGED [q \in Providers |-> PolicyOf(q)]
  BY <1>2
<1>4. CASE ~config.enabled \/ (row[p].state = "open" /\ ~Cooled(p))
  <2>1. row' = row /\ UNCHANGED historyVars
    BY <1>4 DEF HSuccess, RecordSuccess, NoteOpening, historyVars
  <2>2. HistoryInv'
    BY <1>1, <2>1 DEF HistoryInv, HistoryTyped, CountWitnessed, OpeningNoted, historyVars
  <2>. QED
    BY <1>1, <2>1, <2>2, StutterKeeps
<1>5. CASE config.enabled /\ row[p].state = "open" /\ Cooled(p)
  <2>1. row' = [row EXCEPT ![p].state = "half_open"] /\ UNCHANGED streak
    BY <1>5 DEF HSuccess, RecordSuccess
  <2>2. UNCHANGED <<streak, downtime, due>>
    BY <1>1, <1>5, <2>1 DEF NoteOpening, Row
  <2>3. row'[p].state = "half_open" /\ \A q \in Providers \ {p} : row'[q] = row[q]
    BY <1>1, <2>1 DEF Row
  <2>4. HistoryTyped' /\ CountWitnessed(p)' /\ OpeningNoted(p)'
    BY <1>1, <2>2, <2>3 DEF HistoryTyped, CountWitnessed, OpeningNoted
  <2>5. HistoryInv'
    BY <2>2, <2>3, <2>4, OneHistory
  <2>6. Promise!Readmit(p)
    <3>1. row[p].opened >= row[p].cooldown /\ row[p].opened = downtime[p] /\ row[p].cooldown = due[p]
      BY <1>1, <1>5 DEF Cooled, OpeningNoted
    <3>2. [q \in Providers |-> row'[q].state]
            = [[q \in Providers |-> row[q].state] EXCEPT ![p] = "half_open"]
      BY <2>3
    <3>. QED
      BY <1>3, <1>5, <2>2, <3>1, <3>2 DEF Promise!Readmit
  <2>. QED
    BY <2>5, <2>6 DEF Keeps, Promise!PromiseNext
<1>6. CASE config.enabled /\ row[p].state # "open"
  <2>1. /\ streak' = [streak EXCEPT ![p] = Promise!NoFailures]
        /\ row' = [row EXCEPT ![p].state = "closed", ![p].failure_count = 0,
                              ![p].window = NoTime,
                              ![p].opened = IF row[p].state = "half_open" THEN NoTime ELSE @]
    BY <1>6 DEF HSuccess, RecordSuccess
  <2>2. /\ row'[p].state = "closed" /\ row'[p].failure_count = 0
        /\ \A q \in Providers \ {p} : row'[q] = row[q]
    BY <1>1, <2>1 DEF Row
  <2>3. UNCHANGED <<downtime, due>>
    BY <1>1, <2>2 DEF NoteOpening
  <2>4. HistoryTyped'
    BY <1>1, <2>1, <2>3, NoFailuresType DEF HistoryTyped
  <2>5. CountWitnessed(p)' /\ OpeningNoted(p)'
    BY <2>2 DEF CountWitnessed, OpeningNoted
  <2>6. HistoryInv'
    BY <1>1, <2>1, <2>2, <2>3, <2>4, <2>5, OneHistory
  <2>7. Promise!Answer(p)
    <3>1. [q \in Providers |-> row'[q].state]
            = [[q \in Providers |-> row[q].state] EXCEPT ![p] = "closed"]
      BY <2>2
    <3>. QED
      BY <1>3, <1>6, <2>1, <2>3, <3>1 DEF Promise!Answer
  <2>. QED
    BY <2>6, <2>7 DEF Keeps, Promise!PromiseNext
<1>. QED
  BY <1>4, <1>5, <1>6

LEMMA HReadKeeps ==
  ASSUME HistoryInv, BreakerInv', NEW p \in Providers, HRead(p)
  PROVE  Keeps
PROOF
<1>1. /\ row \in [Providers -> Row] /\ config' = config /\ row[p] \in Row
      /\ CountWitnessed(p) /\ OpeningNoted(p) /\ NoteOpening(p) /\ HistoryTyped
      /\ row' = [q \in Providers |-> IF q = p THEN RowRead(q) ELSE row[q]]
      /\ UNCHANGED streak
  BY DEF HistoryInv, BreakerInv, HRead, GetCircuitState, GetCircuitStates
<1>2. \A q \in Providers : PolicyOf(q)' = PolicyOf(q)
  BY <1>1 DEF PolicyOf, Tracked, HasConfig, ConfigOf
<1>3. UNCHANGED [q \in Providers |-> PolicyOf(q)]
  BY <1>2
<1>4. CASE ~(config.enabled /\ row[p].state = "open" /\ Cooled(p))
  <2>1. row' = row
    BY <1>1, <1>4 DEF RowRead
  <2>2. UNCHANGED historyVars
    BY <1>1, <2>1 DEF NoteOpening, historyVars
  <2>3. HistoryInv'
    BY <1>1, <2>1, <2>2 DEF HistoryInv, HistoryTyped, CountWitnessed, OpeningNoted, historyVars
  <2>. QED
    BY <1>1, <2>1, <2>2, <2>3, StutterKeeps
<1>5. CASE config.enabled /\ row[p].state = "open" /\ Cooled(p)
  <2>1. row'[p].state = "half_open" /\ \A q \in Providers \ {p} : row'[q] = row[q]
    BY <1>1, <1>5 DEF RowRead, Row
  <2>2. UNCHANGED <<streak, downtime, due>>
    BY <1>1, <2>1 DEF NoteOpening
  <2>3. HistoryTyped' /\ CountWitnessed(p)' /\ OpeningNoted(p)'
    BY <1>1, <2>1, <2>2 DEF HistoryTyped, CountWitnessed, OpeningNoted
  <2>4. HistoryInv'
    BY <2>1, <2>2, <2>3, OneHistory
  <2>5. Promise!Readmit(p)
    <3>1. row[p].opened >= row[p].cooldown /\ row[p].opened = downtime[p] /\ row[p].cooldown = due[p]
      BY <1>1, <1>5 DEF Cooled, OpeningNoted
    <3>2. [q \in Providers |-> row'[q].state]
            = [[q \in Providers |-> row[q].state] EXCEPT ![p] = "half_open"]
      BY <2>1
    <3>. QED
      BY <1>3, <1>5, <2>2, <3>1, <3>2 DEF Promise!Readmit
  <2>. QED
    BY <2>4, <2>5 DEF Keeps, Promise!PromiseNext
<1>. QED
  BY <1>4, <1>5

LEMMA HResetKeeps ==
  ASSUME HistoryInv, BreakerInv', NEW p \in Providers, HReset(p)
  PROVE  Keeps
PROOF
<1>1. /\ row \in [Providers -> Row] /\ config' = config /\ NoteOpening(p) /\ HistoryTyped
      /\ row' = [row EXCEPT ![p] = NoRow]
      /\ streak' = [streak EXCEPT ![p] = Promise!NoFailures]
      /\ streak \in [Providers -> [1..MaxStreak -> Age \cup {NoTime}]]
  BY DEF HistoryInv, BreakerInv, HReset, ResetCircuit, HistoryTyped
<1>2. \A q \in Providers : PolicyOf(q)' = PolicyOf(q)
  BY <1>1 DEF PolicyOf, Tracked, HasConfig, ConfigOf
<1>3. UNCHANGED [q \in Providers |-> PolicyOf(q)]
  BY <1>2
<1>4. /\ row'[p].state = "closed" /\ row'[p].failure_count = 0
      /\ \A q \in Providers \ {p} : row'[q] = row[q]
  BY <1>1 DEF NoRow
<1>5. UNCHANGED <<downtime, due>>
  BY <1>1, <1>4 DEF NoteOpening
<1>6. HistoryTyped'
  BY <1>1, <1>5, NoFailuresType DEF HistoryTyped
<1>7. CountWitnessed(p)' /\ OpeningNoted(p)'
  BY <1>4 DEF CountWitnessed, OpeningNoted
<1>8. HistoryInv'
  BY <1>1, <1>4, <1>5, <1>6, <1>7, OneHistory
<1>9. Promise!Override(p)
  <2>1. [q \in Providers |-> row'[q].state]
          = [[q \in Providers |-> row[q].state] EXCEPT ![p] = "closed"]
    BY <1>4
  <2>. QED
    BY <1>1, <1>3, <1>5, <2>1 DEF Promise!Override
<1>. QED
  BY <1>8, <1>9 DEF Keeps, Promise!PromiseNext

LEMMA HRestartKeeps ==
  ASSUME HistoryInv, BreakerInv', HRestart
  PROVE  Keeps
PROOF
<1>1. row' = row /\ UNCHANGED <<streak, downtime, due>>
  BY DEF HRestart, Restart, historyVars
<1>2. HistoryInv'
  BY <1>1 DEF HistoryInv, HistoryTyped, CountWitnessed, OpeningNoted
<1>3. UNCHANGED [q \in Providers |-> row[q].state]
  BY <1>1
<1>4. Promise!NewPolicy \/ UNCHANGED Promise!promiseVars
  BY <1>1, <1>3 DEF Promise!NewPolicy, Promise!promiseVars
<1>. QED
  BY <1>2, <1>4 DEF Keeps, Promise!PromiseNext

LEMMA HTickKeeps ==
  ASSUME HistoryInv, BreakerInv', HTick
  PROVE  Keeps
PROOF
<1>1. /\ row \in [Providers -> Row] /\ config' = config /\ HistoryTyped
      /\ streak \in [Providers -> [1..MaxStreak -> Age \cup {NoTime}]]
      /\ downtime \in [Providers -> Age \cup {NoTime}]
      /\ row' = [p \in Providers |-> [row[p] EXCEPT !.window = Older(@), !.opened = Older(@)]]
      /\ streak' = [p \in Providers |-> [k \in 1..MaxStreak |-> Older(streak[p][k])]]
      /\ downtime' = [p \in Providers |-> Older(downtime[p])]
      /\ UNCHANGED due
  BY DEF HistoryInv, BreakerInv, HistoryTyped, HTick, Tick
<1>2. ASSUME NEW p \in Providers
      PROVE  /\ row'[p].state = row[p].state
             /\ row'[p].failure_count = row[p].failure_count
             /\ row'[p].window = Older(row[p].window)
             /\ row'[p].opened = Older(row[p].opened)
             /\ row'[p].cooldown = row[p].cooldown
  BY <1>1 DEF Row
<1>3. HistoryTyped'
  <2>1. \A p \in Providers : \A k \in 1..MaxStreak : Older(streak[p][k]) \in Age \cup {NoTime}
    <3> SUFFICES ASSUME NEW p \in Providers, NEW k \in 1..MaxStreak
                 PROVE  Older(streak[p][k]) \in Age \cup {NoTime}
      OBVIOUS
    <3>1. streak[p][k] \in Age \cup {NoTime}
      BY <1>1
    <3>. QED
      BY <3>1, OlderType
  <2>2. \A p \in Providers : Older(downtime[p]) \in Age \cup {NoTime}
    BY <1>1, OlderType
  <2>. QED
    BY <1>1, <2>1, <2>2 DEF HistoryTyped
<1>4. ASSUME NEW p \in Providers PROVE CountWitnessed(p)'
  <2> SUFFICES ASSUME row'[p].state = "closed", NEW k \in 1..MaxStreak,
                      k <= row'[p].failure_count
               PROVE  streak'[p][k] \in 0..row'[p].window
    BY DEF CountWitnessed
  <2>1. streak[p][k] \in 0..row[p].window
    BY <1>2 DEF HistoryInv, CountWitnessed
  <2>2. streak[p][k] \in Age \cup {NoTime} /\ row[p].window \in Age \cup {NoTime}
    BY <1>1 DEF Row
  <2>3. Older(streak[p][k]) \in 0..Older(row[p].window)
    BY <2>1, <2>2, OlderKeepsOrder
  <2>. QED
    BY <1>1, <1>2, <2>3
<1>5. ASSUME NEW p \in Providers PROVE OpeningNoted(p)'
  BY <1>1, <1>2 DEF HistoryInv, OpeningNoted
<1>6. HistoryInv'
  BY <1>3, <1>4, <1>5 DEF HistoryInv
<1>7. Promise!Clock
  <2>1. \A a : Promise!Later(a) = Older(a)
    BY DEF Promise!Later, Older
  <2>2. \A q \in Providers : PolicyOf(q)' = PolicyOf(q)
    BY <1>1 DEF PolicyOf, Tracked, HasConfig, ConfigOf
  <2>3. UNCHANGED [q \in Providers |-> PolicyOf(q)]
    BY <2>2
  <2>4. UNCHANGED [q \in Providers |-> row[q].state]
    BY <1>2
  <2>5. /\ streak' = [p \in Providers |-> [k \in 1..MaxStreak |-> Promise!Later(streak[p][k])]]
        /\ downtime' = [p \in Providers |-> Promise!Later(downtime[p])]
    BY <1>1, <2>1
  <2>. QED
    BY <1>1, <2>3, <2>4, <2>5 DEF Promise!Clock
<1>. QED
  BY <1>6, <1>7 DEF Keeps, Promise!PromiseNext

LEMMA HStepKeeps == HistoryInv /\ [HNext]_allVars => Keeps
PROOF
<1> SUFFICES ASSUME HistoryInv, [HNext]_allVars PROVE Keeps
  OBVIOUS
<1>1. BreakerInv'
  BY HStepIsStep, BreakerStepIsOne, StepInv DEF HistoryInv
<1>2. ASSUME NEW p \in Providers, HFailure(p) PROVE Keeps
  BY <1>1, <1>2, HFailureKeeps
<1>3. ASSUME NEW p \in Providers, HSuccess(p) PROVE Keeps
  BY <1>1, <1>3, HSuccessKeeps
<1>4. ASSUME NEW p \in Providers, HRead(p) PROVE Keeps
  BY <1>1, <1>4, HReadKeeps
<1>5. ASSUME NEW p \in Providers, HReset(p) PROVE Keeps
  BY <1>1, <1>5, HResetKeeps
<1>6. CASE HRestart
  BY <1>1, <1>6, HRestartKeeps
<1>7. CASE HTick
  BY <1>1, <1>7, HTickKeeps
<1>8. CASE UNCHANGED allVars
  <2>1. row' = row /\ config' = config /\ UNCHANGED historyVars
    BY <1>8 DEF allVars, breakerVars
  <2>2. HistoryInv'
    BY <1>1, <2>1 DEF HistoryInv, HistoryTyped, CountWitnessed, OpeningNoted, historyVars
  <2>. QED
    BY <2>1, <2>2, StutterKeeps
<1>. QED
  BY <1>2, <1>3, <1>4, <1>5, <1>6, <1>7, <1>8 DEF HNext

\* The breaker implements BreakerPromise, with any thresholds, windows and
\* cooldowns and under any restarts into other configurations: it opens only
\* on as many failures as the threshold within the window and no success among
\* them, or on the failure of a half-open circuit, and readmits only after the
\* whole cooldown of the latest opening.
THEOREM BreakerKeepsPromise == HSpec => KeepsPromise
PROOF
<1>1. HInit => Promise!PromiseInit
  <2>1. HInit => [p \in Providers |-> row[p].state] = [p \in Providers |-> "closed"]
    BY DEF HInit, BreakerInit, NoRow
  <2>. QED
    BY <2>1 DEF HInit, Promise!PromiseInit, Promise!Never, NoTime
<1>2. HInit => HistoryInv
  BY HInitInv
<1>3. HistoryInv /\ [HNext]_allVars =>
        HistoryInv' /\ [Promise!PromiseNext]_(Promise!promiseVars)
  BY HStepKeeps DEF Keeps
<1>. QED
  BY <1>1, <1>2, <1>3, PTL DEF HSpec, KeepsPromise
===============================================================================
