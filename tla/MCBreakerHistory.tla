--------------------------- MODULE MCBreakerHistory ---------------------------
(* Small instances of CircuitBreakerHistory. *)
EXTENDS CircuitBreakerHistory

CONSTANT p1

Breaker(t, w, c) ==
  [error_threshold |-> t, window_seconds |-> w, cooldown_seconds |-> c]

\* An entry of the provider's own or the default one, or neither; restarts change
\* threshold, window and cooldown both ways, drop the entry, switch breaking off.
MCConfigs ==
  { [enabled |-> TRUE, providers |-> [p \in {Default} |-> Breaker(3, 2, 2)]],
    [enabled |-> TRUE,
     providers |-> [p \in {p1, Default} |-> IF p = p1 THEN Breaker(2, 1, 3)
                                                     ELSE Breaker(1, 1, 1)]],
    [enabled |-> TRUE, providers |-> << >>],
    [enabled |-> FALSE, providers |-> << >>] }
===============================================================================
