--------------------------- MODULE MCCircuitBreaker ---------------------------
(* Requests that may overlap on one breaker. *)
EXTENDS CircuitBreaker
CONSTANTS r1, r2, r3
=============================================================================
