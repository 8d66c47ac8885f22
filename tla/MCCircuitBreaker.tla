-------------------------- MODULE MCCircuitBreaker --------------------------
(* Model-checking instance of CircuitBreaker: three requests. *)
EXTENDS CircuitBreaker

CONSTANTS r1, r2, r3

MCRequests == {r1, r2, r3}
=============================================================================
