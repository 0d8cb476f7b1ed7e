-------------------------- MODULE MCCircuitBreaker --------------------------
(* Three concurrent calls, a threshold of two failures, a recovery time of  *)
(* two ticks.                                                              *)
EXTENDS CircuitBreaker

CONSTANTS c1, c2, c3

MCCallers == {c1, c2, c3}
=============================================================================
