-------------------------- MODULE MCCircuitBreaker --------------------------
(***************************************************************************)
(* TLC instances of the circuit breaker: two or three callers, a clock of  *)
(* a few seconds and an outage of a few failing calls.                     *)
(***************************************************************************)
EXTENDS CircuitBreaker

CONSTANTS c1, c2, c3
=============================================================================
