---------------------------- MODULE MCCircuitBreaker ----------------------------
(* Instance of CircuitBreaker for TLC: a probe, a late success and a late failure *)
(* can meet.                                                                      *)
EXTENDS CircuitBreaker
=============================================================================
