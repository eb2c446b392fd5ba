------------------------- MODULE MCCircuitBreaker -------------------------
(* CircuitBreaker for TLC: worker threads are interchangeable, and so are   *)
(* tenants.                                                                 *)
EXTENDS CircuitBreaker, TLC

Interchangeable == Permutations(Workers) \cup Permutations(Tenants)
=============================================================================
