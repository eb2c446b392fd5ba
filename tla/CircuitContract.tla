--------------------------- MODULE CircuitContract ---------------------------
(***************************************************************************)
(* What a caller expects of the circuit breaker of an endpoint: the state   *)
(* machine that circuit_breaker_service.py walks through when its calls do  *)
(* not overlap.  It knows one circuit, no rows, no locks, no workers.       *)
(***************************************************************************)
EXTENDS Naturals

CONSTANTS Threshold, Cooldown, None

VARIABLES state, failures, openedAt, clock

vars == <<state, failures, openedAt, clock>>

Init == state = "closed" /\ failures = 0 /\ openedAt = None /\ clock = 0

\* A failure the circuit tolerates.
Tolerate ==
  /\ state = "closed"
  /\ failures + 1 < Threshold
  /\ failures' = failures + 1
  /\ UNCHANGED <<state, openedAt, clock>>

\* The failure that reaches the threshold, or the probe's failure.
Open ==
  /\ \/ state = "closed" /\ failures + 1 = Threshold
     \/ state = "half_open"
  /\ state' = "open"
  /\ failures' = failures + 1
  /\ openedAt' = clock
  /\ UNCHANGED clock

HalfOpen ==
  /\ state = "open"
  /\ clock >= openedAt + Cooldown
  /\ state' = "half_open"
  /\ UNCHANGED <<failures, openedAt, clock>>

Succeed ==
  /\ state # "open"
  /\ state' = "closed"
  /\ failures' = 0
  /\ openedAt' = None
  /\ UNCHANGED clock

Pass == clock' = clock + 1 /\ UNCHANGED <<state, failures, openedAt>>

Next == Tolerate \/ Open \/ HalfOpen \/ Succeed \/ Pass

Spec == Init /\ [][Next]_vars
=============================================================================
