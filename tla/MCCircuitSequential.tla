------------------------ MODULE MCCircuitSequential ------------------------
(***************************************************************************)
(* CircuitHealth with one worker: calls that do not overlap, crashes and    *)
(* all, implement the contract.                                             *)
(***************************************************************************)
EXTENDS CircuitHealth

CONSTANT MaxRequests  \* bound: requests counted on a row

Enough == \E r \in Tenants : tally[r].ok + tally[r].bad >= MaxRequests

BoundedNext == HealthNext /\ (Enough => \A w \in Workers : view'[w] = None)

BoundedSpec == HealthInit /\ [][BoundedNext]_healthvars

Row == IF Existing = {} THEN NewCircuit
                        ELSE rows[CHOOSE r \in Tenants : rows[r] # None]

Circuit == INSTANCE CircuitContract
  WITH state <- Row.state, failures <- Row.failure_count,
       openedAt <- Row.opened_at, clock <- now

\* Without overlapping calls the breaker is the documented state machine:
\* it opens exactly at the threshold, probes only after the cooldown, and
\* leaves half_open by the probe's result (should_allow_request,
\* record_success, record_failure; README, circuit breaker state machine).
SequentialContract == Circuit!Spec
=============================================================================
