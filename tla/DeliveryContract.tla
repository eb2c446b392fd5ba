-------------------------- MODULE DeliveryContract --------------------------
(***************************************************************************)
(* What the delivery engine promises of each delivery, whatever its tasks,  *)
(* its sessions and its endpoint's circuit do: it waits, counting failures, *)
(* until it is delivered or has failed for good; then it is final, and a    *)
(* dead one has left one dead letter.                                       *)
(***************************************************************************)
EXTENDS Naturals

CONSTANTS Deliveries, FailureTypes, MaxRetries, Permanent

VARIABLES fate, failures, letters

vars == <<fate, failures, letters>>

Init ==
  /\ fate = [d \in Deliveries |-> "waiting"]
  /\ failures = [d \in Deliveries |-> 0]
  /\ letters = [d \in Deliveries |-> 0]

Tolerated(d, ft) == ft # Permanent /\ failures[d] < MaxRetries[ft]

Retry(d, ft) ==
  /\ fate[d] = "waiting" /\ Tolerated(d, ft)
  /\ failures' = [failures EXCEPT ![d] = @ + 1]
  /\ UNCHANGED <<fate, letters>>

Die(d, ft) ==
  /\ fate[d] = "waiting" /\ ~Tolerated(d, ft)
  /\ fate' = [fate EXCEPT ![d] = "dead"]
  /\ failures' = [failures EXCEPT ![d] = @ + 1]
  /\ letters' = [letters EXCEPT ![d] = @ + 1]

Deliver(d) ==
  /\ fate[d] = "waiting"
  /\ fate' = [fate EXCEPT ![d] = "delivered"]
  /\ UNCHANGED <<failures, letters>>

Next == \E d \in Deliveries :
          Deliver(d) \/ \E ft \in FailureTypes : Retry(d, ft) \/ Die(d, ft)

Spec == Init /\ [][Next]_vars
=============================================================================
