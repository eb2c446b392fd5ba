------------------------------- MODULE MCReplay -------------------------------
(***************************************************************************)
(* Replay for TLC: deliveries of one event, replays that may overlap.       *)
(***************************************************************************)
EXTENDS Replay, TLC

CONSTANTS t1, e1

OneTenant == [d \in Deliveries |-> t1]
OneEvent == [d \in Deliveries |-> e1]
Limits == [ft \in FailureTypes |-> IF ft = "PERMANENT" THEN 0 ELSE 1]
Interchangeable == {f @@ g @@ h : f \in Permutations(Workers),
                      g \in Permutations(Deliveries), h \in Permutations(Replays)}
=============================================================================
