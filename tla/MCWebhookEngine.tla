-------------------------- MODULE MCWebhookEngine --------------------------
(***************************************************************************)
(* WebhookEngine for TLC: a table of retry limits small enough to exhaust,  *)
(* deliveries of one tenant, or of a tenant each.                           *)
(***************************************************************************)
EXTENDS WebhookEngine, TLC

CONSTANTS t1, t2, d1

OneTenant == [d \in Deliveries |-> t1]
TwoTenants == [d \in Deliveries |-> IF d = d1 THEN t1 ELSE t2]
Limits == [ft \in FailureTypes |->
             CASE ft = "PERMANENT"    -> 0
               [] ft = "RATE_LIMITED" -> 2
               [] OTHER               -> 1]
Interchangeable == Permutations(Workers) \cup Permutations(Deliveries)
=============================================================================
