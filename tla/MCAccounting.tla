---------------------------- MODULE MCAccounting ----------------------------
(***************************************************************************)
(* Accounting for TLC, with the tables of RetryPolicy: handle_failure turns *)
(* to them for every task that has failed.                                  *)
(***************************************************************************)
EXTENDS Accounting, RetryPolicy, TLC

CONSTANT t1

OneTenant == [d \in Deliveries |-> t1]
Limits == [ft \in FailureTypes |-> 1]

\* A task that has failed, for whatever reason the README's table names, is
\* retried as often and as late as the table says (classify, is_retryable,
\* max_retries and get_delay together).
PolicyAsDocumented == \A w \in Workers : pc[w] = "failed" => TableKept

\* A delivery that waits for its retry backs off: as long as it fails in one
\* way no retry comes sooner after its failure than the one before, whatever
\* the jitter.
DelaysGrow ==
  \A d \in Deliveries : dlv[d].status = "retrying" => DelaysMonotone
=============================================================================
