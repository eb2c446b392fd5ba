--------------------------- MODULE MCWebhookReceiver ---------------------------
(***************************************************************************)
(* WebhookReceiver for TLC: a client posts one event twice (r1, r2), and    *)
(* two of another topic, both with the key "" (r3, r4); two subscribers of  *)
(* the first.                                                               *)
(***************************************************************************)
EXTENDS WebhookReceiver, TLC

CONSTANTS t1, k, a, b, r1, r2, r3, r4, s1, s2

Posted == [r \in Requests |->
  [tenant |-> t1, key   |-> IF r \in {r1, r2} THEN k ELSE Empty,
                  topic |-> IF r \in {r1, r2} THEN a ELSE b]]

Follows == [s \in Subscriptions |-> [tenant |-> t1, topic |-> a]]

\* The client's two posts are alike, so are the other two and the subscribers.
Interchangeable ==
  {f @@ g @@ h : f \in Permutations({r1, r2}), g \in Permutations({r3, r4}),
                 h \in Permutations({s1, s2})}
=============================================================================
