--------------------------- MODULE WebhookReceiver ---------------------------
(***************************************************************************)
(* From a stored event to its receiver: workers post the deliveries that    *)
(* EventIngest queued, and the receiver of this application                 *)
(* (app/api/routes/webhook_receiver.py, receive_webhook) processes an event *)
(* once, by its id in table processed_webhooks.                             *)
(*                                                                          *)
(* The worker is the engine seen from outside: an attempt at a time, a new  *)
(* one after any answer but 2xx or after its timeout, MaxAttempts in all.   *)
(* A timeout does not stop the receiver's handler.  Posts are the engine's, *)
(* for an event that is stored and signed with its tenant's secret, so the  *)
(* handler's 400 and 401 returns, which change nothing, do not arise.       *)
(***************************************************************************)
EXTENDS EventIngest

CONSTANT MaxAttempts

ASSUME ReceiverAssumption == MaxAttempts \in Nat \ {0}

VARIABLES
  processed,  \* event ids in processed_webhooks
  accepted,   \* history: event -> posts answered "processed successfully"
  hpc,        \* <<delivery, attempt>> -> where the receiver's handler is
  attempts,   \* delivery -> attempts made
  status      \* delivery -> how it stands with its worker

recvars == <<processed, accepted, hpc, attempts, status>>
vars == <<ingestvars, recvars>>

\* The deliveries there can be: TypeOK says there are no others.
Pairs == {d \in Requests \X Subscriptions : Covers(d[2], d[1])}
Posts == Pairs \X (1..MaxAttempts)

HandlerPC == {"none", "check", "insert", "ok", "duplicate", "error"}

TypeOK ==
  /\ IngestTypeOK
  /\ processed \subseteq events
  /\ accepted \in [Requests -> Nat]
  /\ hpc \in [Posts -> HandlerPC]
  /\ attempts \in [Pairs -> 0..MaxAttempts]
  /\ status \in [Pairs -> {"waiting", "posting", "delivered", "dead"}]

Init ==
  /\ IngestInit
  /\ processed = {}
  /\ accepted = [e \in Requests |-> 0]
  /\ hpc = [p \in Posts |-> "none"]
  /\ attempts = [d \in Pairs |-> 0]
  /\ status = [d \in Pairs |-> "waiting"]

EventOf(p) == p[1][1]

\* The delivery's latest post.
Latest(d) == <<d, attempts[d]>>

Reach(p, h) == hpc' = [hpc EXCEPT ![p] = h]

Become(d, s) == status' = [status EXCEPT ![d] = s]

(***************************************************************************)
(* The worker's side.                                                       *)
(***************************************************************************)
Post(d) ==
  /\ d \in queued /\ status[d] = "waiting"
  /\ attempts' = [attempts EXCEPT ![d] = @ + 1]
  /\ hpc' = [hpc EXCEPT ![<<d, attempts[d] + 1>>] = "check"]
  /\ Become(d, "posting")
  /\ UNCHANGED <<ingestvars, processed, accepted>>

RetryOrDie(d) ==
  Become(d, IF attempts[d] = MaxAttempts THEN "dead" ELSE "waiting")

GetAnswer(d) ==
  /\ status[d] = "posting"
  /\ \/ /\ hpc[Latest(d)] \in {"ok", "duplicate"}
        /\ Become(d, "delivered")
     \/ /\ hpc[Latest(d)] = "error"
        /\ RetryOrDie(d)
  /\ UNCHANGED <<ingestvars, processed, accepted, hpc, attempts>>

\* httpx gives up, whether or not the receiver has done its work.
TimeOut(d) ==
  /\ status[d] = "posting"
  /\ RetryOrDie(d)
  /\ UNCHANGED <<ingestvars, processed, accepted, hpc, attempts>>

(***************************************************************************)
(* receive_webhook.                                                         *)
(***************************************************************************)
CheckDuplicate(p) ==
  /\ hpc[p] = "check"
  /\ Reach(p, IF EventOf(p) \in processed THEN "duplicate" ELSE "insert")
  /\ UNCHANGED <<ingestvars, processed, accepted, attempts, status>>

\* Mutated form of StoreProcessed: no unique constraint behind the check.
StoreAgain(p) ==
  /\ hpc[p] = "insert"
  /\ processed' = processed \cup {EventOf(p)}
  /\ accepted' = [accepted EXCEPT ![EventOf(p)] = @ + 1]
  /\ Reach(p, "ok")
  /\ UNCHANGED <<ingestvars, attempts, status>>

\* Mutated form of StoreProcessed: it answers without the commit.
StoreNothing(p) ==
  /\ hpc[p] = "insert"
  /\ Reach(p, "ok")
  /\ UNCHANGED <<ingestvars, processed, accepted, attempts, status>>

\* event_id is unique: the second INSERT fails and the handler with it (500).
StoreProcessed(p) ==
  /\ hpc[p] = "insert"
  /\ \/ /\ EventOf(p) \notin processed
        /\ processed' = processed \cup {EventOf(p)}
        /\ accepted' = [accepted EXCEPT ![EventOf(p)] = @ + 1]
        /\ Reach(p, "ok")
     \/ /\ EventOf(p) \in processed
        /\ Reach(p, "error")
        /\ UNCHANGED <<processed, accepted>>
  /\ UNCHANGED <<ingestvars, attempts, status>>

Receive(p) == CheckDuplicate(p) \/ StoreProcessed(p)

\* The receiver dies or fails before its commit.
Drop(p) ==
  /\ hpc[p] \in {"check", "insert"}
  /\ Reach(p, "error")
  /\ UNCHANGED <<ingestvars, processed, accepted, attempts, status>>

Next ==
  \/ IngestNext /\ UNCHANGED recvars
  \/ \E d \in Pairs : Post(d) \/ GetAnswer(d) \/ TimeOut(d)
  \/ \E p \in Posts : Receive(p) \/ Drop(p)

Spec == Init /\ [][Next]_vars

(***************************************************************************)
(* Properties.                                                              *)
(***************************************************************************)
\* An event is processed once, however many deliveries of it are posted at the
\* same time and however often a lost answer makes a worker post it again.
ProcessedOnce ==
  \A e \in Requests : accepted[e] = IF e \in processed THEN 1 ELSE 0

\* A delivery marked delivered was processed, by its own post or another.
DeliveredWasProcessed ==
  \A d \in Pairs : status[d] = "delivered" => d[1] \in processed

=============================================================================
