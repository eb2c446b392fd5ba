------------------------ MODULE WebhookReceiverProofs ------------------------
(***************************************************************************)
(* Theorems of WebhookReceiver, for any number of posts, deliveries and     *)
(* attempts.                                                                *)
(*                                                                          *)
(* A worker acts on the answer of its latest post only, while earlier ones  *)
(* that timed out may still run: what an answer says of its event           *)
(* (Answers) must hold of every post that was ever made.                    *)
(***************************************************************************)
EXTENDS WebhookReceiver, EventIngestProofs

\* A post is made for a stored event, and what it answered stays true.
Answers ==
  \A p \in Posts :
    /\ hpc[p] # "none" => EventOf(p) \in events
    /\ hpc[p] \in {"ok", "duplicate"} => EventOf(p) \in processed

\* A delivery under way has a latest post; one that waits has one left.
Attempts ==
  \A d \in Pairs :
    /\ status[d] = "posting" => attempts[d] \in 1..MaxAttempts
    /\ status[d] = "waiting" => attempts[d] < MaxAttempts

ReceiverInv ==
  /\ TypeOK
  /\ IngestInv
  /\ Answers
  /\ Attempts
  /\ ProcessedOnce
  /\ DeliveredWasProcessed

LEMMA ReceiverInitially == Init => ReceiverInv
<1> SUFFICES ASSUME Init PROVE ReceiverInv
  OBVIOUS
<1>1. IngestInv
  BY IngestInitially DEF Init
<1>2. TypeOK
  BY <1>1, ReceiverAssumption DEF Init, TypeOK, IngestInv, HandlerPC
<1>3. Answers /\ Attempts /\ ProcessedOnce /\ DeliveredWasProcessed
  BY ReceiverAssumption
     DEF Init, Answers, Attempts, ProcessedOnce, DeliveredWasProcessed
<1>4. QED
  BY <1>1, <1>2, <1>3 DEF ReceiverInv

\* Events are never deleted.
LEMMA EventsStay == IngestInv /\ IngestNext => events \subseteq events'
BY DEF IngestNext, Handle, Subscribe, Authenticate, CheckKey, StoreEvent,
       SelectSubscriptions, AddDelivery, Enqueue, Interrupt

LEMMA IngestStepKeeps ==
  ASSUME ReceiverInv, IngestNext, UNCHANGED recvars
  PROVE  ReceiverInv'
<1>1. IngestInv' /\ events \subseteq events'
  BY IngestNextKeeps, EventsStay DEF ReceiverInv
<1>2. TypeOK'
  BY <1>1 DEF ReceiverInv, TypeOK, recvars, IngestInv
<1>3. Answers' /\ Attempts' /\ ProcessedOnce' /\ DeliveredWasProcessed'
  BY <1>1 DEF ReceiverInv, recvars, Answers, Attempts, ProcessedOnce,
              DeliveredWasProcessed, EventOf
<1>4. QED
  BY <1>1, <1>2, <1>3 DEF ReceiverInv

\* The worker and the receiver leave ingestion alone.
LEMMA IngestUnchanged ==
  ASSUME IngestInv, UNCHANGED ingestvars
  PROVE  IngestInv' /\ IngestTypeOK'
BY IngestNextKeeps DEF IngestInv

LEMMA PostKeeps ==
  ASSUME ReceiverInv, NEW d \in Pairs, Post(d)
  PROVE  ReceiverInv'
<1> USE DEF Post, Become
<1>1. IngestInv' /\ IngestTypeOK'
  BY IngestUnchanged DEF ReceiverInv
<1>2. /\ d[1] \in events
      /\ attempts[d] \in 0..MaxAttempts /\ attempts[d] < MaxAttempts
  BY DEF ReceiverInv, TypeOK, IngestTypeOK, Attempts
<1>3. /\ attempts[d] + 1 \in 1..MaxAttempts
      /\ <<d, attempts[d] + 1>> \in Posts
  BY <1>2, ReceiverAssumption DEF Posts
<1>4. TypeOK'
  BY <1>1, <1>3 DEF ReceiverInv, TypeOK, HandlerPC, ingestvars
<1>5. Answers'
  BY <1>2 DEF ReceiverInv, TypeOK, Answers, EventOf, ingestvars
<1>6. Attempts' /\ ProcessedOnce' /\ DeliveredWasProcessed'
  BY <1>3 DEF ReceiverInv, TypeOK, Attempts, ProcessedOnce, DeliveredWasProcessed
<1>7. QED
  BY <1>1, <1>4, <1>5, <1>6 DEF ReceiverInv

LEMMA RetryKeeps ==
  ASSUME ReceiverInv, NEW d \in Pairs, status[d] = "posting",
         \/ RetryOrDie(d)
         \/ hpc[Latest(d)] \in {"ok", "duplicate"} /\ Become(d, "delivered"),
         UNCHANGED <<ingestvars, processed, accepted, hpc, attempts>>
  PROVE  ReceiverInv'
<1> USE DEF RetryOrDie, Become
<1>1. IngestInv' /\ IngestTypeOK'
  BY IngestUnchanged DEF ReceiverInv
<1>2. attempts[d] \in 1..MaxAttempts
  BY DEF ReceiverInv, Attempts
<1>3. TypeOK'
  BY <1>1 DEF ReceiverInv, TypeOK, ingestvars
<1>4. Attempts'
  BY <1>2, ReceiverAssumption DEF ReceiverInv, TypeOK, Attempts
<1>5. Answers' /\ ProcessedOnce'
  BY DEF ReceiverInv, Answers, ProcessedOnce, ingestvars
<1>6. DeliveredWasProcessed'
  <2>1. Latest(d) \in Posts /\ EventOf(Latest(d)) = d[1]
    BY <1>2 DEF Latest, Posts, EventOf
  <2>2. hpc[Latest(d)] \in {"ok", "duplicate"} => d[1] \in processed
    BY <2>1 DEF ReceiverInv, Answers
  <2>3. QED
    BY <2>2 DEF ReceiverInv, TypeOK, DeliveredWasProcessed
<1>7. QED
  BY <1>1, <1>3, <1>4, <1>5, <1>6 DEF ReceiverInv

LEMMA HandlerKeeps ==
  ASSUME ReceiverInv, NEW p \in Posts, Receive(p) \/ Drop(p)
  PROVE  ReceiverInv'
<1> USE DEF Receive, CheckDuplicate, StoreProcessed, Drop, Reach
<1>1. IngestInv' /\ IngestTypeOK'
  BY IngestUnchanged DEF ReceiverInv
<1>2. EventOf(p) \in events /\ EventOf(p) \in Requests
  BY DEF ReceiverInv, Answers, TypeOK, IngestTypeOK
<1>3. TypeOK'
  BY <1>1, <1>2 DEF ReceiverInv, TypeOK, HandlerPC, ingestvars
<1>4. Answers'
  BY <1>2 DEF ReceiverInv, TypeOK, Answers, ingestvars, EventOf
<1>5. ProcessedOnce'
  BY <1>2 DEF ReceiverInv, TypeOK, ProcessedOnce
<1>6. Attempts' /\ DeliveredWasProcessed'
  BY DEF ReceiverInv, Attempts, DeliveredWasProcessed
<1>7. QED
  BY <1>1, <1>3, <1>4, <1>5, <1>6 DEF ReceiverInv

LEMMA ReceiverNextKeeps == ReceiverInv /\ [Next]_vars => ReceiverInv'
<1> SUFFICES ASSUME ReceiverInv, [Next]_vars PROVE ReceiverInv'
  OBVIOUS
<1>1. CASE UNCHANGED vars
  <2>1. IngestInv' /\ IngestTypeOK'
    BY <1>1, IngestUnchanged DEF ReceiverInv, vars
  <2>2. QED
    BY <1>1, <2>1
       DEF vars, recvars, ingestvars, ReceiverInv, TypeOK, Answers, Attempts,
           ProcessedOnce, DeliveredWasProcessed, EventOf
<1>2. CASE IngestNext /\ UNCHANGED recvars
  BY <1>2, IngestStepKeeps
<1>3. ASSUME NEW d \in Pairs, Post(d) \/ GetAnswer(d) \/ TimeOut(d)
      PROVE  ReceiverInv'
  BY <1>3, PostKeeps, RetryKeeps DEF GetAnswer, TimeOut
<1>4. CASE \E p \in Posts : Receive(p) \/ Drop(p)
  BY <1>4, HandlerKeeps
<1>5. QED
  BY <1>1, <1>2, <1>3, <1>4 DEF Next
-----------------------------------------------------------------------------
LEMMA ReceiverInvariant == Spec => []ReceiverInv
BY ReceiverInitially, ReceiverNextKeeps, PTL DEF Spec

\* The deliveries, posts and handlers keep their types; only stored events are
\* processed, and no delivery has more than MaxAttempts attempts.
THEOREM ReceiverTypeCorrect == Spec => []TypeOK
BY ReceiverInvariant, PTL DEF ReceiverInv

\* An event is processed once, however many posts of its deliveries pass
\* receive_webhook's check together and however many answers are lost.
THEOREM ProcessedOnceHolds == Spec => []ProcessedOnce
BY ReceiverInvariant, PTL DEF ReceiverInv

\* A delivery marked delivered was processed by the receiver.
THEOREM DeliveredHolds == Spec => []DeliveredWasProcessed
BY ReceiverInvariant, PTL DEF ReceiverInv

\* Ingestion is the same with workers and receiver at work: what EventIngest
\* promises holds of the composition.
THEOREM ReceiverKeepsIngest == Spec => IngestSpec
<1>1. Init => IngestInit
  BY DEF Init
<1>2. [Next]_vars => [IngestNext]_ingestvars
  BY DEF Next, vars, Post, GetAnswer, TimeOut, Receive, CheckDuplicate,
         StoreProcessed, Drop
<1>3. QED
  BY <1>1, <1>2, PTL DEF Spec, IngestSpec

=============================================================================
