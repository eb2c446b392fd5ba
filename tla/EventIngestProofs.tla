-------------------------- MODULE EventIngestProofs --------------------------
(***************************************************************************)
(* Theorems of EventIngest, for any requests, tenants, keys, topics and     *)
(* subscriptions: requests of several tenants among them, which the run     *)
(* does not have.                                                           *)
(*                                                                          *)
(* What the safety properties need besides themselves is where a handler    *)
(* may be once its event is stored (Stages), that the delivery it is about  *)
(* to send has its row (Serving), and that the value of the tenant's        *)
(* counter it read is no more than the events there are (Seen).             *)
(***************************************************************************)
EXTENDS EventIngest, FiniteSetTheorems, TLAPS

Before == {"new", "check", "insert"}
After == {"select", "fan_out", "enqueue"}

Stages ==
  \A r \in Requests :
    /\ rpc[r] \in Before => r \notin events
    /\ rpc[r] \in After => r \in events
    /\ rpc[r] # "answered" => answer[r] = None
    /\ rpc[r] = "check" => Wanted[r].key # None

Serving ==
  \A r \in Requests :
    rpc[r] = "enqueue" => /\ serving[r] \in found[r]
                          /\ <<r, serving[r]>> \in deliveries

Seen ==
  \A r \in Requests :
    rpc[r] \in {"check", "insert"} =>
      seen[r] <= Cardinality(EventsOf(Wanted[r].tenant))

IngestInv ==
  /\ IngestTypeOK
  /\ Stages
  /\ Serving
  /\ FanOutComplete
  /\ OneEventPerKey
-----------------------------------------------------------------------------
(* The initial states. *)

LEMMA IngestInitially == IngestInit => IngestInv
BY IngestAssumption
   DEF IngestInit, IngestInv, IngestTypeOK, Stages, Serving, FanOutComplete,
       OneEventPerKey, RequestPC, Before, After
-----------------------------------------------------------------------------
(* Each action preserves the invariant. *)

LEMMA SubscribeKeeps ==
  ASSUME IngestInv, NEW s \in Subscriptions, Subscribe(s)
  PROVE  IngestInv'
<1> USE DEF Subscribe
<1>1. IngestTypeOK'
  BY DEF IngestInv, IngestTypeOK, TopicSubscriptions
<1>2. Stages' /\ Serving' /\ OneEventPerKey'
  BY DEF IngestInv, Stages, Serving, OneEventPerKey, SameName
<1>3. FanOutComplete'
  BY DEF IngestInv, FanOutComplete, IngestTypeOK
<1>4. QED
  BY <1>1, <1>2, <1>3 DEF IngestInv

LEMMA AuthenticateKeeps ==
  ASSUME IngestInv, NEW r \in Requests, Authenticate(r)
  PROVE  IngestInv'
<1> USE DEF Authenticate, Move
<1>1. IngestTypeOK'
  BY IngestAssumption DEF IngestInv, IngestTypeOK, RequestPC, TopicSubscriptions
<1>2. Stages' /\ Serving' /\ OneEventPerKey'
  BY DEF IngestInv, IngestTypeOK, Stages, Serving, OneEventPerKey, SameName,
         Before, After
<1>3. FanOutComplete'
  BY DEF IngestInv, FanOutComplete, IngestTypeOK, Stages, Before
<1>4. QED
  BY <1>1, <1>2, <1>3 DEF IngestInv

LEMMA CheckKeyKeeps ==
  ASSUME IngestInv, NEW r \in Requests, CheckKey(r)
  PROVE  IngestInv'
<1> USE DEF CheckKey, Move
<1>1. IngestTypeOK'
  BY DEF IngestInv, IngestTypeOK, RequestPC, Matching, TopicSubscriptions
<1>2. Stages' /\ Serving' /\ OneEventPerKey'
  BY DEF IngestInv, IngestTypeOK, Stages, Serving, OneEventPerKey, SameName,
         Before, After
<1>3. FanOutComplete'
  BY DEF IngestInv, FanOutComplete, IngestTypeOK, Stages, Before
<1>4. QED
  BY <1>1, <1>2, <1>3 DEF IngestInv

LEMMA StoreEventKeeps ==
  ASSUME IngestInv, NEW r \in Requests, StoreEvent(r)
  PROVE  IngestInv'
<1> USE DEF StoreEvent, Move, Forget
<1>1. IngestTypeOK'
  <2>1. Wanted[r].tenant \in Tenants /\ seen[r] + 1 \in Nat
    <3> HIDE DEF StoreEvent, Move, Forget
    <3> QED BY IngestAssumption DEF IngestInv, IngestTypeOK
  <2>2. sent' \in [Tenants -> Nat]
    BY <2>1 DEF IngestInv, IngestTypeOK
  <2>3. /\ events \subseteq events' /\ events' \subseteq Requests
        /\ rpc' \in [Requests -> RequestPC]
    BY DEF IngestInv, IngestTypeOK, RequestPC
  <2>4. deliveries' \subseteq events' \X registered'
    BY <2>3 DEF IngestInv, IngestTypeOK
  <2>5. QED
    BY <2>2, <2>3, <2>4 DEF IngestInv, IngestTypeOK, TopicSubscriptions
<1>2. Stages' /\ Serving'
  BY DEF IngestInv, IngestTypeOK, Stages, Serving, Before, After
<1>3. OneEventPerKey'
  BY DEF IngestInv, IngestTypeOK, OneEventPerKey, Conflicts, Matching, SameName
<1>4. FanOutComplete'
  BY DEF IngestInv, FanOutComplete, IngestTypeOK, Stages, Before
<1>5. QED
  BY <1>1, <1>2, <1>3, <1>4 DEF IngestInv

LEMMA SelectKeeps ==
  ASSUME IngestInv, NEW r \in Requests, SelectSubscriptions(r)
  PROVE  IngestInv'
<1> USE DEF SelectSubscriptions, Finish, Move
<1>1. IngestTypeOK'
  BY DEF IngestInv, IngestTypeOK, RequestPC, TopicSubscriptions
<1>2. Stages' /\ Serving' /\ OneEventPerKey'
  BY DEF IngestInv, IngestTypeOK, Stages, Serving, OneEventPerKey, SameName,
         Before, After
<1>3. FanOutComplete'
  BY DEF IngestInv, FanOutComplete, IngestTypeOK
<1>4. QED
  BY <1>1, <1>2, <1>3 DEF IngestInv

LEMMA AddDeliveryKeeps ==
  ASSUME IngestInv, NEW r \in Requests, AddDelivery(r)
  PROVE  IngestInv'
<1>1. PICK s \in ToServe(r) :
        /\ deliveries' = deliveries \cup {<<r, s>>}
        /\ serving' = [serving EXCEPT ![r] = s]
  BY DEF AddDelivery
<1>2. /\ rpc[r] = "fan_out" /\ rpc' = [rpc EXCEPT ![r] = "enqueue"]
      /\ UNCHANGED <<registered, events, queued, sent, seen, found, answer>>
      /\ r \in events
  BY DEF AddDelivery, Move, IngestInv, Stages, After
<1>3. s \in found[r] /\ s \in registered
  BY DEF ToServe, IngestInv, IngestTypeOK
<1>4. IngestTypeOK'
  BY <1>1, <1>2, <1>3 DEF IngestInv, IngestTypeOK, RequestPC, TopicSubscriptions
<1>5. Stages' /\ Serving' /\ OneEventPerKey'
  BY <1>1, <1>2, <1>3
     DEF IngestInv, IngestTypeOK, Stages, Serving, OneEventPerKey, SameName,
         Before, After
<1>6. FanOutComplete'
  BY <1>1, <1>2, <1>3 DEF IngestInv, FanOutComplete, IngestTypeOK
<1>7. QED
  BY <1>4, <1>5, <1>6 DEF IngestInv

LEMMA EnqueueKeeps ==
  ASSUME IngestInv, NEW r \in Requests, Enqueue(r)
  PROVE  IngestInv'
<1> USE DEF Enqueue, Finish, Move
<1>1. <<r, serving[r]>> \in deliveries /\ serving[r] \in found[r]
  BY DEF IngestInv, Serving
<1>2. IngestTypeOK'
  BY <1>1 DEF IngestInv, IngestTypeOK, RequestPC, TopicSubscriptions
<1>3. Stages' /\ Serving' /\ OneEventPerKey'
  BY DEF IngestInv, IngestTypeOK, Stages, Serving, OneEventPerKey, SameName,
         Before, After
<1>4. FanOutComplete'
  <2> SUFFICES ASSUME NEW e \in events
               PROVE  /\ rpc'[e] = "answered" =>
                           \A s \in found[e] : <<e, s>> \in queued'
                      /\ \A s \in registered :
                           <<e, s>> \in deliveries \ queued' =>
                             /\ rpc'[e] \in {"enqueue", "failed"}
                             /\ serving'[e] = s
    BY DEF FanOutComplete
  <2>1. CASE e # r
    BY <2>1 DEF IngestInv, FanOutComplete, IngestTypeOK
  <2>2. CASE e = r
    <3>1. \A s \in registered : <<r, s>> \in deliveries => <<r, s>> \in queued'
      BY <2>2 DEF IngestInv, FanOutComplete
    <3>2. ToServe(r) = {} => \A s \in found[r] : <<r, s>> \in queued'
      BY <3>1 DEF ToServe, IngestInv, IngestTypeOK
    <3>3. rpc'[r] = "answered" => ToServe(r) = {}
      BY DEF IngestInv, IngestTypeOK
    <3>4. QED
      BY <2>2, <3>1, <3>2, <3>3
  <2>3. QED
    BY <2>1, <2>2
<1>5. QED
  BY <1>2, <1>3, <1>4 DEF IngestInv

LEMMA InterruptKeeps ==
  ASSUME IngestInv, NEW r \in Requests, Interrupt(r)
  PROVE  IngestInv'
<1> USE DEF Interrupt, Running, Move, Forget
<1>1. IngestTypeOK'
  BY DEF IngestInv, IngestTypeOK, RequestPC, TopicSubscriptions
<1>2. Stages' /\ Serving' /\ OneEventPerKey'
  BY DEF IngestInv, IngestTypeOK, Stages, Serving, OneEventPerKey, SameName,
         Before, After
<1>3. FanOutComplete'
  BY DEF IngestInv, FanOutComplete, IngestTypeOK
<1>4. QED
  BY <1>1, <1>2, <1>3 DEF IngestInv

LEMMA IngestNextKeeps == IngestInv /\ [IngestNext]_ingestvars => IngestInv'
<1> SUFFICES ASSUME IngestInv, [IngestNext]_ingestvars PROVE IngestInv'
  OBVIOUS
<1>1. CASE UNCHANGED ingestvars
  BY <1>1 DEF ingestvars, IngestInv, IngestTypeOK, Stages, Serving,
              FanOutComplete, OneEventPerKey, SameName, TopicSubscriptions
<1>2. CASE \E s \in Subscriptions : Subscribe(s)
  BY <1>2, SubscribeKeeps
<1>3. ASSUME NEW r \in Requests, Handle(r) PROVE IngestInv'
  BY <1>3, AuthenticateKeeps, CheckKeyKeeps, StoreEventKeeps, SelectKeeps,
     AddDeliveryKeeps, EnqueueKeeps DEF Handle
<1>4. CASE \E r \in Requests : Interrupt(r)
  BY <1>4, InterruptKeeps
<1>5. QED
  BY <1>1, <1>2, <1>3, <1>4 DEF IngestNext
-----------------------------------------------------------------------------
(* What follows of every behaviour. *)

LEMMA IngestInvariant == IngestSpec => []IngestInv
BY IngestInitially, IngestNextKeeps, PTL DEF IngestSpec

\* The tables and handlers of ingestion keep their types, whatever requests
\* overlap or die: a delivery's row belongs to a stored event and a registered
\* subscription.
THEOREM IngestTypeCorrect == IngestSpec => []IngestTypeOK
BY IngestInvariant, PTL DEF IngestInv

\* A tenant's idempotency key names one event at most, however many requests
\* race between create_event's check and its INSERT.
THEOREM IdempotencyHolds == IngestSpec => []OneEventPerKey
BY IngestInvariant, PTL DEF IngestInv

\* A request that answers with its own event has sent a task for every
\* subscription it read; a row is left without its task only by a request that
\* is about to send it or was cut short.
THEOREM FanOutHolds == IngestSpec => []FanOutComplete
BY IngestInvariant, PTL DEF IngestInv
-----------------------------------------------------------------------------
(* The contract: each step of a handler is one of the client's view. *)

LEMMA ContractStep ==
  ASSUME IngestInv, [IngestNext]_ingestvars
  PROVE  [Contract!Next]_(Contract!contractvars)
<1> USE DEF Contract!contractvars, Move, Finish
<1>1. CASE UNCHANGED <<events, answer>>
  BY <1>1
<1>2. ASSUME NEW r \in Requests, Handle(r), ~UNCHANGED <<events, answer>>
      PROVE  Contract!Next
  <2>1. CASE CheckKey(r)
    <3>1. PICK e \in Matching(r) : answer' = [answer EXCEPT ![r] = e]
      BY <2>1, <1>2 DEF CheckKey
    <3>2. answer[r] = None /\ Wanted[r].key # None /\ events' = events
      BY <2>1, <1>2 DEF CheckKey, IngestInv, Stages
    <3>3. e \in events /\ e \in Contract!Named(r)
      BY <3>2 DEF Contract!Named, Anonymous, Matching
    <3>4. Contract!Answer(r)
      BY <3>1, <3>2, <3>3 DEF Contract!Answer
    <3>5. QED
      BY <3>4 DEF Contract!Next
  <2>2. CASE StoreEvent(r)
    <3>1. ~Conflicts(r) /\ events' = events \cup {r} /\ UNCHANGED answer
      BY <2>2, <1>2 DEF StoreEvent
    <3>2. r \notin events /\ answer[r] = None
      BY <2>2 DEF StoreEvent, IngestInv, Stages, Before
    <3>3. Contract!Named(r) = {}
      BY <3>1 DEF Contract!Named, Anonymous, Conflicts, Matching
    <3>4. QED
      BY <3>1, <3>2, <3>3 DEF Contract!Accept, Contract!Next
  <2>3. CASE SelectSubscriptions(r) \/ Enqueue(r)
    <3>1. /\ answer' = [answer EXCEPT ![r] = r]
          /\ events' = events
      BY <2>3, <1>2 DEF SelectSubscriptions, Enqueue
    <3>2. r \in events /\ answer[r] = None
      BY <2>3 DEF SelectSubscriptions, Enqueue, IngestInv, Stages, After
    <3>3. Contract!Answer(r)
      BY <3>1, <3>2 DEF Contract!Answer
    <3>4. QED
      BY <3>3 DEF Contract!Next
  <2>4. CASE Authenticate(r) \/ AddDelivery(r)
    BY <2>4, <1>2 DEF Authenticate, AddDelivery
  <2>5. QED
    BY <1>2, <2>1, <2>2, <2>3, <2>4 DEF Handle
<1>3. CASE \/ UNCHANGED ingestvars
           \/ \E s \in Subscriptions : Subscribe(s)
           \/ \E r \in Requests : Interrupt(r)
  BY <1>3 DEF ingestvars, Subscribe, Interrupt
<1>4. QED
  BY <1>1, <1>2, <1>3 DEF IngestNext

\* create_event is what its clients may rely on: an event is stored under a
\* free name only and stays, and an answer names a stored event that is the
\* request's own or bears its name.
THEOREM IngestImplementsContract == IngestSpec => EventContractHolds
<1>1. IngestInit => Contract!Init
  BY DEF IngestInit, Contract!Init
<1>2. QED
  BY <1>1, IngestInvariant, ContractStep, PTL
     DEF IngestSpec, EventContractHolds, Contract!Spec
-----------------------------------------------------------------------------
(* The tenant's counter. *)

UsageInv == IngestInv /\ Seen /\ UsageNotOverstated

LEMMA EventsFinite ==
  ASSUME IngestTypeOK, NEW t
  PROVE  IsFiniteSet(EventsOf(t)) /\ Cardinality(EventsOf(t)) \in Nat
BY FS_Subset, FS_CardinalityType, IngestAssumption DEF IngestTypeOK, EventsOf

\* The events of a tenant grow by the one that is stored.
LEMMA StoredCount ==
  ASSUME IngestTypeOK, NEW r \in Requests, r \notin events,
         events' = events \cup {r}, NEW t \in Tenants
  PROVE  Cardinality(EventsOf(t))' =
           Cardinality(EventsOf(t)) + IF t = Wanted[r].tenant THEN 1 ELSE 0
<1>1. CASE t = Wanted[r].tenant
  <2>1. EventsOf(t)' = EventsOf(t) \cup {r} /\ r \notin EventsOf(t)
    BY <1>1 DEF EventsOf
  <2>2. QED
    BY <1>1, <2>1, EventsFinite, FS_AddElement
<1>2. CASE t # Wanted[r].tenant
  <2>1. EventsOf(t)' = EventsOf(t)
    BY <1>2 DEF EventsOf
  <2>2. QED
    BY <1>2, <2>1, EventsFinite
<1>3. QED
  BY <1>1, <1>2

LEMMA UsageKeeps == UsageInv /\ [IngestNext]_ingestvars => UsageInv'
<1> SUFFICES ASSUME UsageInv, [IngestNext]_ingestvars PROVE UsageInv'
  OBVIOUS
<1> USE DEF UsageInv
<1>0. IngestInv' /\ IngestTypeOK
  BY IngestNextKeeps DEF IngestInv
<1>1. ASSUME UNCHANGED <<events, sent>>,
             \A r \in Requests :
               rpc'[r] \in {"check", "insert"} =>
                 seen'[r] <= Cardinality(EventsOf(Wanted[r].tenant))
      PROVE  UsageInv'
  BY <1>0, <1>1 DEF Seen, UsageNotOverstated, EventsOf
<1>2. ASSUME NEW r \in Requests, Authenticate(r) PROVE UsageInv'
  <2>1. sent[Wanted[r].tenant] <= Cardinality(EventsOf(Wanted[r].tenant))
    BY IngestAssumption DEF UsageNotOverstated
  <2>2. QED
    BY <1>0, <1>1, <1>2, <2>1 DEF Authenticate, Move, Seen, IngestTypeOK
<1>3. ASSUME NEW r \in Requests, CheckKey(r) PROVE UsageInv'
  BY <1>0, <1>1, <1>3 DEF CheckKey, Move, Seen, IngestTypeOK
<1>4. ASSUME NEW r \in Requests, StoreEvent(r) PROVE UsageInv'
  <2>1. CASE UNCHANGED <<events, sent>>
    BY <1>0, <1>1, <1>4, <2>1 DEF StoreEvent, Move, Forget, Seen, IngestTypeOK
  <2>2. CASE ~UNCHANGED <<events, sent>>
    <3>1. /\ events' = events \cup {r} /\ r \notin events
          /\ sent' = [sent EXCEPT ![Wanted[r].tenant] = seen[r] + 1]
          /\ rpc[r] = "insert" /\ rpc' = [rpc EXCEPT ![r] = "select"]
          /\ seen' = [seen EXCEPT ![r] = 0]
      BY <1>4, <2>2 DEF StoreEvent, Move, Forget, IngestInv, Stages, Before
    <3>2. \A t \in Tenants :
            /\ Cardinality(EventsOf(t)) \in Nat
            /\ Cardinality(EventsOf(t))' =
                 Cardinality(EventsOf(t)) + IF t = Wanted[r].tenant THEN 1 ELSE 0
      BY <1>0, <3>1, EventsFinite, StoredCount
    <3>3. seen[r] <= Cardinality(EventsOf(Wanted[r].tenant)) /\ seen[r] \in Nat
      BY <1>0, <3>1 DEF Seen, IngestTypeOK
    <3>4. \A q \in Requests : Wanted[q].tenant \in Tenants /\ seen[q] \in Nat
      BY <1>0, IngestAssumption DEF IngestTypeOK
    <3>5. Seen'
      BY <1>0, <3>1, <3>2, <3>4 DEF Seen, IngestTypeOK
    <3>6. UsageNotOverstated'
      <4> SUFFICES ASSUME NEW t \in Tenants
                   PROVE  /\ sent'[t] <= Cardinality(EventsOf(t))'
                          /\ EventsOf(t)' # {} => sent'[t] > 0
        BY DEF UsageNotOverstated
      <4>1. CASE t = Wanted[r].tenant
        BY <1>0, <3>1, <3>2, <3>3, <4>1 DEF IngestTypeOK
      <4>2. CASE t # Wanted[r].tenant
        <5>1. EventsOf(t)' = EventsOf(t) /\ sent'[t] = sent[t]
          BY <1>0, <3>1, <4>2 DEF EventsOf, IngestTypeOK
        <5>2. QED
          BY <3>2, <4>2, <5>1 DEF UsageNotOverstated
      <4>3. QED
        BY <4>1, <4>2
    <3>7. QED
      BY <1>0, <3>5, <3>6
  <2>3. QED
    BY <2>1, <2>2
<1>5. ASSUME NEW r \in Requests,
             \/ SelectSubscriptions(r) \/ AddDelivery(r) \/ Enqueue(r)
             \/ Interrupt(r)
      PROVE  UsageInv'
  BY <1>0, <1>1, <1>5
     DEF SelectSubscriptions, AddDelivery, Enqueue, Interrupt, Finish, Move,
         Forget, Seen, IngestTypeOK
<1>6. CASE UNCHANGED ingestvars \/ \E s \in Subscriptions : Subscribe(s)
  BY <1>0, <1>1, <1>6 DEF ingestvars, Subscribe, Seen
<1>7. QED
  BY <1>2, <1>3, <1>4, <1>5, <1>6 DEF IngestNext, Handle

\* events_sent_count never claims an event that is not stored, however many
\* handlers add to the value they read when they authenticated, and it is
\* positive once there is one.
THEOREM UsageHolds == IngestSpec => []UsageNotOverstated
<1>1. IngestInit => UsageInv
  BY IngestInitially, FS_EmptySet
     DEF IngestInit, UsageInv, Seen, UsageNotOverstated, EventsOf
<1>2. QED
  BY <1>1, UsageKeeps, PTL DEF IngestSpec, UsageInv

=============================================================================
