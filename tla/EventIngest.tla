----------------------------- MODULE EventIngest -----------------------------
(***************************************************************************)
(* Accepting events: concurrent POST /events/ requests                      *)
(* (app/api/routes/events.py, create_event), the idempotency check, and the *)
(* fan-out of a stored event to its tenant's subscriptions                  *)
(* (app/services/routing_engine.py, fan_out_event).                         *)
(*                                                                          *)
(* A handler is a coroutine: between two awaits other handlers run, so each *)
(* statement it awaits is a step.  A session keeps what it loaded after a   *)
(* commit (expire_on_commit=False).  Nothing resumes a fan-out that an      *)
(* exception or the death of the process cut short.  An event is named by   *)
(* the request that stores it, a delivery by its event and subscription.    *)
(***************************************************************************)
EXTENDS Naturals, FiniteSets

CONSTANTS
  Requests,       \* POST /events/ requests, a client's retries included
  Tenants,
  Keys,           \* idempotency keys
  Empty,          \* the key "", which Python takes for no key
  Topics,         \* event types
  Wanted,         \* request -> [tenant, key, topic]; key None if absent
  Subscriptions,  \* POST /subscriptions/ requests
  Subscriber,     \* subscription -> [tenant, topic]
  None            \* no key, no event, no subscription

ASSUME IngestAssumption ==
  /\ IsFiniteSet(Requests)
  /\ Wanted \in [Requests -> [tenant : Tenants, key : Keys \cup {None},
                              topic : Topics]]
  /\ Subscriber \in [Subscriptions -> [tenant : Tenants, topic : Topics]]
  /\ None \notin Keys \cup Requests \cup Subscriptions

VARIABLES
  registered,  \* subscriptions in the table, active for good
  events,      \* requests whose event is in the table
  deliveries,  \* <<event, subscription>>: rows of subscription_deliveries
  queued,      \* deliveries whose first task was sent
  sent,        \* tenant -> column events_sent_count
  rpc,         \* request -> where its handler is
  seen,        \* request -> the events_sent_count its session loaded
  found,       \* request -> the subscriptions its fan-out read
  serving,     \* request -> the subscription whose row awaits its task
  answer       \* request -> the event it was answered with

ingestvars == <<registered, events, deliveries, queued, sent, rpc, seen, found,
                serving, answer>>

RequestPC == {"new", "check", "insert", "select", "fan_out", "enqueue",
              "answered", "failed"}

Running(r) == rpc[r] \notin {"new", "answered", "failed"}

EventsOf(t) == {e \in events : Wanted[e].tenant = t}

SameName(e, r) ==
  Wanted[e].tenant = Wanted[r].tenant /\ Wanted[e].key = Wanted[r].key

Anonymous == {r \in Requests : Wanted[r].key = None}

\* The events a request's tenant and key name.
Matching(r) == {e \in events : SameName(e, r)}

\* The subscription is the event's tenant's, and to its topic.
Covers(s, e) == /\ Subscriber[s].tenant = Wanted[e].tenant
                /\ Subscriber[s].topic = Wanted[e].topic

\* SubscriptionCRUD.get_topic_subscriptions; nothing deactivates a subscription.
TopicSubscriptions(e) == {s \in registered : Covers(s, e)}

ToServe(r) == {s \in found[r] : <<r, s>> \notin deliveries}

Move(r, p) == rpc' = [rpc EXCEPT ![r] = p]

\* The handler has no more use for the counter it read.
Forget(r) == seen' = [seen EXCEPT ![r] = 0]

IngestTypeOK ==
  /\ registered \subseteq Subscriptions
  /\ events \subseteq Requests
  /\ deliveries \subseteq {d \in events \X registered : Covers(d[2], d[1])}
  /\ queued \subseteq deliveries
  /\ sent \in [Tenants -> Nat]
  /\ rpc \in [Requests -> RequestPC]
  /\ seen \in [Requests -> Nat]
  /\ found \in [Requests -> SUBSET registered]
  /\ \A r \in Requests : found[r] \subseteq TopicSubscriptions(r)
  /\ serving \in [Requests -> Subscriptions \cup {None}]
  /\ answer \in [Requests -> Requests \cup {None}]

IngestInit ==
  /\ registered = {} /\ events = {} /\ deliveries = {} /\ queued = {}
  /\ sent = [t \in Tenants |-> 0]
  /\ rpc = [r \in Requests |-> "new"]
  /\ seen = [r \in Requests |-> 0]
  /\ found = [r \in Requests |-> {}]
  /\ serving = [r \in Requests |-> None]
  /\ answer = [r \in Requests |-> None]

\* POST /subscriptions/ by the tenant itself.
Subscribe(s) ==
  /\ s \notin registered
  /\ registered' = registered \cup {s}
  /\ UNCHANGED <<events, deliveries, queued, sent, rpc, seen, found, serving,
                 answer>>

(***************************************************************************)
(* POST /events/                                                            *)
(***************************************************************************)
\* get_current_tenant: the session holds the tenant's row from here on.
Authenticate(r) ==
  /\ rpc[r] = "new"
  /\ seen' = [seen EXCEPT ![r] = sent[Wanted[r].tenant]]
  /\ Move(r, IF Wanted[r].key \in {None, Empty} THEN "insert" ELSE "check")
  /\ UNCHANGED <<registered, events, deliveries, queued, sent, found, serving,
                 answer>>

\* Mutated form of CheckKey: the key is missing from the WHERE clause.
CheckTenantOnly(r) ==
  /\ rpc[r] = "check"
  /\ \/ \E e \in EventsOf(Wanted[r].tenant) :
          /\ answer' = [answer EXCEPT ![r] = e]
          /\ Move(r, "answered")
     \/ /\ EventsOf(Wanted[r].tenant) = {}
        /\ Move(r, "insert")
        /\ UNCHANGED answer
  /\ UNCHANGED <<registered, events, deliveries, queued, sent, seen, found,
                 serving>>

\* Mutated form of CheckKey: the request is counted before the check.
CheckKeyCounted(r) ==
  /\ rpc[r] = "check"
  /\ sent' = [sent EXCEPT ![Wanted[r].tenant] = seen[r] + 1]
  /\ \/ \E e \in Matching(r) : /\ answer' = [answer EXCEPT ![r] = e]
                               /\ Move(r, "answered")
     \/ /\ Matching(r) = {}
        /\ Move(r, "insert")
        /\ UNCHANGED answer
  /\ UNCHANGED <<registered, events, deliveries, queued, seen, found, serving>>

\* The idempotency check; an event found is returned as it is.
CheckKey(r) ==
  /\ rpc[r] = "check"
  /\ \/ \E e \in Matching(r) : /\ answer' = [answer EXCEPT ![r] = e]
                               /\ Move(r, "answered")
     \/ /\ Matching(r) = {}
        /\ Move(r, "insert")
        /\ UNCHANGED answer
  /\ UNCHANGED <<registered, events, deliveries, queued, sent, seen, found,
                 serving>>

\* uq_tenant_idempotency; NULL keys never conflict, empty ones do.
Conflicts(r) == Wanted[r].key # None /\ Matching(r) # {}

\* Mutated form of StoreEvent: no unique constraint behind the check.
StoreEventUnchecked(r) ==
  /\ rpc[r] = "insert"
  /\ events' = events \cup {r}
  /\ sent' = [sent EXCEPT ![Wanted[r].tenant] = seen[r] + 1]
  /\ Move(r, "select")
  /\ Forget(r)
  /\ UNCHANGED <<registered, deliveries, queued, found, serving, answer>>

\* The INSERT and the tenant's counter in one commit; a conflict fails both.
StoreEvent(r) ==
  /\ rpc[r] = "insert"
  /\ \/ /\ ~Conflicts(r)
        /\ events' = events \cup {r}
        /\ sent' = [sent EXCEPT ![Wanted[r].tenant] = seen[r] + 1]
        /\ Move(r, "select")
     \/ /\ Conflicts(r)
        /\ Move(r, "failed")
        /\ UNCHANGED <<events, sent>>
  /\ Forget(r)
  /\ UNCHANGED <<registered, deliveries, queued, found, serving, answer>>

Finish(r) == /\ answer' = [answer EXCEPT ![r] = r]
             /\ Move(r, "answered")

\* fan_out_event reads the subscriptions once.
SelectSubscriptions(r) ==
  /\ rpc[r] = "select"
  /\ found' = [found EXCEPT ![r] = TopicSubscriptions(r)]
  /\ IF TopicSubscriptions(r) = {}
       THEN Finish(r)
       ELSE Move(r, "fan_out") /\ UNCHANGED answer
  /\ UNCHANGED <<registered, events, deliveries, queued, sent, seen, serving>>

\* Mutated form of AddDelivery: the task is sent before the row's commit.
AddDeliveryLater(r) ==
  /\ rpc[r] = "fan_out"
  /\ \E s \in ToServe(r) : serving' = [serving EXCEPT ![r] = s]
  /\ Move(r, "enqueue")
  /\ UNCHANGED <<registered, events, deliveries, queued, sent, seen, found,
                 answer>>

\* The delivery's row is committed ...
AddDelivery(r) ==
  /\ rpc[r] = "fan_out"
  /\ \E s \in ToServe(r) :
       /\ deliveries' = deliveries \cup {<<r, s>>}
       /\ serving' = [serving EXCEPT ![r] = s]
  /\ Move(r, "enqueue")
  /\ UNCHANGED <<registered, events, queued, sent, seen, found, answer>>

\* Mutated form of Enqueue: it answers after the first subscription.
EnqueueFirst(r) ==
  /\ rpc[r] = "enqueue"
  /\ queued' = queued \cup {<<r, serving[r]>>}
  /\ serving' = [serving EXCEPT ![r] = None]
  /\ Finish(r)
  /\ UNCHANGED <<registered, events, deliveries, sent, seen, found>>

\* ... and then its task is sent, to whichever queue get_adaptive_queue names.
Enqueue(r) ==
  /\ rpc[r] = "enqueue"
  /\ queued' = queued \cup {<<r, serving[r]>>}
  /\ serving' = [serving EXCEPT ![r] = None]
  /\ IF ToServe(r) = {} THEN Finish(r)
                     ELSE Move(r, "fan_out") /\ UNCHANGED answer
  /\ UNCHANGED <<registered, events, deliveries, sent, seen, found>>

\* An exception (the broker refuses a task) or the death of the API process:
\* the request fails where it is, what it committed stays.
Interrupt(r) ==
  /\ Running(r)
  /\ Move(r, "failed")
  /\ Forget(r)
  /\ UNCHANGED <<registered, events, deliveries, queued, sent, found,
                 serving, answer>>

Handle(r) ==
  \/ Authenticate(r) \/ CheckKey(r) \/ StoreEvent(r)
  \/ SelectSubscriptions(r) \/ AddDelivery(r) \/ Enqueue(r)

IngestNext ==
  \/ \E s \in Subscriptions : Subscribe(s)
  \/ \E r \in Requests : Handle(r) \/ Interrupt(r)

IngestSpec == IngestInit /\ [][IngestNext]_ingestvars

(***************************************************************************)
(* Properties.                                                              *)
(***************************************************************************)
\* A client's retry never stores a second event: whatever requests overlap,
\* a tenant's key names one event at most (create_event checks and inserts in
\* separate statements).
OneEventPerKey ==
  \A e, f \in events : Wanted[e].key # None /\ SameName(e, f) => e = f

\* create_event as its clients see it: whatever requests overlap, fail or die,
\* an event is stored under a free name only, stays, and an answer names a
\* stored event that is the request's own or bears its name.
Contract == INSTANCE EventContract
  WITH stored <- events

EventContractHolds == Contract!Spec

\* The request that stored an event answers only when every subscription that
\* its fan-out read has its row and its first task; a row without a task is
\* left only by the request that is about to send it, or was cut short
\* (fan_out_event commits a row, then sends its task).
FanOutComplete ==
  \A e \in events :
    /\ rpc[e] = "answered" => \A s \in found[e] : <<e, s>> \in queued
    /\ \A s \in registered :
         <<e, s>> \in deliveries \ queued =>
           rpc[e] \in {"enqueue", "failed"} /\ serving[e] = s

\* Concurrent requests lose increments of events_sent_count, which every
\* handler adds to the value it read when it authenticated, but the count is
\* never more than the tenant's events, and it is positive once there is one.
UsageNotOverstated ==
  \A t \in Tenants : /\ sent[t] <= Cardinality(EventsOf(t))
                     /\ EventsOf(t) # {} => sent[t] > 0

=============================================================================
