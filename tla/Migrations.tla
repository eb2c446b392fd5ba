----------------------------- MODULE Migrations -----------------------------
(***************************************************************************)
(* The database schema under Alembic (migration/versions): a chain of       *)
(* fifteen revisions, each a list of schema operations up and one down.     *)
(* A command runs in one transaction (migration/env.py): an operation that  *)
(* fails rolls all of it back.                                              *)
(*                                                                          *)
(* A schema is what the operations can tell apart: columns and whether they *)
(* are nullable, constraints, indexes, foreign keys.  Types and defaults    *)
(* are left out but for the two columns whose type a revision changes.  The *)
(* rows are what an operation can fail on: NULLs, duplicates, references to *)
(* nothing, text that is no number.  The program as it was at the earlier   *)
(* revisions is not in the repository, so any row the schema admits may     *)
(* appear.  Primary keys, always id, are columns like the others.           *)
(***************************************************************************)
EXTENDS Naturals, SequencesExt

VARIABLES
  rev,        \* revisions applied; alembic_version
  schema,     \* the schema
  rows,       \* what the tables' rows would fail
  leftovers   \* history: the database was downgraded past 355494f53fe9

vars == <<rev, schema, rows, leftovers>>

NoSchema == [columns |-> {}, uniques |-> {}, indexes |-> {}, foreign |-> {}]

(***************************************************************************)
(* Schema operations, as data.                                              *)
(***************************************************************************)
Column(t, c, nullable) ==
  [table |-> t, name |-> c, nullable |-> nullable, type |-> "its own"]

Columns(t, required, optional) ==
  {Column(t, c, FALSE) : c \in required} \cup {Column(t, c, TRUE) : c \in optional}

CreateTable(t, required, optional) ==
  [do |-> "create_table", table |-> t, columns |-> Columns(t, required, optional)]

DropTable(t) == [do |-> "drop_table", table |-> t]

AddColumns(t, required, optional) ==
  [do |-> "add_columns", table |-> t, columns |-> Columns(t, required, optional)]

DropColumns(t, names) == [do |-> "drop_columns", table |-> t, names |-> names]

SetNullable(t, c, nullable) ==
  [do |-> "set_nullable", table |-> t, name |-> c, nullable |-> nullable]

SetType(t, c, type) ==
  [do |-> "set_type", table |-> t, name |-> c, type |-> type]

Unique(t, names) == [do |-> "unique", table |-> t, names |-> names]

DropUnique(t, names) == [do |-> "drop_unique", table |-> t, names |-> names]

Index(t, names, unique) ==
  [do |-> "index", table |-> t, names |-> names, unique |-> unique]

DropIndex(t, names) == [do |-> "drop_index", table |-> t, names |-> names]

Reference(t, c, target) ==
  [do |-> "reference", table |-> t, name |-> c, target |-> target]

\* drop_constraint(None, ...): there is no DROP CONSTRAINT without a name.
DropUnnamed(t) == [do |-> "drop_unnamed", table |-> t]

(***************************************************************************)
(* Rows that an operation fails on.                                         *)
(***************************************************************************)
Null(t, c)    == [row |-> "null", table |-> t, names |-> {c}]
Twins(t, cs)  == [row |-> "twins", table |-> t, names |-> cs]
Orphan(t, c)  == [row |-> "orphan", table |-> t, names |-> {c}]
Text(t, c)    == [row |-> "text", table |-> t, names |-> {c}]

RowDefects ==
  {Null("events", "tenant_id"), Null("events", "replay_count"),
   Twins("events", {"idempotency_key"}),
   Twins("events", {"tenant_id", "idempotency_key"}),
   Twins("circuit_breakers", {"endpoint_url"}),
   Twins("circuit_breakers", {"tenant_id", "endpoint_url"}),
   Orphan("circuit_breakers", "tenant_id"), Orphan("subscriptions", "tenant_id"),
   Text("subscriptions", "tenant_id")}

Names(s, t) == {c.name : c \in {k \in s.columns : k.table = t}}

\* What the schema s lets the rows be.
Admits(s, r) ==
  LET its == {c \in s.columns : c.table = r.table /\ c.name \in r.names}
  IN
  /\ r.names \subseteq Names(s, r.table)
  /\ CASE r.row = "null"   -> \A c \in its : c.nullable
       [] r.row = "text"   -> \A c \in its : c.type = "text"
       [] r.row = "orphan" ->
            ~\E f \in s.foreign : f.table = r.table /\ f.name \in r.names
       [] r.row = "twins"  ->
            ~\E u \in s.uniques \cup {i \in s.indexes : i.unique} :
               u.table = r.table /\ u.names \subseteq r.names

(***************************************************************************)
(* What PostgreSQL makes of an operation.                                   *)
(***************************************************************************)
Without(s, gone(_)) ==
  [columns |-> {x \in s.columns : ~gone(x)}, uniques |-> {x \in s.uniques : ~gone(x)},
   indexes |-> {x \in s.indexes : ~gone(x)}, foreign |-> {x \in s.foreign : ~gone(x)}]

Altered(s, o, new(_)) ==
  [s EXCEPT !.columns =
     {IF c.table = o.table /\ c.name = o.name THEN new(c) ELSE c : c \in @}]

Key(o) == [table |-> o.table, names |-> o.names]

\* Rows that agree on more columns agree on these.
Repeated(o, rs) ==
  \E r \in rs : r.row = "twins" /\ r.table = o.table /\ o.names \subseteq r.names

\* Whether the operation o can be done to schema s over rows rs.
Possible(s, o, rs) ==
  CASE o.do = "create_table" -> Names(s, o.table) = {}
    [] o.do = "drop_table"   -> /\ Names(s, o.table) # {}
                                /\ ~\E f \in s.foreign : f.target = o.table
    [] o.do = "add_columns"  -> /\ Names(s, o.table) # {}
                                /\ Names([columns |-> o.columns], o.table)
                                     \cap Names(s, o.table) = {}
    [] o.do = "drop_columns" -> o.names \subseteq Names(s, o.table)
    [] o.do = "set_nullable" -> /\ o.name \in Names(s, o.table)
                                /\ o.nullable \/ Null(o.table, o.name) \notin rs
    [] o.do = "set_type"     -> /\ o.name \in Names(s, o.table)
                                /\ o.type = "text" \/ Text(o.table, o.name) \notin rs
    [] o.do = "unique"       -> Key(o) \notin s.uniques /\ ~Repeated(o, rs)
    [] o.do = "drop_unique"  -> Key(o) \in s.uniques
    [] o.do = "index"        -> /\ \A i \in s.indexes : Key(i) # Key(o)
                                /\ ~(o.unique /\ Repeated(o, rs))
    [] o.do = "drop_index"   -> \E i \in s.indexes : Key(i) = Key(o)
    [] o.do = "reference"    -> /\ Names(s, o.target) # {}
                                /\ \A c \in s.columns :
                                     c.table = o.table /\ c.name = o.name
                                       => c.type # "text"
                                /\ Orphan(o.table, o.name) \notin rs
    [] o.do = "drop_unnamed" -> FALSE

Done(s, o) ==
  CASE o.do \in {"create_table", "add_columns"} ->
         [s EXCEPT !.columns = @ \cup o.columns]
    [] o.do = "drop_table"   -> LET In(x) == x.table = o.table IN Without(s, In)
    [] o.do = "drop_columns" ->
         LET Of(x) == /\ x.table = o.table
                      /\ IF "names" \in DOMAIN x THEN x.names \cap o.names # {}
                                                 ELSE x.name \in o.names
         IN  Without(s, Of)
    [] o.do = "set_nullable" ->
         LET New(c) == [c EXCEPT !.nullable = o.nullable] IN Altered(s, o, New)
    [] o.do = "set_type"     ->
         LET New(c) == [c EXCEPT !.type = o.type] IN Altered(s, o, New)
    [] o.do = "unique"       -> [s EXCEPT !.uniques = @ \cup {Key(o)}]
    [] o.do = "drop_unique"  -> [s EXCEPT !.uniques = @ \ {Key(o)}]
    [] o.do = "index"        ->
         [s EXCEPT !.indexes = @ \cup {[table |-> o.table, names |-> o.names,
                                        unique |-> o.unique]}]
    [] o.do = "drop_index"   ->
         [s EXCEPT !.indexes = {i \in @ : Key(i) # Key(o)}]
    [] o.do = "reference"    ->
         [s EXCEPT !.foreign = @ \cup {[table |-> o.table, name |-> o.name,
                                        target |-> o.target]}]

\* A list of operations in one transaction.
Migrated(s, ops, rs) ==
  LET Step(r, o) ==
        IF r.ok /\ Possible(r.schema, o, rs)
          THEN [r EXCEPT !.schema = Done(r.schema, o)]
          ELSE [r EXCEPT !.ok = FALSE]
  IN  FoldLeft(Step, [ok |-> TRUE, schema |-> s], ops)

(***************************************************************************)
(* The revisions, in the order of their down_revision links.                *)
(***************************************************************************)
UpTenants ==
  <<CreateTable("tenants", {"id", "name", "email", "api_key"}, {"created_at"}),
    Unique("tenants", {"api_key"}), Unique("tenants", {"email"}),
    Index("tenants", {"id"}, FALSE)>>
DownTenants == <<DropIndex("tenants", {"id"}), DropTable("tenants")>>

UpEvents ==
  <<CreateTable("events", {"id", "tenant_id", "event_type", "payload"},
                {"status", "received_at"}),
    Reference("events", "tenant_id", "tenants"),
    Index("events", {"id"}, FALSE)>>
DownEvents == <<DropIndex("events", {"id"}), DropTable("events")>>

UpWebhookUrl == <<AddColumns("tenants", {}, {"webhook_url"})>>
DownWebhookUrl == <<DropColumns("tenants", {"webhook_url"})>>

UpDeliveryTracking ==
  <<AddColumns("events", {}, {"retry_count", "last_error", "delivered_at"}),
    SetNullable("events", "tenant_id", TRUE)>>
DownDeliveryTracking ==
  <<SetNullable("events", "tenant_id", FALSE),
    DropColumns("events", {"delivered_at", "last_error", "retry_count"})>>

UpWebhookSecret == <<AddColumns("tenants", {}, {"webhook_secret"})>>
DownWebhookSecret == <<DropColumns("tenants", {"webhook_secret"})>>

UpProcessedWebhooks ==
  <<CreateTable("processed_webhooks", {"id", "event_id"}, {"processed_at"}),
    Unique("processed_webhooks", {"event_id"})>>
DownProcessedWebhooks == <<DropTable("processed_webhooks")>>

UpIdempotencyKey ==
  <<AddColumns("events", {}, {"idempotency_key"}),
    Unique("events", {"idempotency_key"})>>
DownIdempotencyKey ==
  <<DropUnnamed("events"), DropColumns("events", {"idempotency_key"})>>

UpReplayMetadata ==
  <<AddColumns("events", {"replay_count"}, {"last_replayed_at"}),
    SetType("events", "last_replayed_at", "timestamp")>>
DownReplayMetadata ==
  <<DropColumns("events", {"replay_count", "last_replayed_at"})>>

UpReliability ==
  <<AddColumns("events", {}, {"failure_type", "retryable", "next_retry_at"}),
    SetNullable("events", "replay_count", TRUE),
    SetType("events", "last_replayed_at", "timestamptz"),
    CreateTable("delivery_attempts", {"id", "attempt_number"},
                {"event_id", "status_code", "response_body",
                 "response_time_ms", "failure_type", "created_at"}),
    Reference("delivery_attempts", "event_id", "events"),
    CreateTable("dead_letter_events",
                {"id", "original_event_id", "failure_type", "final_error"},
                {"replay_count", "failed_at"})>>

DownReliability ==
  <<DropTable("dead_letter_events"), DropTable("delivery_attempts"),
    DropColumns("events", {"next_retry_at", "retryable", "failure_type"}),
    SetType("events", "last_replayed_at", "timestamp"),
    SetNullable("events", "replay_count", FALSE)>>

UpSubscriptions ==
  <<CreateTable("subscriptions", {"id", "tenant_id", "topic", "endpoint_url"},
                {"is_active", "created_at"}),
    SetType("subscriptions", "tenant_id", "text"),
    Index("subscriptions", {"id"}, FALSE),
    Index("subscriptions", {"tenant_id"}, FALSE),
    Index("subscriptions", {"topic"}, FALSE)>>
DownSubscriptions ==
  <<DropIndex("subscriptions", {"topic"}),
    DropIndex("subscriptions", {"tenant_id"}),
    DropIndex("subscriptions", {"id"}), DropTable("subscriptions")>>

UpSubscriptionTenant == <<SetType("subscriptions", "tenant_id", "integer")>>
DownSubscriptionTenant == <<SetType("subscriptions", "tenant_id", "text")>>

UpCircuitBreakers ==
  <<CreateTable("circuit_breakers", {"id", "endpoint_url", "tenant_id", "state"},
                {"failure_count", "failure_threshold", "cooldown_seconds",
                 "last_failure_at", "opened_at", "last_success_at",
                 "created_at"}),
    Index("circuit_breakers", {"id"}, FALSE),
    Index("circuit_breakers", {"endpoint_url"}, TRUE),
    Index("circuit_breakers", {"tenant_id"}, FALSE)>>
DownCircuitBreakers ==
  <<DropIndex("circuit_breakers", {"tenant_id"}),
    DropIndex("circuit_breakers", {"endpoint_url"}),
    DropIndex("circuit_breakers", {"id"}), DropTable("circuit_breakers")>>

HealthColumns == {"success_count", "total_requests", "success_rate",
                  "average_latency_ms", "consecutive_failures",
                  "health_score", "health_state"}

\* Mutated form of UpHealth: the key is unique no longer.
UpHealthLoose ==
  <<AddColumns("circuit_breakers", HealthColumns, {}),
    SetNullable("dead_letter_events", "original_event_id", TRUE),
    SetNullable("dead_letter_events", "failure_type", TRUE),
    SetNullable("dead_letter_events", "final_error", TRUE),
    Index("dead_letter_events", {"id"}, FALSE),
    SetNullable("delivery_attempts", "attempt_number", TRUE),
    Index("delivery_attempts", {"id"}, FALSE),
    DropUnique("events", {"idempotency_key"})>>

\* Mutated form of UpHealth: the key stays unique across tenants.
UpHealthGlobal ==
  <<AddColumns("circuit_breakers", HealthColumns, {}),
    SetNullable("dead_letter_events", "original_event_id", TRUE),
    SetNullable("dead_letter_events", "failure_type", TRUE),
    SetNullable("dead_letter_events", "final_error", TRUE),
    Index("dead_letter_events", {"id"}, FALSE),
    SetNullable("delivery_attempts", "attempt_number", TRUE),
    Index("delivery_attempts", {"id"}, FALSE)>>

\* Mutated form of UpHealth: every event must have its tenant again.
UpHealthStrict ==
  <<AddColumns("circuit_breakers", HealthColumns, {}),
    SetNullable("dead_letter_events", "original_event_id", TRUE),
    SetNullable("dead_letter_events", "failure_type", TRUE),
    SetNullable("dead_letter_events", "final_error", TRUE),
    Index("dead_letter_events", {"id"}, FALSE),
    SetNullable("delivery_attempts", "attempt_number", TRUE),
    Index("delivery_attempts", {"id"}, FALSE),
    SetNullable("events", "tenant_id", FALSE),
    DropUnique("events", {"idempotency_key"}),
    Unique("events", {"tenant_id", "idempotency_key"})>>

UpHealth ==
  <<AddColumns("circuit_breakers", HealthColumns, {}),
    SetNullable("dead_letter_events", "original_event_id", TRUE),
    SetNullable("dead_letter_events", "failure_type", TRUE),
    SetNullable("dead_letter_events", "final_error", TRUE),
    Index("dead_letter_events", {"id"}, FALSE),
    SetNullable("delivery_attempts", "attempt_number", TRUE),
    Index("delivery_attempts", {"id"}, FALSE),
    DropUnique("events", {"idempotency_key"}),
    Unique("events", {"tenant_id", "idempotency_key"})>>
\* Its downgrade drops the last of its columns and nothing else.
DownHealth == <<DropColumns("circuit_breakers", {"health_state"})>>

Counters == {"events_sent_count", "delivery_attempts_count", "retries_count"}

\* Mutated form of UpCounters: a column of the model is forgotten.
UpCountersShort == <<AddColumns("tenants", Counters \ {"retries_count"}, {})>>

UpCounters == <<AddColumns("tenants", Counters, {})>>
DownCounters == <<DropColumns("tenants", Counters)>>

UpRefactor ==
  <<CreateTable("subscription_deliveries",
                {"id", "event_id", "subscription_id", "status", "retry_count"},
                {"failure_type", "next_retry_at", "last_error", "delivered_at",
                 "created_at"}),
    Reference("subscription_deliveries", "event_id", "events"),
    Reference("subscription_deliveries", "subscription_id", "subscriptions"),
    Index("subscription_deliveries", {"id"}, FALSE),
    DropIndex("circuit_breakers", {"endpoint_url"}),
    Index("circuit_breakers", {"endpoint_url"}, FALSE),
    Unique("circuit_breakers", {"tenant_id", "endpoint_url"}),
    Reference("circuit_breakers", "tenant_id", "tenants"),
    AddColumns("dead_letter_events", {}, {"subscription_delivery_id"}),
    Reference("dead_letter_events", "subscription_delivery_id",
              "subscription_deliveries"),
    Reference("subscriptions", "tenant_id", "tenants")>>
DownRefactor ==
  <<DropUnnamed("subscriptions"), DropUnnamed("dead_letter_events"),
    DropColumns("dead_letter_events", {"subscription_delivery_id"}),
    DropUnnamed("circuit_breakers"),
    DropUnique("circuit_breakers", {"tenant_id", "endpoint_url"}),
    DropIndex("circuit_breakers", {"endpoint_url"}),
    Index("circuit_breakers", {"endpoint_url"}, TRUE),
    DropIndex("subscription_deliveries", {"id"}),
    DropTable("subscription_deliveries")>>

Up == <<UpTenants, UpEvents, UpWebhookUrl, UpDeliveryTracking, UpWebhookSecret,
        UpProcessedWebhooks, UpIdempotencyKey, UpReplayMetadata, UpReliability,
        UpSubscriptions, UpSubscriptionTenant, UpCircuitBreakers, UpHealth,
        UpCounters, UpRefactor>>
Down == <<DownTenants, DownEvents, DownWebhookUrl, DownDeliveryTracking,
          DownWebhookSecret, DownProcessedWebhooks, DownIdempotencyKey,
          DownReplayMetadata, DownReliability, DownSubscriptions,
          DownSubscriptionTenant, DownCircuitBreakers, DownHealth, DownCounters,
          DownRefactor>>

Latest == Len(Up)
HealthRevision == 13   \* 355494f53fe9

(***************************************************************************)
(* The schema that the ORM's models describe (app/models).                  *)
(***************************************************************************)
ModelTenant ==
  <<CreateTable("tenants", {"id", "name", "email", "api_key",
                            "events_sent_count", "delivery_attempts_count",
                            "retries_count"},
                {"webhook_url", "created_at", "webhook_secret"}),
    Unique("tenants", {"email"}), Unique("tenants", {"api_key"}),
    Index("tenants", {"id"}, FALSE)>>

ModelEvent ==
  <<CreateTable("events", {"id", "event_type", "payload"},
                {"tenant_id", "status", "retry_count", "failure_type",
                 "retryable", "next_retry_at", "last_error", "delivered_at",
                 "received_at", "idempotency_key", "replay_count",
                 "last_replayed_at"}),
    SetType("events", "last_replayed_at", "timestamptz"),
    Reference("events", "tenant_id", "tenants"),
    Unique("events", {"tenant_id", "idempotency_key"}),
    Index("events", {"id"}, FALSE)>>

ModelSubscription ==
  <<CreateTable("subscriptions", {"id", "tenant_id", "topic", "endpoint_url"},
                {"is_active", "created_at"}),
    SetType("subscriptions", "tenant_id", "integer"),
    Reference("subscriptions", "tenant_id", "tenants"),
    Index("subscriptions", {"id"}, FALSE),
    Index("subscriptions", {"tenant_id"}, FALSE),
    Index("subscriptions", {"topic"}, FALSE)>>

ModelSubscriptionDelivery ==
  <<CreateTable("subscription_deliveries",
                {"id", "event_id", "subscription_id", "status", "retry_count"},
                {"failure_type", "next_retry_at", "last_error", "delivered_at",
                 "created_at"}),
    Reference("subscription_deliveries", "event_id", "events"),
    Reference("subscription_deliveries", "subscription_id", "subscriptions"),
    Index("subscription_deliveries", {"id"}, FALSE)>>

ModelDeliveryAttempt ==
  <<CreateTable("delivery_attempts", {"id"},
                {"event_id", "attempt_number", "status_code", "response_body",
                 "response_time_ms", "failure_type", "created_at"}),
    Reference("delivery_attempts", "event_id", "events"),
    Index("delivery_attempts", {"id"}, FALSE)>>

ModelDeadLetterEvent ==
  <<CreateTable("dead_letter_events", {"id"},
                {"original_event_id", "subscription_delivery_id",
                 "failure_type", "final_error", "replay_count", "failed_at"}),
    Reference("dead_letter_events", "subscription_delivery_id",
              "subscription_deliveries"),
    Index("dead_letter_events", {"id"}, FALSE)>>

ModelProcessedWebhook ==
  <<CreateTable("processed_webhooks", {"id", "event_id"}, {"processed_at"}),
    Unique("processed_webhooks", {"event_id"})>>

ModelCircuitBreaker ==
  <<CreateTable("circuit_breakers",
                {"id", "endpoint_url", "tenant_id", "state"} \cup HealthColumns,
                {"failure_count", "failure_threshold", "cooldown_seconds",
                 "last_failure_at", "opened_at", "last_success_at",
                 "created_at"}),
    Reference("circuit_breakers", "tenant_id", "tenants"),
    Unique("circuit_breakers", {"tenant_id", "endpoint_url"}),
    Index("circuit_breakers", {"id"}, FALSE),
    Index("circuit_breakers", {"endpoint_url"}, FALSE),
    Index("circuit_breakers", {"tenant_id"}, FALSE)>>

ModelSchema ==
  Migrated(NoSchema,
           ModelTenant \o ModelEvent \o ModelSubscription
             \o ModelSubscriptionDelivery \o ModelDeliveryAttempt
             \o ModelDeadLetterEvent \o ModelProcessedWebhook
             \o ModelCircuitBreaker,
           {}).schema

(***************************************************************************)
(* Commands: alembic upgrade and downgrade, to any revision.                *)
(***************************************************************************)
Upgrades(from, to) == FlattenSeq(SubSeq(Up, from + 1, to))
Downgrades(from, to) == FlattenSeq(Reverse(SubSeq(Down, to + 1, from)))

SchemaAt == [r \in 0..Latest |-> Migrated(NoSchema, Upgrades(0, r), {}).schema]

Init == rev = 0 /\ schema = NoSchema /\ rows = {} /\ leftovers = FALSE

\* Rows are lost only with their table or column.
Kept(s) == {r \in rows : r.names \subseteq Names(s, r.table)}

PastHealth(to) == HealthRevision \in to + 1 .. rev

\* Mutated form of Commit: what was done before an operation failed stays done.
CommitEach(to, result) ==
  /\ rev' = IF result.ok THEN to ELSE rev
  /\ schema' = result.schema
  /\ rows' = Kept(result.schema)
  /\ leftovers' = (leftovers \/ (result.ok /\ PastHealth(to)))

\* The transaction of a command: all of it, or a failure and none of it.
Commit(to, result) ==
  IF result.ok
    THEN /\ rev' = to
         /\ schema' = result.schema
         /\ rows' = Kept(result.schema)
         /\ leftovers' = (leftovers \/ PastHealth(to))
    ELSE UNCHANGED vars

Upgrade(to) == Commit(to, Migrated(schema, Upgrades(rev, to), rows))

Downgrade(to) == Commit(to, Migrated(schema, Downgrades(rev, to), rows))

\* The program at work between two commands.
Write(r) ==
  /\ r \notin rows /\ Admits(schema, r)
  /\ rows' = rows \cup {r}
  /\ UNCHANGED <<rev, schema, leftovers>>

Next ==
  \/ \E to \in rev + 1 .. Latest : Upgrade(to)
  \/ \E to \in 0 .. rev - 1 : Downgrade(to)
  \/ \E r \in RowDefects : Write(r)

Spec == Init /\ [][Next]_vars

(***************************************************************************)
(* Properties.                                                              *)
(***************************************************************************)
\* Whatever upgrades and downgrades came before, the latest revision has
\* exactly the columns, constraints, indexes and references that the models
\* of the program describe.
LatestMatchesModels == rev = Latest => schema = ModelSchema

\* The schema is a function of the recorded revision: each downgrade undoes its
\* upgrade, and a command that fails at any of its operations leaves nothing of
\* the others.  355494f53fe9's downgrade undoes little (it drops one column of
\* seven and no constraint), so a database downgraded past it is set apart.
SchemaIsItsRevision == ~leftovers => schema = SchemaAt[rev]

\* A database downgraded past 355494f53fe9 is never upgraded past it again,
\* whatever commands are tried: deeper downgrades remove what its downgrade left
\* on circuit_breakers and dead_letter_events, but none gets below 7b5ea1bccda2,
\* where the key of events could be constrained as its upgrade expects.
NeverUpgradedAgain == leftovers => rev < HealthRevision

\* "alembic upgrade head" succeeds from every revision over all rows that the
\* schema admits, but subscriptions whose tenant_id is no number (45cdff136f2b)
\* and references to tenants that do not exist (83faf0c1045a).
UpgradeNeedsCleanRows ==
  /\ ~leftovers
  /\ \A r \in rows : r.row \notin {"text", "orphan"}
  => Migrated(schema, Upgrades(rev, Latest), rows).ok

\* No sequence of commands, failed downgrades included, lets in two events of
\* one tenant with one key or two circuits of one tenant for one URL, the pairs
\* that create_event and get_or_create leave to the database to exclude.
PairsStayUnique ==
  /\ Twins("events", {"tenant_id", "idempotency_key"}) \notin rows
  /\ Twins("circuit_breakers", {"tenant_id", "endpoint_url"}) \notin rows

=============================================================================
