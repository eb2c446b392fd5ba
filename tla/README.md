# Webhook Orchestra: TLA+ models and proofs

This directory holds TLA+ models of the delivery core of Webhook Orchestra, the
TLC configurations that check them on small instances, and theorems about them
that TLAPS proves for every value of the constants. File and line references
are to the repository beside it (`src/`).

## The system

A tenant posts an event (`app/api/routes/events.py`); the API stores it and
writes one `subscription_deliveries` row and one Celery task for every active
subscription (`app/services/routing_engine.py`). Worker threads (two pools, 32
and 16 threads in `docker-compose.yml`) take the tasks and post the webhook.
Workers share nothing but PostgreSQL and RabbitMQ; they meet in the rows they
write.

| Component | State it keeps | Operations | Modelled |
|---|---|---|---|
| Circuit breaker service (`circuit_breaker_service.py`) | `circuit_breakers` rows, one per (tenant, URL) | `get_or_create`, `should_allow_request`, `record_success`, `record_failure`, `calculate_health` | `CircuitBreaker`; statistics and health in `CircuitHealth` |
| Webhook engine (`webhook_engine.py`, `delivery_attempt_service.py`, `dlq_service.py`) | `subscription_deliveries`, `delivery_attempts`, `dead_letter_events` rows; `delivery_attempts_count`, `retries_count` of the tenant | `process_event`, `handle_circuit_open`, `handle_failure`, `log_attempt`, `move_to_dlq` | `WebhookEngine`; counters and row locks in `Accounting` |
| Celery worker (`worker/`) | the queues, a session per task | `deliver_webhook` | in `WebhookEngine` |
| Classifier, retry policy, backoff | none | `classify`, `is_retryable`, `max_retries`, `get_delay` | `RetryPolicy` |
| Event ingest, idempotency (`routes/events.py`) | `events` rows, `events_sent_count` of the tenant | `create_event` | `EventIngest` |
| Fan-out, adaptive routing (`routing_engine.py`) | delivery rows, first tasks | `fan_out_event`, `get_adaptive_queue` | in `EventIngest`; the choice of a queue is left out |
| Replay (`routes/dlq.py`, `replay_service.py`) | revives deliveries | `replay_dead_event`, `replay_event` | `Replay` |
| Webhook receiver (`webhook_receiver.py`) | `processed_webhooks` rows | `receive_webhook` | `WebhookReceiver` |
| Schema migrations (`migration/`) | the schema, `alembic_version` | `upgrade`, `downgrade` of fifteen revisions | `Migrations` |
| Tenants, subscriptions, authentication | rows written once | single statements | subscribing and loading the tenant, in `EventIngest` |
| Signature, read-only queries, logging context, metrics, tracing, deployment, load generators | none the delivery path reads | | no, see below |

How they interact: the engine calls the breaker inside the same database
session, so the breaker's `db.commit()` also commits and expires the engine's
rows, and a lock the breaker leaves held is released by the engine's next
commit. A task hands over to its successor through the broker
(`celery.send_task`), outside any transaction.

What is hard here:

- **Races on a shared row.** Many workers call the breaker of one URL.
  `record_*` lock the row; `should_allow_request` and `get_or_create` do not.
- **Values read before a commit and used after it.** The ORM writes back the
  changed columns only, and forgets what it loaded at every commit.
- **Crashes between a commit and a send.** A task is acknowledged when it is
  taken, and nothing scans the database for deliveries without a task.
- **The broker refusing a message** inside the `try` block that handles the
  endpoint's failures.
- **Liveness.** A delivery can meet an open circuit any number of times.
- **Handlers that interleave at every `await`.** `create_event` and
  `receive_webhook` check in one statement and insert in another.
- **Replays beside the tasks.** An endpoint resets a delivery's row while a task
  may be carrying it, and one of the two sends before it commits.
- **Row locks.** A commit flushes several rows and waits for each one's lock, and
  `record_failure` may return with a lock that is kept over the commit of its
  caller: nobody may wait in a circle, or for ever.
- **Migrations over used tables**, and downgrades that do not undo.

What makes each component correct: the *breaker* must lose no failure, open
exactly at its threshold, always be able to leave the open state, let requests
through only as its state machine says, and show a health that fits its state.
The *engine* must give each delivery exactly one task at a time, count attempts
and failures alike, make it dead exactly when its limit is passed and its dead
letter written, and finish it. *Ingest and fan-out* must store an event once per
key and give every subscription a row and every row a task; *replay* must not
multiply what it revives; the *receiver* must process an event once; *counters*
must not exceed what they count; *migrations* must end where the models are.

## Modules

| Module | What it is |
|---|---|
| `CircuitBreaker` | the breaker of one URL: rows, row locks, clock, and each worker's place in the service's calls |
| `CircuitHealth` | extends it with the statistics and the health score |
| `CircuitContract` | abstract specification: the three-state machine its callers expect |
| `WebhookEngine` | deliveries, queues and tasks; extends `CircuitBreaker` and takes its actions as part of its own |
| `DeliveryContract` | abstract specification: the life of a delivery |
| `Accounting` | composes `WebhookEngine` and `CircuitHealth`, adds the tenant's counters and the row locks of a commit |
| `RetryPolicy` | classification, limits and delays as functions, and the README's table |
| `Replay` | extends `WebhookEngine` with the two replay endpoints |
| `EventIngest` | `create_event` and `fan_out_event` |
| `EventContract` | abstract specification: what `POST /events/` promises |
| `WebhookReceiver` | extends `EventIngest` with posting workers and `receive_webhook` |
| `Migrations` | the Alembic revisions as data, the commands that run them, and the schema of the ORM's models |
| `MC*` | the modules for TLC |
| `CircuitBreakerProofs`, `CircuitHealthProofs`, `WebhookEngineProofs`, `AccountingProofs`, `ReplayProofs`, `EventIngestProofs`, `WebhookReceiverProofs` | theorems about the module of that name |
| `CircuitSequentialProofs` | the refinement of `CircuitContract` by one worker, alone and in the engine |

Definitions named in the sources as "Mutated form of ..." are not part of any
specification. Each is a plausible bug in the definition that follows it, kept
to confirm that some property notices.

### CircuitBreaker

One endpoint URL. The table's unique constraint is on (tenant_id,
endpoint_url), but all queries filter on the URL alone and take `.first()`, so
`rows` maps tenants to rows and a query may get any existing one (`LookUp`,
`Lock` choose).

| State | Code |
|---|---|
| `rows` | committed `circuit_breakers` rows: `state`, `failure_count`, `opened_at`. `consecutive_failures` is always assigned with `failure_count`, so one counter stands for both |
| `lock` | the worker whose transaction holds a row's `FOR UPDATE` lock |
| `cpc`, `tgt` | a worker's place in the service's calls, and its row |
| `snap` | the row as loaded under the lock |
| `now` | the clock, in units of which `Cooldown` make a cooldown |
| `streak` | history: failures committed since the last success |

| Action | Code (`circuit_breaker_service.py`) |
|---|---|
| `LookUp`, `LookUpMissing`, `InsertCircuit`, `ReadCreated` | `get_or_create` and the decision of `should_allow_request` (13-35, 40-96). The SELECT and the INSERT are separate steps; the unique constraint fails the INSERT that comes second |
| `HalfOpen` | the later write of `half_open` (74-75): column `state` alone, waiting for the row lock but not checking what the row has become |
| `Lock`, `RecordSuccess` | `record_success` (136-174): SELECT FOR UPDATE, then the commit |
| `Lock`, `RecordFailure` | `record_failure` (184-255); on an open circuit it returns with the lock still held (201-202) |
| `Leave` | the caller's next commit, which ends what the service left open |
| `Raise` | the engine's except block calls `record_failure` for an exception of its own |
| `Crash`, `Tick` | the worker process dies and its transaction rolls back; time passes |

The column-wise UPDATE of the ORM is `Flush`. Branches in `record_*` that
create a missing row are not modelled: each call follows a `get_or_create` in
the same task and rows are never deleted.

### WebhookEngine

Deliveries of any tenants to one URL. The breaker's variables are the engine's
own, and the engine changes them only by the breaker's actions (lemma
`EngineCircuit`).

| State | Code |
|---|---|
| `dlv` | `subscription_deliveries` rows: `status`, `retry_count`, `failure_type`, and whether `next_retry_at`, `delivered_at` are set |
| `logged` | the last `attempt_number` written to `delivery_attempts` |
| `dlq` | the delivery's rows in `dead_letter_events` |
| `tasks` | `deliver_webhook` tasks for it in the queues |
| `pc`, `job` | a worker's place in its task, and the task's delivery |
| `result`, `handler` | the outcome of its request; whether it runs in the except block |
| `loaded` | the delivery row its session holds (expired by every commit) |
| `lost` | deliveries whose task died or failed and sent no successor |

| Action | Code |
|---|---|
| `Take` | `worker/tasks.py` 18-47: the message leaves the queue, the session loads the delivery |
| `CheckCircuit` | `webhook_engine.py` 98-103, by the breaker's steps |
| `InsertFailed` | 261-285: after a failed INSERT the session refuses every statement, the except block raises, the task fails |
| `Postpone` | `handle_circuit_open` up to its commit (335-362) |
| `Post` | the request and `log_attempt`'s commit (153-189, 261-285) |
| `LockCircuit`, `Succeed` | the delivered columns and `record_success`, one commit (195-226) |
| `LockCircuit`, `Fail` | `record_failure` (228-259, 287-306) |
| `LoadDelivery` | the session reads the delivery again where it has expired: in the except block for the endpoint's URL, before the circuit's lock (289), otherwise in `handle_failure` (402-408) |
| `CommitFailure`, `MoveToDLQ` | `handle_failure` up to its commit: dead with its dead letter (`dlq_service.py` 7-27), or retrying (402-476) |
| `Schedule`, `MarkCircuitOpen` | the second look at the circuit and its commit (504-520) |
| `Send` | `celery.send_task` (382, 534), the end of the task |
| `SendRefused` | the broker refuses: inside the try block one more failed attempt; inside the except block a failed task |
| `WorkerDies` | the worker process dies anywhere in a task |

Abstractions: a countdown only bounds when a task may run from below, so any
queued task may be taken; the three queues and their priorities are one bag.
`MaxRetries` and `Permanent` stand for `RetryPolicy.max_retries` and
`is_retryable`; the failure types an answer or exception may have are sets.
Exceptions for a missing event, tenant or URL cannot arise (no deletes,
`endpoint_url` not null). A delivery starts where `fan_out_event` leaves it:
committed, with one task.

### CircuitHealth

| State | Code |
|---|---|
| `stats` | `total_requests`, `success_count`, the sum of latencies (`average_latency_ms` times `total_requests`) and `health_state` of a row |
| `view` | the statistics a worker loaded with its SELECT FOR UPDATE |
| `tally` | history: successes and failures recorded |

`LoadStats`, `CountSuccess`, `CountFailure` and `ForgetStats` are conjuncts to
the breaker's `Lock`, `RecordSuccess`, `RecordFailure` and the steps that end its
transaction, so they count in the transaction that holds the lock (151-172,
204-255). `Score` is `calculate_health` (106-124) times ten times the number of
requests, which keeps it in the integers; `Calculated` the whole of it.
`success_rate` and `average_latency_ms` are quotients of the sums; rounding of
floating-point numbers is not modelled. The formula is the code's: `README.md`
lines 318-323 print another one (10 points a failure, steps at 5000 ms and at a
rate of 0.95), which the code does not have.

### Accounting

The engine's steps with what they count, and the database steps in between.

| State | Code |
|---|---|
| `usage` | the tenant's `delivery_attempts_count` and `retries_count` |
| `session`, `tenant` | what a worker's session owes the tenant's row, and the values it loaded |
| `flush` | the shared rows that the flush of an unfinished commit has locked |
| `counted` | history: increments committed |

| Action | Code |
|---|---|
| `ReadTenant` | `webhook_engine.py` 74-83: load, add one, do not commit |
| `AskCircuit`, `Post` | the first commit of the task writes the attempt: the circuit's INSERT or `half_open`, or `log_attempt` |
| `ReadForRetry`, `CommitRetry` | 357-362 and 471-476: the retry, committed with the delivery's row |
| `LockRow` | the commit of `half_open` (`circuit_breaker_service.py` 74-75) updates two shared rows, the circuit's and then the tenant's |
| `RecordAnswer`, `EndQuietly` | the engine's other steps, with the statistics |

An UPDATE writes the columns changed since the row was loaded, with the values
computed from what was loaded (`Written`): that is how increments are lost.
The order of a flush is SQLAlchemy's (`requirements.txt` pins 2.0.49): where no
`relationship()` orders the mappers, and the models have none, its unit of work
sorts them by class name, so `app.models.circuit_breaker` comes before
`app.models.tenant`; the session does not flush automatically before queries
(`worker/database.py`). `LockTenantFirst` is the other order, under which tasks
do wait in a circle. `EngineStillHolds` states that all of this is
`WebhookEngine`.

### RetryPolicy

`ClassifyStatus` and `ClassifyError` are `classify` for an answer and for an
exception, a text being the set of the phrases found in it; `MaxRetriesOf`,
`IsRetryable` and `GetDelay` the rest. A delay is an interval, because of the
jitter. `Documented` is the table of `README.md` lines 64-71 with the sequences
of lines 303-306; `TableKept` says that the four functions together keep it. The
table's "Request timeout" is read as a text with the phrase `timeout`; the
timeouts that httpx raises say "timed out", which `classify` takes for
TRANSIENT. What a library writes is outside this module.

### EventIngest, WebhookReceiver

An event is named by the request that stores it, a delivery by its event and
subscription.

| State | Code |
|---|---|
| `registered` | active rows of `subscriptions` |
| `events`, `deliveries` | rows of `events` and `subscription_deliveries` |
| `queued` | deliveries whose first task was sent |
| `sent` | the tenant's `events_sent_count` |
| `rpc` | where a request's handler is |
| `seen`, `found`, `serving` | what its session holds: the counter, the subscriptions, the row to send |
| `answer` | the event it was answered with |
| `processed`, `accepted` | rows of `processed_webhooks`; history: posts answered as processed |
| `hpc` | where the receiver's handler of a post is |
| `attempts`, `status` | a delivery as its worker sees it |

| Action | Code |
|---|---|
| `Subscribe` | `routes/subscription.py` 16-27, `subscription_service.py` 11-25 |
| `Authenticate` | `dependencies/auth.py` 13-30; the session keeps what it loaded (`expire_on_commit=False`). A missing and an empty key skip the check (`events.py` 43) |
| `CheckKey` | `events.py` 43-58 |
| `Covers`, `TopicSubscriptions` | the WHERE clause of `subscription_service.py` 33-36; nothing in the program clears `is_active` |
| `StoreEvent` | 61-71: the INSERT and the counter in one commit, which `uq_tenant_idempotency` may fail |
| `SelectSubscriptions` | `routing_engine.py` 61-71 |
| `AddDelivery`, `Enqueue` | 79-86, the row's commit; 89-96, its task |
| `Interrupt` | an exception or the death of the API process, anywhere |
| `Post`, `GetAnswer`, `TimeOut` | the engine seen from the receiver: a request, its answer, or httpx giving up while the receiver goes on |
| `CheckDuplicate`, `StoreProcessed` | `webhook_receiver.py` 48-56 and 59-63; `event_id` is unique |
| `Drop` | the receiver fails before its commit |

The model takes no view of the queue: `get_adaptive_queue` reads a length and
names one of two queues that the same workers serve. `events.status` is always
`received`, so nothing depends on it (`GET /events/dead`, which selects `dead`,
is always empty). An event whose fan-out was cut short is not fanned out again
when the client repeats its request: `CheckKey` answers with the event as it is.

### Replay

| State | Code |
|---|---|
| `qpc` | where a replay request is |
| `held` | the rows its session loaded |
| `resent` | deliveries whose task it sent |
| `revived`, `mishaps` | history: replays committed, and what went wrong with a delivery's replays |

| Action | Code |
|---|---|
| `LoadLetter`, `CommitLetter`, `SendLetter` | `routes/dlq.py` 42-77, 79-85, 87-92 |
| `LoadEvent`, `Requeue`, `CommitEvent` | `replay_service.py` 26-38, 45-56 (a task for each delivery), 58 |
| `CutShort` | the broker refuses or the API process dies in between |
| `WorkerTakes` | the engine's `Take`, noting a task that runs before its replay's commit |

`README.md` lines 261-280 describe both endpoints as selecting deliveries with
status `dead`; `dlq.py` looks for the dead letter only, so a delivery that was
revived, delivered or is being carried can be reset to `retrying` and get a
second task. `OneCarrier` and the contract's finality therefore fail here, and
the properties say what remains: `OneLetterPerSend` whatever happens,
`OnlyMishapsStrand` whatever overlaps, `ProperReplaysAreSafe` when the delivery
was dead and at rest and the commit came before the task.

### Migrations

A schema is a set of columns, unique constraints, indexes and foreign keys.
`Up` and `Down` are the revisions in the order of their `down_revision`, each a
list of operations; `Possible` and `Done` are what PostgreSQL makes of one.
`Upgrade` and `Downgrade` run all revisions up to a target in one transaction
(`migration/env.py` 69-75), and `Commit` is its end: a command that fails at any
operation changes nothing, revision, schema or rows (`CommitEach` is the bug
without the transaction). `rows` holds the kinds of rows that
an operation can fail on, and `Write` adds any the schema admits. What the model
says of the revisions:

- two downgrades (83faf0c1045a, 7b5ea1bccda2) drop a constraint without a name
  and always fail: the latest revision and any after 7b5ea1bccda2 cannot be
  downgraded past these;
- the downgrade of 355494f53fe9 drops one column of seven and no constraint.
  `leftovers` remembers that it ran, and `NeverUpgradedAgain` says what comes of
  it: no sequence of commands brings that database past 355494f53fe9 again;
- `alembic upgrade head` fails on subscriptions whose tenant is no number
  (45cdff136f2b) and on references to tenants that do not exist (83faf0c1045a).

## What TLC checks

| Run | Instance | Shows |
|---|---|---|
| `circuit_safety` | 3 workers, 2 tenants, threshold 2, cooldown 2, clock to 4 | `CircuitTypeOK`, `NoLostFailure`, `ThresholdIsExact`, `OpenIsStamped`, `LockedRowIsCurrent` (also while `record_failure`'s early return leaves the lock to its caller) under every interleaving and crash |
| `circuit_sequential` | 1 worker, 2 tenants, threshold 3, cooldown 2, clock to 6, latencies 100 and 900 ms, 7 requests counted | without overlapping calls the breaker implements `CircuitContract`; `FailureNeverHeals` |
| `engine_faults` | 2 deliveries, 2 workers, limits 0, 1 and 2, every fault | `TypeOK`, `OneCarrier`, `NothingElseStrands`, `RowsCoherent`, `DeadLettersMatch`, `AttemptsMatch`, `AttemptsNumbered`, and that the engine implements `DeliveryContract` |
| `engine_live` | 2 deliveries of 2 tenants, 2 workers, no fault | `AllFinish`: every delivery is delivered or dead in the end |
| `accounting` | 2 deliveries of 1 tenant, 2 workers, threshold 1, clock to 6, 3 attempts counted | `AccountingTypeOK`, `CountersNotOverstated`, `NoLockCycle`, `StatisticsExact`, `HealthIsCurrent`, `TasksEnd`; `PolicyAsDocumented` and `DelaysGrow`, which compare functions and whose states only say when they matter |
| `replay` | 1 delivery, 2 workers that may die, 2 replays, answers of limit 0 and exceptions of limit 1 | `ReplayTypeOK`, `OneLetterPerSend`, `OnlyMishapsStrand`, `ProperReplaysAreSafe` |
| `ingest` | 4 requests, two with one key and two with the empty key and another topic, 2 subscriptions, 2 attempts | `TypeOK`, `OneEventPerKey`, `FanOutComplete`, `UsageNotOverstated`, `ProcessedOnce`, `DeliveredWasProcessed`, and that `create_event` implements `EventContract` |
| `schema` | all 15 revisions, 9 kinds of rows | `LatestMatchesModels`, `SchemaIsItsRevision`, `NeverUpgradedAgain`, `UpgradeNeedsCleanRows`, `PairsStayUnique` |
| `half_open_probes` | 2 workers | violated: `OneProbe` |
| `half_open_stale` | 2 workers | violated: `HalfOpenAfterCooldown` |
| `late_success` | 3 workers | violated: `StaysOpenUntilProbed` |
| `first_contact` | 2 deliveries of one tenant, no fault | violated: `NoneStranded` |

Why the bounds are enough for the interesting cases: threshold 2 is the
smallest at which one failure is tolerated and the next opens; three workers
allow one to hold a lock, one to wait for it and one to be about to write
`half_open` at once; two tenants are what the two rows of one URL need; the
clock allows a cooldown to elapse and the circuit to open and cool down again;
the retry limits 0, 1 and 2 contain the permanent type, a limit reached
directly, and a limit reached with failures of different types. `MaxTime` bounds
the clock only; retry counts are bounded by the limits. In the engine time
passes only while some circuit cools down, and every opening takes a failure, of
which the limits allow finitely many: in `engine_live` and
`engine_faults` the clock never reaches its bound, so the bound cuts nothing off
and hides no livelock.

In `accounting` threshold 1 lets the circuit open on the first failure, so that
one task can have the lock of an open circuit and go for the tenant's row while
another goes for both; `MaxCounted` bounds the tasks (none is taken
once three attempts are counted) and so the waits on an open circuit, which
count attempts without limit. `circuit_sequential` bounds the requests on a row
(`MaxRequests`) at what it takes to open, be probed, close and open again;
latencies lie on both sides of the 200 ms from which the score takes off. Two replays are the least
that overlap, and one delivery is enough for them to; for an event of several
deliveries there is the theorem about `OneLetterPerSend`. In `ingest` two requests share a key and two the empty one, which the check takes
for none and the unique constraint for a key: the second of these fails and
stores nothing. Requests without any key and several tenants are covered by the
theorems only. `schema` has no bound.

Symmetry is used in safety runs only. Deadlock is checked in the runs of the
breaker; the engine's, the replays' and the requests' runs end when all
deliveries and requests have (or are stranded), and the schema's where no
downgrade succeeds and every row is there, so theirs is off.

### The four disagreements

- `OneProbe`: `README.md` line 87 and the comment at
  `circuit_breaker_service.py` 92 say that HALF_OPEN lets one test request
  through. Line 93 lets all through: two workers that read `half_open` both
  send.
- `HalfOpenAfterCooldown`: `README.md` line 314 gives an elapsed cooldown as the
  way into half_open. A worker reads `open` with the cooldown elapsed; another,
  whose request was sent earlier, records a success (CLOSED) or its probe fails
  (OPEN anew); then the first writes `half_open` over it (74-75). A closed
  circuit turns half-open, or a re-opened one is probed without a cooldown.
  What this cannot do is also established: `opened_at`, the counter and the row
  read under the lock stay right (`OpenIsStamped`, `NoLostFailure`,
  `LockedRowIsCurrent`).
- `StaysOpenUntilProbed`: in the transitions of `README.md` lines 312-316 an open
  circuit closes through half_open only. `record_success` (152) has no check of
  the state, as `record_failure` has (201): a success that answers a request sent
  before the circuit opened closes it at once.
- `NoneStranded`: `README.md` line 926 calls `get_or_create` a safe upsert. Two
  workers of one tenant that both find no row both insert; the second gets an
  `IntegrityError`, the except block's first access to the delivery meets a
  session that must be rolled back, the task fails after its message was
  acknowledged, and the delivery stays `pending` with no task. `README.md` lines
  29 and 35 promise delivery to every subscriber. What it takes for that to
  happen is proved (`NothingStrandsTheRest`, `NoneStrandedWithoutCause`): no row
  yet, two workers, and two deliveries of the tenant.

### Fairness

`Fairness` in `WebhookEngine` assumes, and only `engine_live` uses it:

- weak fairness of each worker's steps: a thread that can run does run;
- strong fairness of taking a delivery's task: the queues are first-in
  first-out and threads become idle again and again;
- strong fairness of `LockCircuit` and `CheckCircuit`: PostgreSQL grants a row
  lock to waiters in the order they asked, so a worker is not passed over for
  ever;
- weak fairness of `TimePasses`.

It assumes nothing of the endpoint, which may refuse every request, and nothing
of faults, which the run excludes: with early acknowledgement a crash can strand
a delivery for good, and `NothingElseStrands` says that only the named faults do.
`AllFinish` is checked with one retryable failure type and two tenants, so that
the insert race cannot hit one tenant twice; with one tenant `first_contact`
shows what happens.

`AccountingFairness`, for `accounting`'s `TasksEnd`, assumes weak fairness of each
worker's steps and nothing of PostgreSQL's deadlock detection, which has nothing
to detect (`NoLockCycle`). `TasksEnd` says that no wait is for ever, and would
fail if an open circuit's lock, which `record_failure` returns with, were kept
beyond the task.

## What is proved

TLAPS proves, for any numbers of workers, tenants and deliveries, any threshold,
cooldown, retry limits and set of faults:

| Theorem | Statement |
|---|---|
| `CircuitInvariant`, `CircuitTypeCorrect`, `FailuresAreCounted`, `ThresholdHolds`, `OpenCircuitsEnd`, `LockProtectsRow` | `CircuitSpec` implies `[]CircuitInv` and each invariant of `circuit_safety` |
| `EngineInvariant`, `EngineKeepsCircuit`, `EngineTypeCorrect`, `DeliveriesHaveOneCarrier`, `OnlyFaultsStrand`, `RowsStayCoherent`, `DeadLettersAreExact`, `AttemptsAreAccounted` | `Spec` implies `[]EngineInv`, the breaker's invariant, and each invariant of `engine_faults` |
| `ManyWorkersTransitions`, `EngineKeepsTransitions` | `CircuitSpec` and `Spec` imply that a row changes only by a `Transition`: an action property, of any number of workers |
| `AttemptsAreNumbered` | `Spec => AttemptsNumbered`, an action property: each attempt gets the number after the last, and nothing else uses one |
| `AttemptsAreLimited`, `AttemptsEnd` | at most `M + 1` attempts of a delivery where no limit of retries exceeds `M`; eleven under `RetryPolicy`'s own limits, six if it is never answered 429 |
| `LocksStayShort` | a circuit's row lock is held from `record_*` to the task's next commit only, by a task that waits for no circuit |
| `NothingStrandsTheRest`, `NoneStrandedWithoutCause` | a lost delivery had a fault or a rival for the tenant's first row; where there is neither, `Spec` implies `[]NoneStranded` |
| `EngineImplementsContract` | `Spec => DeliveryContractHolds`, the refinement |
| `StatisticsAreExact`, `HealthStaysCurrent` | `HealthSpec` implies `[]StatisticsExact` and `[]HealthIsCurrent` |
| `FailuresNeverHeal`, `FailedTasksNeverHeal` | `HealthSpec` and `AccountingSpec` imply `FailureNeverHeals`, an action property |
| `OneWorkerKeepsContract`, `OneWorkerEngineKeepsContract` | `OneWorker /\ HealthSpec => SequentialContract` and `OneWorker /\ Spec => SequentialContract`, the refinement: calls that do not overlap walk the documented state machine, the engine's too |
| `AccountingTypeCorrect`, `CountersHold`, `StatisticsHold`, `LocksNeverCycle`, `RetriesAsDocumented`, `RetriesBackOff` | `AccountingSpec` implies each invariant of `accounting` |
| `AccountingImplementsEngine` | `AccountingSpec` implies `EngineStillHolds`, the engine's `Spec` |
| `IngestTypeCorrect`, `IdempotencyHolds`, `FanOutHolds`, `UsageHolds`, `IngestImplementsContract` | `IngestSpec` implies the ingest invariants and `EventContractHolds`, the refinement |
| `ReceiverTypeCorrect`, `ProcessedOnceHolds`, `DeliveredHolds`, `ReceiverKeepsIngest` | the receiver's `Spec` implies its invariants, and `IngestSpec` |
| `ReplayTypeCorrect`, `ReplayKeepsCircuit`, `ReplaysDoNotMultiply`, `OnlyMishapsStrandDeliveries`, `ProperReplaysStaySafe` | `ReplaySpec` implies each invariant of `replay`, and the breaker's |
| `ReplayKeepsTransitions` | under `ReplaySpec` too a circuit's row changes only by a `Transition` |
| `ProperReplaysImplementContract` | a step of a delivery without a mishap is a step of `DeliveryContract` or a revival, which only a dead one has |
| `ProperReplaysNumberAttempts` | each of its attempts gets the next number after the failures of its present life, and nothing else uses one |

Assumptions: those named `...Assumption` in the modules, which say only that the
constants have their types, that requests, workers and replays are finitely
many where something is counted, and that `None` is none of the values it stands
beside. TLC evaluates all of them.

**The breaker's argument.** `CircuitInv` adds to the five properties what makes
them inductive. A worker past its SELECT FOR UPDATE owns the lock of the row it
targets (`LockOwners`, `Targeting`), and its snapshot equals the committed row
(`Loaded`): others cannot write the row, `HalfOpen` included, because an UPDATE
waits for the lock. Hence the ORM's column-wise write is the whole new row (lemma
`FlushCurrent`), and `record_failure` adds one to the true count.
`FreshStreak` covers a tenant whose row does not exist yet. `HalfOpen` writes
column `state` alone and never to `closed` or `open`, which is why the stale
write that breaks `HalfOpenAfterCooldown` leaves these properties intact.
`ManyWorkersTransitions` says how far the documented state machine survives any
number of workers: `Transition` is the contract's step without two guards, that
only an open row that has cooled down becomes half-open and that a success closes
no open row. So `HalfOpenAfterCooldown` and `StaysOpenUntilProbed` name all of
its transitions that are lost: a failure still counts one, opens exactly at the
threshold or from half_open, with the time it opened, and changes no open row.

**The engine's argument.** `EngineInv` rests on `Carrying`: a delivery that is
neither finished nor lost is in exactly one place, a queue or a worker. `Take`
moves it from one to the other, and `Send` is the last step of the task it
succeeds. So no other task writes a delivery's row, what a session loaded before
the circuit check is still the row at the commit (`Sessions`), and the written
columns make the intended row (`UpdatedCurrent`). `Logs` counts the attempt that
is logged before its failure is counted, by the worker's place in the task.
Four lemmas give the shapes a step can have (it changes no delivery, ends a task,
writes a waiting row, finishes a delivery), and every action is one of them. The
refinement maps status to a fate, `retry_count` to the failures, and shows that
only `Succeed` and `CommitFailure` are steps of the contract.

**How often.** `AttemptsAreLimited` follows from the refinement: a step of the
contract that leaves a delivery waiting has found its failures below the limit of
the failure it met, so they never pass the greatest limit by more than one
(`FailuresStep`), and an attempt is numbered one more than the failures of a
delivery that still waits (`AttemptsStep`). It needs the greatest limit, since
`retry_count` is shared by all types: ten answers 429 and then a timeout make
eleven attempts.

**Locks.** `Control` pairs a task's place in the engine with its place in the
breaker: `record_failure` may return with the lock, but from then to the commit of
`handle_failure` the task asks for no circuit, and a place where a request is
posted, a retry is sent or nothing is done is never paired with one that holds a
lock. So the row locks of circuits alone form no circle. With the tenant's row
beside them there is none either (`LocksNeverCycle`): a commit that writes both
locks the tenant's row last (`InOrder`), so who has a tenant's row waits for
nothing (`TenantIsLast`), and who has a circuit's row waits for a tenant's only
(`CircuitIsFirst`).

**Stranded deliveries.** `FirstContacts` follows the race of `get_or_create`: a
task about to insert its tenant's row works on an endpoint that had none, and if
the row has appeared meanwhile, another worker inserted it, for another delivery of
that tenant, because no two workers carry one delivery (`RowsAppear`, `Holder`).
Only such a task is poisoned (`Contended`), so only such deliveries, or those hit
by a fault, are ever in `lost`. The hypothesis of `NoneStrandedWithoutCause` is met
by an endpoint that has its circuit, by a single worker, and by tenants with one
delivery each.

**Statistics.** A worker's loaded statistics are the current ones while it holds
the lock (`Views`), a row that does not exist has none (`Blank`), and the lock
that `record_failure` keeps is an open circuit's (`HoldingOpen`): with these
`StatisticsExact` and `HealthIsCurrent` are inductive.

**Accounting.** Each step is a step of the engine or leaves its variables alone
(lemma `EnginePart`), so `EngineInv` and `HealthInv` carry over, and `Aligned`
ties the two places of a worker together. For the counters it is enough that a
session's copy is at most what has been counted (`Copies`): writing copy plus one
while counting one keeps the counter below.

**Ingest.** `Stages` says what a handler's place tells of its event, `Serving`
that the row it is about to send exists. The unique constraint alone carries
`OneEventPerKey`: the check before it only decides who is answered. `Seen` bounds
the loaded counter by the events of the tenant, finitely many because requests
are. The refinement maps `StoreEvent` to `Accept`, and `CheckKey` and the two
steps that finish a fan-out to `Answer`.

**A failure never heals.** Times ten and times the number of requests the score
is a penalty taken from 1000 for each request; 200 for each make a circuit
degraded, 500 unhealthy (`HealthByPenalty`). A failure adds 200 for each request
by the streak alone and 500 for itself, and takes back at most 200 of what the
average latency cost (`MoreSlow`). With a streak of two the circuit is unhealthy
whatever the rest; with a shorter one the cases are linear (`FailureWeighs`).
The old health is the one of the old numbers by `HealthIsCurrent`, which a row
just made has too (`Unused`). A threshold of one, an open circuit and a probe's
failure are covered because an open row is unhealthy at once. The engine's steps
are these steps or count nothing (lemma `HealthPart`), so the same holds there.

**One worker.** `SequentialInv` says that what the worker saw of the row when it
decided still is so when it acts (`Decided`): the row it is about to make half-open
is open and cooled down, the circuit that let its request through is not open, and
where it found no row there is none. It also says that the tenants share the first
row (`OneRow`): with one row the contract's single circuit is that row, and the
closed one before it is made. `HalfOpen`, `RecordSuccess`, `RecordFailure` and
`Tick` are then steps of the contract, and all others stutter. That a failure opens
exactly at the threshold needs `NoLostFailure` and `ThresholdIsExact` from
`CircuitInv`. `Decided` is just what the runs `half_open_probes`,
`half_open_stale` and `late_success` show two workers to break. The run bounds the
requests; the theorem does not. Nothing in the argument is about who calls, so the
engine with one worker thread, whose steps are the breaker's (`EngineCircuit`), has
the same theorem, its first row made by it or there before.

**Retry policy.** `RetriesAsDocumented` and `RetriesBackOff` follow from facts of
the functions: `TableIsKept`, by cases on the lines of the table, for every status
and text, and `DelaysAreMonotone`, by cases on the failure types and the four
powers that the limits admit.

**Replay.** The engine's `Carrying` does not hold, a replay may give a delivery a
second carrier, so the proofs go in four layers. `CountInv` counts: a
worker's step turns a carrier into at most one task or letter (`Passes`), and a
request adds a task only for a delivery it has not sent (`Unsent`, `AddsKeeps`).
`TypesInv` has the types and, because the engine changes the breaker's rows by the
breaker's steps and a replay never does, `CircuitInv`. `StrandInv` gives every
waiting delivery somebody who undertakes it (`Kept`): a queued task, a request
about to send, or a worker, unless it has loaded a dead row, which it would write
back as it was and leave (`Undertakes`). A replay that sends before it commits is
why a task may be awaited by a row not yet reset (`Waits`). `SafeInv` is the
engine's argument again, for the deliveries without a mishap: at most one keeper,
now a task, a worker or the one request that revives it, whose loaded row is the
committed one; a step that would bring in a second keeper puts the delivery among
those with a mishap.

On `SafeInv` rests the refinement by such a delivery. `DeliveryContract` is
instantiated for one delivery (`Life`), because the deliveries do not revive
together. The worker that has it counts a failure, delivers it or buries it as the
contract says (`WorkLives`); a request leaves it as it is, or turns it from dead to
waiting with no failure and its letter kept (`ReplayLives`); every other step
stutters. `NumberInv` adds where the attempts stand: at the failures counted, one
ahead from the request to the failure's commit, and, since a revival resets
`retry_count` but deletes no attempt, anywhere until the first attempt of the new
life is logged, as number 1 (`InStep`).

Only model-checked, and why:

- `AllFinish` and `TasksEnd`: liveness under fairness, and `ENABLED`, are out of
  the prover's reach.
- `Migrations`: it has no parameters and no bound, so the run visits all of its
  states and there is no further case for a theorem to cover. Its schemas are
  results of folds over lists, which take an operator as a parameter; the provers
  cannot instantiate what the library states of them.
- The four violated properties, which are false.

## Not modelled

- The payload signature, a library call on a text; the read-only queries;
  logging context, metrics and tracing, which nothing reads back; deployment and
  load generators.
- `register_tenant`: one check and one INSERT behind unique constraints, of the
  shape of `create_event`; the models start with tenants registered.
- Which of the three queues a task takes, priorities and countdowns.
- Floating-point rounding in the statistics; `last_failure_at`,
  `last_success_at`, `last_error`, `replay_count` and `last_replayed_at`.
- The duration of requests in the engine; the clock there only tells whether a
  cooldown has elapsed.

## Plan

1. `CircuitBreaker`, `WebhookEngine`, their contracts and theorems: done.
2. `CircuitHealth`, `RetryPolicy`, `Accounting`, `EventIngest`,
   `WebhookReceiver`, `Replay`, `Migrations`: done, with the theorems above.
3. Theorems about `Replay`, the retry policy, `FailureNeverHeals` and
   `SequentialContract`: done. Every safety and action property of the passing
   runs but those of `Migrations` is a theorem.
4. Further theorems, done: the contract and the numbering of deliveries that a
   proper replay revived, `SequentialContract` for an engine with one worker, the
   number of attempts, the locks, and what it takes to strand a delivery.
