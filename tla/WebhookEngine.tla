--------------------------- MODULE WebhookEngine ---------------------------
(***************************************************************************)
(* Delivering webhooks: worker threads take deliver_webhook tasks           *)
(* (worker/tasks.py) and run WebhookEngine.process_event                    *)
(* (app/services/reliability/webhook_engine.py) against one endpoint URL,   *)
(* through that URL's circuit breaker (CircuitBreaker, whose variables and  *)
(* actions this module composes with its own).                              *)
(*                                                                          *)
(* Celery acknowledges a task when a worker takes it (task_acks_late is not *)
(* set), and nothing scans the database for deliveries without a task.      *)
(* A countdown is a lower bound: a queued task may be taken at any later    *)
(* time, so it is not modelled.  The session's autoflush is off and a       *)
(* commit expires what it loaded: a value used after a commit is read anew. *)
(***************************************************************************)
EXTENDS CircuitBreaker

CONSTANTS
  Deliveries,     \* subscription_deliveries towards the URL
  TenantOf,       \* delivery -> tenant
  Answers,        \* failure types of the endpoint's non-2xx answers
  Exceptions,     \* failure types of exceptions (timeout, DNS, refused)
  MaxRetries,     \* failure type -> RetryPolicy.max_retries
  Permanent,      \* the failure type that is not retryable
  EndpointKnown,  \* whether the URL has a circuit row at the start
  Faults          \* which faults happen, among "crash" and "broker"

FailureTypes == Answers \cup Exceptions

DeliveryRow == [status        : {"pending", "retrying", "circuit_open",
                                 "delivered", "dead"},
                retry_count   : Nat,
                failure_type  : FailureTypes \cup {None},
                next_retry_at : {None, "set"},
                delivered_at  : {None, "set"}]

ASSUME EngineAssumption ==
  /\ TenantOf \in [Deliveries -> Tenants]
  /\ MaxRetries \in [FailureTypes -> Nat]
  /\ None \notin Deliveries \cup FailureTypes \cup {"set", "2xx"}
  /\ None \notin DeliveryRow
  /\ "2xx" \notin FailureTypes
  /\ EndpointKnown \in BOOLEAN
  /\ Faults \subseteq {"crash", "broker"}

VARIABLES
  dlv,      \* delivery -> its row in subscription_deliveries
  logged,   \* delivery -> attempt_number of its last delivery_attempts row
  dlq,      \* delivery -> its rows in dead_letter_events
  tasks,    \* delivery -> tasks for it in the queues
  pc,       \* worker -> where it is in the task
  job,      \* worker -> the delivery of its task
  result,   \* worker -> "2xx" or the failure type of its request
  handler,  \* worker -> whether it is in process_event's except block
  loaded,   \* worker -> the delivery row its session holds, None if expired
  lost      \* deliveries whose task died or failed and sent no successor

enginevars == <<dlv, logged, dlq, tasks, pc, job, result, handler, loaded, lost>>
vars == <<cbvars, enginevars>>

EnginePC == {"idle", "check", "record", "fail", "failed", "schedule", "mark",
             "send"}

TypeOK ==
  /\ CircuitTypeOK
  /\ dlv \in [Deliveries -> DeliveryRow]
  /\ logged \in [Deliveries -> Nat]
  /\ dlq \in [Deliveries -> Nat]
  /\ tasks \in [Deliveries -> Nat]
  /\ pc \in [Workers -> EnginePC]
  /\ job \in [Workers -> Deliveries \cup {None}]
  /\ result \in [Workers -> FailureTypes \cup {"2xx", None}]
  /\ handler \in [Workers -> BOOLEAN]
  /\ loaded \in [Workers -> DeliveryRow \cup {None}]
  /\ lost \subseteq Deliveries

\* Mutated form of NewDelivery: retry_count without its default.
NewDeliveryUnset ==
  [status |-> "pending", retry_count |-> None, failure_type |-> None,
   next_retry_at |-> None, delivered_at |-> None]

NewDelivery == [status |-> "pending", retry_count |-> 0, failure_type |-> None,
                next_retry_at |-> None, delivered_at |-> None]

Init ==
  /\ CircuitAtRest
  /\ rows \in [Tenants -> {None, NewCircuit}]
  /\ IF EndpointKnown THEN \E r \in Tenants : Existing = {r}
                      ELSE Existing = {}
  /\ dlv = [d \in Deliveries |-> NewDelivery]
  /\ logged = [d \in Deliveries |-> 0]
  /\ dlq = [d \in Deliveries |-> 0]
  /\ tasks = [d \in Deliveries |-> 1]
  /\ pc = [w \in Workers |-> "idle"]
  /\ job = [w \in Workers |-> None]
  /\ result = [w \in Workers |-> None]
  /\ handler = [w \in Workers |-> FALSE]
  /\ loaded = [w \in Workers |-> None]
  /\ lost = {}

(***************************************************************************)
(* Helpers.                                                                 *)
(***************************************************************************)
Terminal(d) == dlv[d].status \in {"delivered", "dead"}

Become(w, p) == pc' = [pc EXCEPT ![w] = p]

Expire(w) == loaded' = [loaded EXCEPT ![w] = None]

Load(w) == loaded' = [loaded EXCEPT ![w] = dlv[job[w]]]

\* The task of w ends: the session is closed, the thread is free.
EndTask(w) ==
  /\ Become(w, "idle")
  /\ job' = [job EXCEPT ![w] = None]
  /\ result' = [result EXCEPT ![w] = None]
  /\ handler' = [handler EXCEPT ![w] = FALSE]
  /\ Expire(w)

\* The row after an UPDATE of the columns changed between old and new.  Two
\* retry times never agree, so a next_retry_at that is set is always written.
Updated(row, old, new) ==
  [status        |-> IF new.status = old.status
                       THEN row.status ELSE new.status,
   retry_count   |-> IF new.retry_count = old.retry_count
                       THEN row.retry_count ELSE new.retry_count,
   failure_type  |-> IF new.failure_type = old.failure_type
                       THEN row.failure_type ELSE new.failure_type,
   next_retry_at |-> IF new.next_retry_at = None /\ old.next_retry_at = None
                       THEN row.next_retry_at ELSE new.next_retry_at,
   delivered_at  |-> row.delivered_at]

Store(d, row) == dlv' = [dlv EXCEPT ![d] = row]

(***************************************************************************)
(* The rows a task writes.                                                  *)
(***************************************************************************)
\* Mutated form of DeliveredRow: failure_type keeps an earlier failure.
DeliveredRowStale(row) ==
  [row EXCEPT !.status = "delivered", !.delivered_at = "set",
              !.next_retry_at = None]

\* After log_attempt's commit nothing is loaded: every column is written.
DeliveredRow(row) ==
  [row EXCEPT !.status = "delivered", !.delivered_at = "set",
              !.failure_type = None, !.next_retry_at = None]

\* Mutated form of WaitingForCircuit: the wait is counted as a retry.
WaitingCounted(row) ==
  [row EXCEPT !.status = "circuit_open", !.next_retry_at = "set",
              !.retry_count = @ + 1]

WaitingForCircuit(row) ==
  [row EXCEPT !.status = "circuit_open", !.next_retry_at = "set"]

\* Mutated form of Exhausted: the limit of retries is missed by one.
ExhaustedLate(ft, n) == ft = Permanent \/ n > MaxRetries[ft] + 1

\* is_retryable and max_retries decide between a retry and the DLQ.
Exhausted(ft, n) == ft = Permanent \/ n > MaxRetries[ft]

FailedDelivery(row, ft) ==
  LET n == row.retry_count + 1
  IN  [row EXCEPT !.retry_count = n,
                  !.failure_type = ft,
                  !.status = IF Exhausted(ft, n) THEN "dead" ELSE "retrying",
                  !.next_retry_at =
                    IF Exhausted(ft, n) THEN None ELSE "set"]

(***************************************************************************)
(* A task, step by step.                                                    *)
(***************************************************************************)
\* Mutated form of Take: the task is acknowledged only at its end.
TakeUnacknowledged(w, d) ==
  /\ pc[w] = "idle"
  /\ tasks[d] > 0
  /\ job' = [job EXCEPT ![w] = d]
  /\ loaded' = [loaded EXCEPT ![w] = dlv[d]]
  /\ Become(w, "check")
  /\ UNCHANGED <<cbvars, dlv, logged, dlq, tasks, result, handler, lost>>

\* deliver_webhook starts: the task leaves the queue at once (early
\* acknowledgement) and the session loads the delivery, whatever its status.
Take(w, d) ==
  /\ pc[w] = "idle"
  /\ tasks[d] > 0
  /\ tasks' = [tasks EXCEPT ![d] = @ - 1]
  /\ job' = [job EXCEPT ![w] = d]
  /\ loaded' = [loaded EXCEPT ![w] = dlv[d]]
  /\ Become(w, "check")
  /\ UNCHANGED <<cbvars, dlv, logged, dlq, result, handler, lost>>

\* should_allow_request; its two commits expire what the session holds.
CheckCircuit(w) ==
  /\ pc[w] = "check"
  /\ \/ /\ \/ LookUp(w)
           \/ LookUpMissing(w, TenantOf[job[w]])
           \/ ReadCreated(w)
        /\ UNCHANGED loaded
     \/ (InsertCircuit(w) \/ HalfOpen(w)) /\ Expire(w)
  /\ UNCHANGED <<dlv, logged, dlq, tasks, pc, job, result, handler, lost>>

\* get_or_create lost the race to insert the circuit: the except block's first
\* statement finds the session unusable (PendingRollbackError), the task fails.
InsertFailed(w) ==
  /\ pc[w] = "check" /\ At(w, "poisoned")
  /\ Leave(w)
  /\ lost' = lost \cup {job[w]}
  /\ EndTask(w)
  /\ UNCHANGED <<dlv, logged, dlq, tasks>>

\* handle_circuit_open up to its commit.
Postpone(w) ==
  /\ pc[w] = "check" /\ At(w, "blocked")
  /\ Leave(w)
  /\ LET d == job[w]
     IN  Store(d, IF loaded[w] = None
                    THEN WaitingForCircuit(dlv[d])
                    ELSE Updated(dlv[d], loaded[w],
                                 WaitingForCircuit(loaded[w])))
  /\ Expire(w)
  /\ Become(w, "send")
  /\ UNCHANGED <<logged, dlq, tasks, job, result, handler, lost>>

\* Mutated form of LogAttempt: retry_count without the one added.
LogAttemptLate(w) ==
  LET held == IF loaded[w] = None THEN dlv[job[w]] ELSE loaded[w]
  IN  /\ logged' = [logged EXCEPT ![job[w]] = held.retry_count]
      /\ Expire(w)

\* The attempt's number is the retry_count the session holds, plus one.
LogAttempt(w) ==
  LET held == IF loaded[w] = None THEN dlv[job[w]] ELSE loaded[w]
  IN  /\ logged' = [logged EXCEPT ![job[w]] = held.retry_count + 1]
      /\ Expire(w)

\* httpx.post returns or raises, and log_attempt commits.
Post(w) ==
  /\ pc[w] = "check" /\ (At(w, "sending") \/ At(w, "probing"))
  /\ \/ /\ \E res \in Answers \cup {"2xx"} :
             result' = [result EXCEPT ![w] = res]
        /\ UNCHANGED handler
     \/ /\ \E ft \in Exceptions : result' = [result EXCEPT ![w] = ft]
        /\ handler' = [handler EXCEPT ![w] = TRUE]
  /\ LogAttempt(w)
  /\ Become(w, "record")
  /\ UNCHANGED <<cbvars, dlv, dlq, tasks, job, lost>>

\* record_success or record_failure takes the row lock; the except block has
\* read the delivery before, for its endpoint.
LockCircuit(w) ==
  /\ pc[w] = "record"
  /\ handler[w] => loaded[w] # None
  /\ Lock(w, result[w] = "2xx")
  /\ UNCHANGED enginevars

\* The delivery's columns and the circuit's are written by one commit.
Succeed(w) ==
  /\ pc[w] = "record"
  /\ RecordSuccess(w)
  /\ Store(job[w], DeliveredRow(dlv[job[w]]))
  /\ EndTask(w)
  /\ UNCHANGED <<logged, dlq, tasks, lost>>

\* record_failure's commit expires the delivery; an open circuit has none.
Fail(w) ==
  /\ pc[w] = "record"
  /\ RecordFailure(w)
  /\ IF cpc'[w] = "holding" THEN UNCHANGED loaded ELSE Expire(w)
  /\ Become(w, "fail")
  /\ UNCHANGED <<dlv, logged, dlq, tasks, job, result, handler, lost>>

\* The except block, or handle_failure, reads the delivery unless it has it ...
LoadDelivery(w) ==
  /\ \/ pc[w] = "record" /\ handler[w] /\ loaded[w] = None /\ UNCHANGED pc
     \/ pc[w] = "fail" /\ Become(w, "failed")
  /\ IF loaded[w] = None THEN Load(w) ELSE UNCHANGED loaded
  /\ UNCHANGED <<cbvars, dlv, logged, dlq, tasks, job, result, handler, lost>>

\* One more dead_letter_events row; its commit takes the delivery's row along.
MoveToDLQ(d) == dlq' = [dlq EXCEPT ![d] = @ + 1]

\* ... and commits its fate: dead, with its dead letter, or retrying.  The
\* commit also ends a transaction that record_failure left open.
CommitFailure(w) ==
  LET d   == job[w]
      old == loaded[w]
      new == FailedDelivery(old, result[w])
  IN
  /\ pc[w] = "failed"
  /\ Store(d, Updated(dlv[d], old, new))
  /\ IF new.status = "dead"
       THEN MoveToDLQ(d) /\ EndTask(w)
       ELSE /\ Become(w, "schedule")
            /\ Expire(w)
            /\ UNCHANGED <<dlq, job, result, handler>>
  /\ Leave(w) \/ (At(w, "idle") /\ UNCHANGED cbvars)
  /\ UNCHANGED <<logged, tasks, lost>>

\* handle_failure looks at the circuit again before it schedules the retry.
Schedule(w) ==
  /\ pc[w] = "schedule"
  /\ Load(w)
  /\ \E r \in Existing :
       Become(w, IF rows[r].state = "open" THEN "mark" ELSE "send")
  /\ UNCHANGED <<cbvars, dlv, logged, dlq, tasks, job, result, handler, lost>>

\* Mutated form of MarkCircuitOpen: it returns before the retry is sent.
MarkAndReturn(w) ==
  /\ pc[w] = "mark"
  /\ Store(job[w], Updated(dlv[job[w]], loaded[w],
                           WaitingForCircuit(loaded[w])))
  /\ EndTask(w)
  /\ UNCHANGED <<cbvars, logged, dlq, tasks, lost>>

MarkCircuitOpen(w) ==
  /\ pc[w] = "mark"
  /\ Store(job[w], Updated(dlv[job[w]], loaded[w],
                           WaitingForCircuit(loaded[w])))
  /\ Expire(w)
  /\ Become(w, "send")
  /\ UNCHANGED <<cbvars, logged, dlq, tasks, job, result, handler, lost>>

\* Mutated form of Send: the task's successor is sent twice.
SendTwice(w) ==
  /\ pc[w] = "send"
  /\ tasks' = [tasks EXCEPT ![job[w]] = @ + 2]
  /\ EndTask(w)
  /\ UNCHANGED <<cbvars, dlv, logged, dlq, lost>>

\* celery.send_task: the delivery's next task.
Send(w) ==
  /\ pc[w] = "send"
  /\ tasks' = [tasks EXCEPT ![job[w]] = @ + 1]
  /\ EndTask(w)
  /\ UNCHANGED <<cbvars, dlv, logged, dlq, lost>>

(***************************************************************************)
(* Faults.                                                                  *)
(***************************************************************************)
\* The broker refuses the message.  In process_event's try block that is one
\* more failed attempt, recorded against the endpoint; in its except block
\* the task fails.
SendRefused(w) ==
  /\ "broker" \in Faults
  /\ pc[w] = "send"
  /\ \/ /\ ~handler[w]
        /\ Raise(w)
        /\ handler' = [handler EXCEPT ![w] = TRUE]
        /\ \E ft \in Exceptions : result' = [result EXCEPT ![w] = ft]
        /\ LogAttempt(w)
        /\ Become(w, "record")
        /\ UNCHANGED <<job, lost>>
     \/ /\ handler[w]
        /\ lost' = lost \cup {job[w]}
        /\ EndTask(w)
        /\ UNCHANGED <<cbvars, logged>>
  /\ UNCHANGED <<dlv, dlq, tasks>>

\* The worker process dies, its task with it.
WorkerDies(w) ==
  /\ "crash" \in Faults
  /\ pc[w] # "idle"
  /\ Crash(w) \/ (At(w, "idle") /\ UNCHANGED cbvars)
  /\ lost' = lost \cup {job[w]}
  /\ EndTask(w)
  /\ UNCHANGED <<dlv, logged, dlq, tasks>>

\* Time matters only to a circuit that is cooling down.
TimePasses ==
  /\ \E r \in Existing : rows[r].state = "open" /\ ~CooledDown(rows[r])
  /\ Tick
  /\ UNCHANGED enginevars

TaskStep(w) ==
  \/ CheckCircuit(w) \/ InsertFailed(w) \/ Postpone(w)
  \/ Post(w) \/ LockCircuit(w) \/ Succeed(w)
  \/ Fail(w) \/ LoadDelivery(w) \/ CommitFailure(w)
  \/ Schedule(w) \/ MarkCircuitOpen(w) \/ Send(w)

Next ==
  \/ \E w \in Workers, d \in Deliveries : Take(w, d)
  \/ \E w \in Workers : TaskStep(w) \/ SendRefused(w) \/ WorkerDies(w)
  \/ TimePasses

Spec == Init /\ [][Next]_vars

\* Threads keep running, the queues are first-in first-out, the database
\* grants row locks in the order they were asked for.
Fairness ==
  /\ \A d \in Deliveries : SF_vars(\E w \in Workers : Take(w, d))
  /\ \A w \in Workers : WF_vars(TaskStep(w)) /\ SF_vars(LockCircuit(w))
                                             /\ SF_vars(CheckCircuit(w))
  /\ WF_vars(TimePasses)

FairSpec == Spec /\ Fairness

(***************************************************************************)
(* Properties.                                                              *)
(***************************************************************************)
Holds(w, d) == job[w] = d

\* A delivery is carried by at most one task at a time, so no two workers ever
\* process one delivery, and a finished delivery has no task left
\* (send_task is the last act of the task it replaces).
OneCarrier ==
  \A d \in Deliveries :
    /\ tasks[d] <= 1
    /\ \A v, w \in Workers : Holds(v, d) /\ Holds(w, d) => v = w
    /\ Terminal(d) \/ (\E w \in Workers : Holds(w, d)) => tasks[d] = 0

\* A delivery that is neither delivered nor dead has a task queued or running,
\* unless its task died, failed in a race to insert the circuit, or was
\* refused by the broker: nothing else strands a delivery.
NothingElseStrands ==
  \A d \in Deliveries :
    \/ Terminal(d) \/ d \in lost
    \/ tasks[d] > 0 \/ \E w \in Workers : Holds(w, d)

\* README, overview: every registered subscriber receives the event; "Never
\* lose an event".  A delivery that still waits has a task that will try it.
NoneStranded ==
  \A d \in Deliveries :
    Terminal(d) \/ tasks[d] > 0 \/ \E w \in Workers : Holds(w, d)

\* The row's columns agree with each other in every committed state.
RowsCoherent ==
  \A d \in Deliveries :
    LET row == dlv[d]
    IN  /\ row.delivered_at # None <=> row.status = "delivered"
        /\ row.next_retry_at # None <=> row.status \in {"retrying", "circuit_open"}
        /\ row.status \in {"dead", "retrying"} => row.failure_type # None
        /\ row.status = "delivered" => row.failure_type = None
        /\ row.status = "pending" => row.retry_count = 0

\* A delivery is dead exactly when it has its one dead_letter_events row, and
\* it died of a permanent failure or of more failures than its last failure's
\* type allows; one that waits for a retry is still within that limit.
DeadLettersMatch ==
  \A d \in Deliveries :
    LET row     == dlv[d]
        overdue == \/ row.failure_type = Permanent
                   \/ row.retry_count > MaxRetries[row.failure_type]
    IN  /\ dlq[d] = IF row.status = "dead" THEN 1 ELSE 0
        /\ row.status = "dead" => overdue
        /\ row.status = "retrying" => ~overdue

\* Between tasks the attempts logged are the failures counted on the delivery,
\* plus the success if there was one, unless a worker died between the two
\* commits (log_attempt, handle_failure).
AttemptsMatch ==
  \A d \in Deliveries :
    (d \notin lost /\ \A w \in Workers : ~Holds(w, d)) =>
      logged[d] = dlv[d].retry_count
                    + (IF dlv[d].status = "delivered" THEN 1 ELSE 0)

\* w has tried to deliver d: an answer, or an error for one, is to be recorded.
Attempted(w, d) == Holds(w, d) /\ pc[w] # "record" /\ pc'[w] = "record"

\* Attempts are numbered 1, 2, 3 ... without a gap or a repetition: each attempt
\* gets the number after the last one's, and nothing else uses a number up.
AttemptsNumbered ==
  [][\A d \in Deliveries :
       logged'[d] = IF \E w \in Workers : Attempted(w, d)
                      THEN logged[d] + 1 ELSE logged[d]]_vars

\* Each delivery lives as its contract says: failures are counted one by one
\* and only while it waits, it finishes once, a finished one is final
\* (process_event, handle_failure, move_to_dlq).
Contract == INSTANCE DeliveryContract
  WITH fate     <- [d \in Deliveries |->
                      IF Terminal(d) THEN dlv[d].status ELSE "waiting"],
       failures <- [d \in Deliveries |-> dlv[d].retry_count],
       letters  <- dlq

DeliveryContractHolds == Contract!Spec

\* Every delivery is delivered or dead in the end, however its endpoint
\* answers and however often its circuit opens.
AllFinish == \A d \in Deliveries : <>Terminal(d)

=============================================================================
