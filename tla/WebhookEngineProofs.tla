------------------------- MODULE WebhookEngineProofs -------------------------
(***************************************************************************)
(* Theorems of WebhookEngine, for any number of workers, deliveries and     *)
(* tenants, any retry limits and any faults.                                *)
(*                                                                          *)
(* The engine only ever takes steps of the circuit breaker, so the          *)
(* breaker's invariant holds here too.  What the engine adds rests on one   *)
(* fact, that a delivery is carried by at most one task (Carrying): it      *)
(* makes the row a session loaded the current row (Sessions), which makes   *)
(* the column-wise write-backs whole (Rows).  On the invariant rest the     *)
(* refinement of DeliveryContract, the limit of attempts that follows from  *)
(* it, the places of a task that holds a lock (Control), and the one race   *)
(* that strands a delivery (FirstContacts).                                 *)
(***************************************************************************)
EXTENDS WebhookEngine, CircuitBreakerProofs

Unheld(d) == \A w \in Workers : job[w] # d

Carrying ==
  /\ \A w \in Workers : pc[w] = "idle" <=> job[w] = None
  /\ \A d \in Deliveries :
       /\ tasks[d] \in {0, 1}
       /\ Terminal(d) \/ d \in lost => tasks[d] = 0 /\ Unheld(d)
       /\ tasks[d] = 1 => Unheld(d)
       /\ Terminal(d) \/ d \in lost \/ tasks[d] = 1 \/ ~Unheld(d)
  /\ \A v, w \in Workers : job[v] = job[w] /\ job[v] # None => v = w

Sessions ==
  \A w \in Workers :
    /\ loaded[w] # None => job[w] # None /\ loaded[w] = dlv[job[w]]
    /\ pc[w] \in {"failed", "mark"} => loaded[w] # None

Results ==
  \A w \in Workers :
    /\ pc[w] \in {"record", "fail", "failed"} => result[w] # None
    /\ pc[w] = "record" /\ cpc[w] = "failed" => result[w] # "2xx"
    /\ pc[w] \in {"fail", "failed"} => result[w] # "2xx"

Rows == RowsCoherent /\ DeadLettersMatch

\* How far the attempts logged are ahead of the failures counted.
Ahead(p) == IF p \in {"record", "fail", "failed"} THEN 1 ELSE 0

Logs ==
  /\ AttemptsMatch
  /\ \A w \in Workers :
       job[w] # None =>
         logged[job[w]] = dlv[job[w]].retry_count + Ahead(pc[w])

\* A worker has a delivery exactly as long as it runs a task.
Busy == \A w \in Workers : pc[w] = "idle" <=> job[w] = None

EngineInv ==
  /\ TypeOK
  /\ CircuitInv
  /\ Carrying
  /\ Sessions
  /\ Results
  /\ Rows
  /\ Logs
-----------------------------------------------------------------------------
(* The engine's initial states, its circuit steps, its row operators. *)

LEMMA EngineInit == Init => EngineInv
<1> SUFFICES ASSUME Init PROVE EngineInv
  OBVIOUS
<1>1. CircuitInv
  BY CircuitAssumption, NewRow
  DEF Init, CircuitAtRest, CircuitInv, CircuitTypeOK, Targeting, LockOwners,
      Loaded, RowsSound, FreshStreak, NoLostFailure, ThresholdIsExact,
      OpenIsStamped, CircuitPC, HasRow, HasLock
<1>2. NewDelivery \in DeliveryRow
  BY EngineAssumption DEF NewDelivery, DeliveryRow
<1>3. TypeOK
  BY <1>1, <1>2 DEF Init, CircuitInv, TypeOK, EnginePC
<1>4. Carrying /\ Sessions /\ Results
  BY CircuitAssumption, EngineAssumption
  DEF Init, Carrying, Sessions, Results, Unheld, Terminal, NewDelivery
<1>5. Rows
  BY EngineAssumption
  DEF Init, Rows, RowsCoherent, DeadLettersMatch, NewDelivery
<1>6. Logs
  BY EngineAssumption
  DEF Init, Logs, AttemptsMatch, Ahead, NewDelivery, Holds
<1> QED BY <1>1, <1>3, <1>4, <1>5, <1>6 DEF EngineInv

\* The delivery of a busy worker is unfinished, and nobody else's.
LEMMA Holder ==
  ASSUME EngineInv, NEW w \in Workers, pc[w] # "idle"
  PROVE  /\ job[w] \in Deliveries /\ job[w] # None
         /\ ~Terminal(job[w]) /\ job[w] \notin lost
         /\ tasks[job[w]] = 0
         /\ \A v \in Workers : job[v] = job[w] => v = w
         /\ dlv[job[w]] \in DeliveryRow
         /\ loaded[w] # None => loaded[w] = dlv[job[w]]
         /\ logged[job[w]] = dlv[job[w]].retry_count + Ahead(pc[w])
         /\ dlq[job[w]] = 0
         /\ dlv[job[w]].delivered_at = None
  BY EngineAssumption
  DEF EngineInv, TypeOK, Carrying, Sessions, Logs, Rows, RowsCoherent,
      DeadLettersMatch, Unheld, Terminal, DeliveryRow

\* What the engine does to the breaker's variables is a step of the breaker.
LEMMA EngineCircuit ==
  ASSUME TypeOK, Busy, [Next]_vars
  PROVE  /\ [CircuitNext]_cbvars
         /\ CircuitInv => CircuitInv'
<1>1. ASSUME NEW w \in Workers, CheckCircuit(w)
      PROVE  CircuitNext
  <2>1. TenantOf[job[w]] \in Tenants
    BY <1>1, EngineAssumption DEF CheckCircuit, TypeOK, Busy
  <2> QED BY <1>1, <2>1 DEF CheckCircuit, CircuitNext, CircuitStep
<1>2. ASSUME NEW w \in Workers, TaskStep(w)
      PROVE  CircuitNext \/ UNCHANGED cbvars
  BY <1>1, <1>2
  DEF TaskStep, InsertFailed, Postpone, Post, LockCircuit, Succeed, Fail,
      LoadDelivery, CommitFailure, Schedule, MarkCircuitOpen, Send,
      CircuitNext, CircuitStep
<1>3. CircuitNext \/ UNCHANGED cbvars
  BY <1>2
  DEF Next, Take, SendRefused, WorkerDies, TimePasses, CircuitNext,
      CircuitStep, vars
<1> QED BY <1>3, StepInv

\* A row written back over itself, changed, is the changed row: the loaded row
\* is the current one, so the ORM's choice of columns loses nothing.
LEMMA UpdatedCurrent ==
  ASSUME NEW row \in DeliveryRow, NEW new \in DeliveryRow,
         new.delivered_at = row.delivered_at
  PROVE  Updated(row, row, new) = new
  BY DEF Updated, DeliveryRow

LEMMA WaitingRow ==
  ASSUME NEW row \in DeliveryRow
  PROVE  /\ WaitingForCircuit(row) \in DeliveryRow
         /\ WaitingForCircuit(row).status = "circuit_open"
         /\ WaitingForCircuit(row).next_retry_at = "set"
         /\ WaitingForCircuit(row).retry_count = row.retry_count
         /\ WaitingForCircuit(row).delivered_at = row.delivered_at
  BY DEF WaitingForCircuit, DeliveryRow

LEMMA DoneRow ==
  ASSUME NEW row \in DeliveryRow
  PROVE  /\ DeliveredRow(row) \in DeliveryRow
         /\ DeliveredRow(row).status = "delivered"
         /\ DeliveredRow(row).delivered_at = "set"
         /\ DeliveredRow(row).next_retry_at = None
         /\ DeliveredRow(row).failure_type = None
         /\ DeliveredRow(row).retry_count = row.retry_count
  BY DEF DeliveredRow, DeliveryRow

\* handle_failure: one failure more, dead exactly when the type is permanent
\* or its limit is passed, and then without a retry time.
LEMMA FailedDeliveryRow ==
  ASSUME NEW row \in DeliveryRow, NEW ft \in FailureTypes
  PROVE  LET new == FailedDelivery(row, ft) IN
         /\ new \in DeliveryRow
         /\ new.status \in {"dead", "retrying"}
         /\ new.retry_count = row.retry_count + 1
         /\ new.failure_type = ft
         /\ new.delivered_at = row.delivered_at
         /\ new.next_retry_at # None <=> new.status = "retrying"
         /\ new.status = "dead" <=>
              ft = Permanent \/ new.retry_count > MaxRetries[ft]
<1> DEFINE n == row.retry_count + 1
           new == FailedDelivery(row, ft)
<1>1. n \in Nat
  BY DEF DeliveryRow
<1>2. Exhausted(ft, n) <=> ft = Permanent \/ n > MaxRetries[ft]
  BY DEF Exhausted
<1>3. CASE Exhausted(ft, n)
  <2>1. new = [row EXCEPT !.retry_count = n, !.failure_type = ft,
                          !.status = "dead", !.next_retry_at = None]
    BY <1>3 DEF FailedDelivery
  <2> HIDE DEF n, new
  <2>2. /\ new \in DeliveryRow
        /\ new.status = "dead" /\ new.next_retry_at = None
        /\ new.retry_count = n /\ new.failure_type = ft
        /\ new.delivered_at = row.delivered_at
    BY <1>1, <2>1 DEF DeliveryRow
  <2> QED BY <1>2, <1>3, <2>2 DEF n, new
<1>4. CASE ~Exhausted(ft, n)
  <2>1. new = [row EXCEPT !.retry_count = n, !.failure_type = ft,
                          !.status = "retrying", !.next_retry_at = "set"]
    BY <1>4 DEF FailedDelivery
  <2> HIDE DEF n, new
  <2>2. /\ new \in DeliveryRow
        /\ new.status = "retrying" /\ new.next_retry_at = "set"
        /\ new.retry_count = n /\ new.failure_type = ft
        /\ new.delivered_at = row.delivered_at
    BY <1>1, <2>1 DEF DeliveryRow
  <2> QED BY <1>2, <1>4, <2>2, EngineAssumption DEF n, new
<1> QED BY <1>3, <1>4

-----------------------------------------------------------------------------
(* The shapes a task's step can have, each preserving the invariant. *)

\* A step that changes no delivery, no queue and no task.
LEMMA StayInv ==
  ASSUME EngineInv, CircuitInv', NEW w \in Workers, pc[w] # "idle",
         NEW p \in EnginePC \ {"idle"}, Become(w, p), Ahead(p) = Ahead(pc[w]),
         UNCHANGED <<dlv, logged, dlq, tasks, job, result, handler, lost>>,
         UNCHANGED loaded \/ Expire(w) \/ Load(w),
         p \in {"failed", "mark"} => Load(w) \/ (loaded[w] # None /\ UNCHANGED loaded),
         Results'
  PROVE  EngineInv'
<1>1. TypeOK'
  BY Holder DEF EngineInv, TypeOK, CircuitInv, Become, Expire, Load
<1>2. Carrying'
  BY DEF EngineInv, TypeOK, Carrying, Unheld, Terminal, Become
<1>3. Sessions'
  BY Holder, EngineAssumption
  DEF EngineInv, TypeOK, Sessions, Become, Expire, Load, DeliveryRow
<1>4. Rows'
  BY DEF EngineInv, Rows, RowsCoherent, DeadLettersMatch
<1>5. Logs'
  BY DEF EngineInv, TypeOK, Logs, AttemptsMatch, Holds, Become
<1> QED BY <1>1, <1>2, <1>3, <1>4, <1>5 DEF EngineInv

\* The end of a task that changes no delivery: it sends its successor, or it
\* is lost.
LEMMA EndTaskInv ==
  ASSUME EngineInv, CircuitInv', NEW w \in Workers, pc[w] # "idle",
         \A v \in Workers : v # w => cpc'[v] = cpc[v],
         EndTask(w), UNCHANGED <<dlv, logged, dlq>>,
         \/ /\ tasks' = [tasks EXCEPT ![job[w]] = @ + 1]
            /\ Ahead(pc[w]) = 0 /\ UNCHANGED lost
         \/ lost' = lost \cup {job[w]} /\ UNCHANGED tasks
  PROVE  EngineInv'
<1> DEFINE d == job[w]
<1>0. /\ d \in Deliveries /\ d # None /\ ~Terminal(d) /\ d \notin lost
      /\ tasks[d] = 0
      /\ \A v \in Workers : job[v] = d => v = w
  BY Holder
<1>1. TypeOK'
  BY <1>0 DEF EngineInv, TypeOK, CircuitInv, EndTask, Become, Expire, EnginePC
<1>2. Carrying'
  <2>1. \A v \in Workers : pc'[v] = "idle" <=> job'[v] = None
    BY DEF EngineInv, TypeOK, Carrying, EndTask, Become
  <2>2. \A u, v \in Workers : job'[u] = job'[v] /\ job'[u] # None => u = v
    BY DEF EngineInv, TypeOK, Carrying, EndTask
  <2>3. ASSUME NEW e \in Deliveries
        PROVE  /\ tasks'[e] \in {0, 1}
               /\ Terminal(e)' \/ e \in lost' => tasks'[e] = 0 /\ Unheld(e)'
               /\ tasks'[e] = 1 => Unheld(e)'
               /\ Terminal(e)' \/ e \in lost' \/ tasks'[e] = 1 \/ ~Unheld(e)'
    <3>1. CASE e = d
      BY <1>0, <3>1
      DEF EngineInv, TypeOK, Carrying, EndTask, Unheld, Terminal
    <3>2. CASE e # d
      <4>1. /\ tasks'[e] = tasks[e]
            /\ e \in lost' <=> e \in lost
            /\ Terminal(e)' <=> Terminal(e)
        BY <1>0, <3>2 DEF EngineInv, TypeOK, Terminal
      <4>2. Unheld(e)' <=> Unheld(e)
        BY <1>0, <3>2, EngineAssumption
        DEF EngineInv, TypeOK, EndTask, Unheld
      <4> QED BY <4>1, <4>2 DEF EngineInv, Carrying
    <3> QED BY <3>1, <3>2
  <2> QED BY <2>1, <2>2, <2>3 DEF Carrying
<1>3. Sessions' /\ Results'
  BY DEF EngineInv, TypeOK, Sessions, Results, EndTask, Become, Expire
<1>4. Rows'
  BY DEF EngineInv, Rows, RowsCoherent, DeadLettersMatch
<1>5. Logs'
  <2>1. ASSUME NEW v \in Workers, job'[v] # None
        PROVE  logged'[job'[v]] = dlv'[job'[v]].retry_count + Ahead(pc'[v])
    BY <2>1 DEF EngineInv, TypeOK, Logs, EndTask, Become
  <2>2. ASSUME NEW e \in Deliveries, e \notin lost',
               \A v \in Workers : ~Holds(v, e)'
        PROVE  logged'[e] = dlv'[e].retry_count
                 + (IF dlv'[e].status = "delivered" THEN 1 ELSE 0)
    <3>1. CASE e = d
      <4>1. UNCHANGED lost /\ Ahead(pc[w]) = 0
        BY <1>0, <2>2, <3>1 DEF EngineInv, TypeOK
      <4>2. logged[d] = dlv[d].retry_count + 0 /\ dlv[d].retry_count \in Nat
        BY <1>0, <4>1, Holder DEF DeliveryRow
      <4> QED BY <1>0, <3>1, <4>2 DEF Terminal
    <3>2. CASE e # d
      <4>1. e \notin lost /\ \A v \in Workers : ~Holds(v, e)
        BY <2>2, <3>2 DEF EngineInv, TypeOK, Holds, EndTask
      <4> QED BY <4>1 DEF EngineInv, Logs, AttemptsMatch
    <3> QED BY <3>1, <3>2
  <2> QED BY <2>1, <2>2 DEF Logs, AttemptsMatch
<1> QED BY <1>1, <1>2, <1>3, <1>4, <1>5 DEF EngineInv

\* A commit that leaves the delivery unfinished.
LEMMA WriteInv ==
  ASSUME EngineInv, CircuitInv', NEW w \in Workers, pc[w] # "idle",
         \A v \in Workers : v # w => cpc'[v] = cpc[v],
         NEW row \in DeliveryRow, Store(job[w], row),
         row.status \in {"retrying", "circuit_open"},
         row.next_retry_at # None, row.delivered_at = None,
         row.status = "retrying" =>
           /\ row.failure_type # None /\ row.failure_type # Permanent
           /\ row.retry_count <= MaxRetries[row.failure_type],
         NEW p \in {"schedule", "send"}, Become(w, p), Expire(w),
         logged[job[w]] = row.retry_count,
         UNCHANGED <<logged, dlq, tasks, job, result, handler, lost>>
  PROVE  EngineInv'
<1> DEFINE d == job[w]
<1>0. /\ d \in Deliveries /\ d # None /\ ~Terminal(d) /\ dlq[d] = 0
      /\ \A v \in Workers : job[v] = d => v = w
      /\ dlv' = [dlv EXCEPT ![d] = row]
  BY Holder DEF Store
<1>1. TypeOK'
  BY <1>0 DEF EngineInv, TypeOK, CircuitInv, Become, Expire, EnginePC
<1>2. Carrying'
  BY <1>0 DEF EngineInv, TypeOK, Carrying, Unheld, Terminal, Become
<1>3. Sessions'
  BY <1>0 DEF EngineInv, TypeOK, Sessions, Become, Expire
<1>4. Results'
  BY DEF EngineInv, TypeOK, Results, Become
<1>5. Rows'
  <2>1. RowsCoherent'
    BY <1>0 DEF EngineInv, TypeOK, Rows, RowsCoherent
  <2>2. DeadLettersMatch'
    <3> SUFFICES ASSUME NEW e \in Deliveries
                 PROVE  DeadLettersMatch!(e)'
      BY DEF DeadLettersMatch
    <3>1. CASE e = d
      <4>1. /\ dlv'[e] = row /\ dlq'[e] = 0
        BY <1>0, <3>1 DEF EngineInv, TypeOK
      <4>2. row.status = "retrying" => ~(row.retry_count > MaxRetries[row.failure_type])
        BY EngineAssumption DEF DeliveryRow
      <4> QED BY <4>1, <4>2
    <3>2. CASE e # d
      BY <1>0, <3>2 DEF EngineInv, TypeOK, Rows, DeadLettersMatch
    <3> QED BY <3>1, <3>2
  <2> QED BY <2>1, <2>2 DEF Rows
<1>6. Logs'
  <2>1. row.retry_count \in Nat /\ Ahead(p) = 0
    BY DEF DeliveryRow, Ahead
  <2>2. ASSUME NEW v \in Workers, job'[v] # None
        PROVE  logged'[job'[v]] = dlv'[job'[v]].retry_count + Ahead(pc'[v])
    <3>1. CASE v = w
      BY <1>0, <2>1, <3>1 DEF EngineInv, TypeOK, Become
    <3>2. CASE v # w
      BY <1>0, <2>2, <3>2 DEF EngineInv, TypeOK, Logs, Become
    <3> QED BY <3>1, <3>2
  <2>3. AttemptsMatch'
    BY <1>0 DEF EngineInv, TypeOK, Logs, AttemptsMatch, Holds
  <2> QED BY <2>2, <2>3 DEF Logs
<1> QED BY <1>1, <1>2, <1>3, <1>4, <1>5, <1>6 DEF EngineInv

\* A commit that finishes the delivery and ends its task.
LEMMA FinishInv ==
  ASSUME EngineInv, CircuitInv', NEW w \in Workers, pc[w] # "idle",
         \A v \in Workers : v # w => cpc'[v] = cpc[v],
         NEW row \in DeliveryRow, Store(job[w], row),
         row.next_retry_at = None, NEW n \in Nat,
         dlq' = [dlq EXCEPT ![job[w]] = n],
         \/ /\ row.status = "delivered" /\ row.delivered_at # None
            /\ row.failure_type = None
            /\ n = 0 /\ logged[job[w]] = row.retry_count + 1
         \/ /\ row.status = "dead" /\ row.delivered_at = None
            /\ row.failure_type # None
            /\ \/ row.failure_type = Permanent
               \/ row.retry_count > MaxRetries[row.failure_type]
            /\ n = 1 /\ logged[job[w]] = row.retry_count,
         EndTask(w), UNCHANGED <<logged, tasks, lost>>
  PROVE  EngineInv'
<1> DEFINE d == job[w]
<1>0. /\ d \in Deliveries /\ d # None /\ tasks[d] = 0 /\ dlq[d] = 0
      /\ \A v \in Workers : job[v] = d => v = w
      /\ dlv' = [dlv EXCEPT ![d] = row]
      /\ row.status \in {"delivered", "dead"}
  BY Holder DEF Store
<1>1. TypeOK'
  BY <1>0 DEF EngineInv, TypeOK, CircuitInv, EndTask, Become, Expire, EnginePC
<1>2. Carrying'
  <2>1. \A v \in Workers : pc'[v] = "idle" <=> job'[v] = None
    BY DEF EngineInv, TypeOK, Carrying, EndTask, Become
  <2>2. \A u, v \in Workers : job'[u] = job'[v] /\ job'[u] # None => u = v
    BY DEF EngineInv, TypeOK, Carrying, EndTask
  <2>3. ASSUME NEW e \in Deliveries
        PROVE  /\ tasks'[e] \in {0, 1}
               /\ Terminal(e)' \/ e \in lost' => tasks'[e] = 0 /\ Unheld(e)'
               /\ tasks'[e] = 1 => Unheld(e)'
               /\ Terminal(e)' \/ e \in lost' \/ tasks'[e] = 1 \/ ~Unheld(e)'
    <3>1. CASE e = d
      BY <1>0, <3>1
      DEF EngineInv, TypeOK, EndTask, Unheld, Terminal
    <3>2. CASE e # d
      <4>1. Terminal(e)' <=> Terminal(e)
        BY <1>0, <3>2 DEF EngineInv, TypeOK, Terminal
      <4>2. Unheld(e)' <=> Unheld(e)
        BY <1>0, <3>2, EngineAssumption
        DEF EngineInv, TypeOK, EndTask, Unheld
      <4> QED BY <4>1, <4>2 DEF EngineInv, Carrying
    <3> QED BY <3>1, <3>2
  <2> QED BY <2>1, <2>2, <2>3 DEF Carrying
<1>3. Sessions' /\ Results'
  BY <1>0 DEF EngineInv, TypeOK, Sessions, Results, EndTask, Become, Expire
<1>4. Rows'
  <2>1. RowsCoherent'
    BY <1>0 DEF EngineInv, TypeOK, Rows, RowsCoherent
  <2>2. DeadLettersMatch'
    BY <1>0 DEF EngineInv, TypeOK, Rows, DeadLettersMatch
  <2> QED BY <2>1, <2>2 DEF Rows
<1>5. Logs'
  <2>1. ASSUME NEW v \in Workers, job'[v] # None
        PROVE  logged'[job'[v]] = dlv'[job'[v]].retry_count + Ahead(pc'[v])
    BY <1>0, <2>1 DEF EngineInv, TypeOK, Logs, EndTask, Become
  <2>2. ASSUME NEW e \in Deliveries, e \notin lost',
               \A v \in Workers : ~Holds(v, e)'
        PROVE  logged'[e] = dlv'[e].retry_count
                 + (IF dlv'[e].status = "delivered" THEN 1 ELSE 0)
    <3>1. CASE e = d
      <4>1. dlv'[e] = row /\ logged'[e] = logged[d] /\ row.retry_count \in Nat
        BY <1>0, <3>1 DEF EngineInv, TypeOK, DeliveryRow
      <4> QED BY <4>1
    <3>2. CASE e # d
      <4>1. e \notin lost /\ \A v \in Workers : ~Holds(v, e)
        BY <2>2, <3>2 DEF EngineInv, TypeOK, Holds, EndTask
      <4> QED BY <1>0, <3>2, <4>1 DEF EngineInv, TypeOK, Logs, AttemptsMatch
    <3> QED BY <3>1, <3>2
  <2> QED BY <2>1, <2>2 DEF Logs, AttemptsMatch
<1> QED BY <1>1, <1>2, <1>3, <1>4, <1>5 DEF EngineInv

\* A request was made (or a message refused) and its attempt is logged.
LEMMA LogInv ==
  ASSUME EngineInv, CircuitInv', NEW w \in Workers, pc[w] # "idle",
         \A v \in Workers : v # w => cpc'[v] = cpc[v], cpc'[w] # "failed",
         Ahead(pc[w]) = 0, NEW res \in FailureTypes \cup {"2xx"},
         result' = [result EXCEPT ![w] = res],
         handler' \in [Workers -> BOOLEAN],
         LogAttempt(w), Become(w, "record"),
         UNCHANGED <<dlv, dlq, tasks, job, lost>>
  PROVE  EngineInv'
<1> DEFINE d == job[w]
<1>0. /\ d \in Deliveries /\ d # None /\ dlv[d] \in DeliveryRow
      /\ dlv[d].retry_count \in Nat
      /\ \A v \in Workers : job[v] = d => v = w
      /\ d \notin lost
  BY Holder DEF DeliveryRow
<1>1. logged' = [logged EXCEPT ![d] = dlv[d].retry_count + 1] /\ Expire(w)
  BY Holder DEF LogAttempt
<1>2. TypeOK'
  BY <1>0, <1>1 DEF EngineInv, TypeOK, CircuitInv, Become, Expire, EnginePC
<1>3. Carrying'
  BY DEF EngineInv, TypeOK, Carrying, Unheld, Terminal, Become
<1>4. Sessions'
  BY <1>1 DEF EngineInv, TypeOK, Sessions, Become, Expire
<1>5. Results'
  BY EngineAssumption DEF EngineInv, TypeOK, Results, Become
<1>6. Rows'
  BY DEF EngineInv, Rows, RowsCoherent, DeadLettersMatch
<1>7. Logs'
  <2>1. ASSUME NEW v \in Workers, job'[v] # None
        PROVE  logged'[job'[v]] = dlv'[job'[v]].retry_count + Ahead(pc'[v])
    <3>1. CASE v = w
      BY <1>0, <1>1, <3>1 DEF EngineInv, TypeOK, Become, Ahead
    <3>2. CASE v # w
      <4>1. job[v] # d /\ job[v] \in Deliveries
        BY <1>0, <2>1, <3>2 DEF EngineInv, TypeOK
      <4> QED
        BY <1>1, <2>1, <3>2, <4>1 DEF EngineInv, TypeOK, Logs, Become
    <3> QED BY <3>1, <3>2
  <2>2. AttemptsMatch'
    BY <1>0, <1>1 DEF EngineInv, TypeOK, Logs, AttemptsMatch, Holds
  <2> QED BY <2>1, <2>2 DEF Logs
<1> QED BY <1>2, <1>3, <1>4, <1>5, <1>6, <1>7 DEF EngineInv

\* A worker takes a task: the delivery moves from the queue to the worker.
LEMMA TakeInv ==
  ASSUME EngineInv, CircuitInv', NEW w \in Workers, NEW d \in Deliveries,
         Take(w, d)
  PROVE  EngineInv'
<1>1. /\ tasks[d] = 1 /\ tasks' = [tasks EXCEPT ![d] = 0]
      /\ d # None /\ Unheld(d) /\ ~Terminal(d) /\ d \notin lost
      /\ job[w] = None
  <2>1. /\ tasks[d] \in {0, 1} /\ tasks[d] > 0
        /\ tasks' = [tasks EXCEPT ![d] = @ - 1]
        /\ pc[w] = "idle"
    BY DEF EngineInv, Carrying, Take
  <2>2. tasks[d] = 1
    BY <2>1
  <2>3. Unheld(d) /\ ~Terminal(d) /\ d \notin lost /\ job[w] = None
    BY <2>1, <2>2 DEF EngineInv, Carrying
  <2> QED BY <2>1, <2>2, <2>3, EngineAssumption
<1>2. TypeOK'
  BY <1>1 DEF EngineInv, TypeOK, CircuitInv, Take, Become, EnginePC
<1>3. Carrying'
  <2>1. \A v \in Workers : pc'[v] = "idle" <=> job'[v] = None
    BY <1>1 DEF EngineInv, TypeOK, Carrying, Take, Become
  <2>2. \A u, v \in Workers : job'[u] = job'[v] /\ job'[u] # None => u = v
    BY <1>1 DEF EngineInv, TypeOK, Carrying, Take, Unheld
  <2>3. ASSUME NEW e \in Deliveries
        PROVE  /\ tasks'[e] \in {0, 1}
               /\ Terminal(e)' \/ e \in lost' => tasks'[e] = 0 /\ Unheld(e)'
               /\ tasks'[e] = 1 => Unheld(e)'
               /\ Terminal(e)' \/ e \in lost' \/ tasks'[e] = 1 \/ ~Unheld(e)'
    <3>1. Terminal(e)' <=> Terminal(e)
      BY DEF Terminal, Take
    <3>2. CASE e = d
      BY <1>1, <3>1, <3>2 DEF EngineInv, TypeOK, Take, Unheld
    <3>3. CASE e # d
      <4>1. tasks'[e] = tasks[e] /\ lost' = lost
        BY <1>1, <3>3 DEF EngineInv, TypeOK, Take
      <4>2. Unheld(e)' <=> Unheld(e)
        BY <1>1, <3>3, EngineAssumption DEF EngineInv, TypeOK, Take, Unheld
      <4> QED BY <3>1, <4>1, <4>2 DEF EngineInv, Carrying
    <3> QED BY <3>2, <3>3
  <2> QED BY <2>1, <2>2, <2>3 DEF Carrying
<1>4. Sessions' /\ Results'
  BY <1>1 DEF EngineInv, TypeOK, Sessions, Results, Take, Become, cbvars
<1>5. Rows'
  BY DEF EngineInv, Rows, RowsCoherent, DeadLettersMatch, Take
<1>6. Logs'
  <2>1. logged[d] = dlv[d].retry_count /\ dlv[d].retry_count \in Nat
    BY <1>1
    DEF EngineInv, TypeOK, Logs, AttemptsMatch, Unheld, Holds, Terminal,
        DeliveryRow
  <2>2. ASSUME NEW v \in Workers, job'[v] # None
        PROVE  logged'[job'[v]] = dlv'[job'[v]].retry_count + Ahead(pc'[v])
    BY <2>1, <2>2 DEF EngineInv, TypeOK, Logs, Take, Become, Ahead
  <2>3. ASSUME NEW e \in Deliveries, e \notin lost',
               \A v \in Workers : ~Holds(v, e)'
        PROVE  logged'[e] = dlv'[e].retry_count
                 + (IF dlv'[e].status = "delivered" THEN 1 ELSE 0)
    <3>1. job'[w] = d /\ \A v \in Workers : v # w => job'[v] = job[v]
      BY DEF EngineInv, TypeOK, Take
    <3>2. e # d /\ \A v \in Workers : ~Holds(v, e)
      BY <1>1, <2>3, <3>1, EngineAssumption DEF Holds, Unheld
    <3> QED BY <2>3, <3>2 DEF EngineInv, Logs, AttemptsMatch, Take
  <2> QED BY <2>2, <2>3 DEF Logs, AttemptsMatch
<1> QED BY <1>2, <1>3, <1>4, <1>5, <1>6 DEF EngineInv

-----------------------------------------------------------------------------
(* The actions. *)

\* The breaker moves only the worker that acts.
LEMMA OthersStay ==
  ASSUME TypeOK, Busy, NEW w \in Workers,
         TaskStep(w) \/ SendRefused(w) \/ WorkerDies(w)
  PROVE  \A v \in Workers : v # w => cpc'[v] = cpc[v]
<1>1. cpc \in [Workers -> CircuitPC]
  BY DEF TypeOK, CircuitTypeOK
<1>2. ASSUME CircuitStep(w)
      PROVE  \A v \in Workers : v # w => cpc'[v] = cpc[v]
  BY <1>1, <1>2
  DEF CircuitStep, LookUp, LookUpMissing, InsertCircuit, ReadCreated, Decide,
      HalfOpen, Lock, RecordSuccess, RecordFailure, Leave, Raise, Crash, GoTo
<1>3. ASSUME CheckCircuit(w)
      PROVE  CircuitStep(w)
  <2>1. TenantOf[job[w]] \in Tenants
    BY <1>3, EngineAssumption DEF CheckCircuit, TypeOK, Busy
  <2> QED BY <1>3, <2>1 DEF CheckCircuit, CircuitStep
<1>4. CircuitStep(w) \/ UNCHANGED cbvars
  BY <1>3
  DEF TaskStep, InsertFailed, Postpone, Post, LockCircuit, Succeed, Fail,
      LoadDelivery, CommitFailure, Schedule, MarkCircuitOpen, Send,
      SendRefused, WorkerDies, CircuitStep
<1> QED BY <1>2, <1>4 DEF cbvars

\* handle_circuit_open and the second look at the circuit write the row as it
\* is, waiting: what the session loaded is still what the database holds.
LEMMA WaitStep ==
  ASSUME EngineInv, NEW w \in Workers, Postpone(w) \/ MarkCircuitOpen(w)
  PROVE  LET d == job[w]  row == WaitingForCircuit(dlv[d]) IN
         /\ pc[w] # "idle"
         /\ row \in DeliveryRow /\ row.status = "circuit_open"
         /\ row.next_retry_at # None /\ row.delivered_at = None
         /\ row.retry_count = dlv[d].retry_count
         /\ logged[d] = row.retry_count
         /\ Store(d, row)
<1> DEFINE d == job[w]
           row == WaitingForCircuit(dlv[d])
<1>1. pc[w] \in {"check", "mark"} /\ pc[w] # "idle"
  BY DEF Postpone, MarkCircuitOpen
<1>2. /\ dlv[d] \in DeliveryRow /\ dlv[d].delivered_at = None
      /\ loaded[w] # None => loaded[w] = dlv[d]
      /\ logged[d] = dlv[d].retry_count
  <2>1. dlv[d] \in DeliveryRow /\ dlv[d].retry_count \in Nat
    BY <1>1, Holder DEF DeliveryRow
  <2> QED BY <1>1, <2>1, Holder DEF Ahead
<1>3. /\ row \in DeliveryRow /\ row.status = "circuit_open"
      /\ row.next_retry_at # None /\ row.delivered_at = None
      /\ row.retry_count = dlv[d].retry_count
  BY <1>2, WaitingRow, EngineAssumption
<1>4. Updated(dlv[d], dlv[d], row) = row
  BY <1>2, <1>3, UpdatedCurrent
<1>5. Store(d, row)
  <2>1. CASE Postpone(w)
    BY <1>2, <1>4, <2>1 DEF Postpone
  <2>2. CASE MarkCircuitOpen(w)
    <3>1. loaded[w] # None
      BY <2>2 DEF MarkCircuitOpen, EngineInv, Sessions
    <3> QED BY <1>2, <1>4, <2>2, <3>1 DEF MarkCircuitOpen
  <2> QED BY <2>1, <2>2
<1> HIDE DEF row
<1> QED BY <1>1, <1>2, <1>3, <1>5 DEF row

\* handle_failure's commit writes FailedDelivery of the row as it is.
LEMMA FailureStep ==
  ASSUME EngineInv, NEW w \in Workers, CommitFailure(w)
  PROVE  LET d == job[w]  new == FailedDelivery(dlv[d], result[w]) IN
         /\ pc[w] # "idle" /\ d \in Deliveries /\ dlq[d] = 0
         /\ result[w] \in FailureTypes
         /\ new \in DeliveryRow /\ new.status \in {"dead", "retrying"}
         /\ new.failure_type = result[w] /\ new.delivered_at = None
         /\ new.retry_count = dlv[d].retry_count + 1
         /\ logged[d] = new.retry_count
         /\ new.next_retry_at # None <=> new.status = "retrying"
         /\ new.status = "dead" <=>
              result[w] = Permanent \/ new.retry_count > MaxRetries[result[w]]
         /\ loaded[w] = dlv[d]
         /\ Store(d, new)
<1> DEFINE d == job[w]
           new == FailedDelivery(dlv[d], result[w])
<1>1. /\ pc[w] = "failed" /\ d \in Deliveries /\ dlv[d] \in DeliveryRow
      /\ dlv[d].delivered_at = None /\ dlq[d] = 0
      /\ loaded[w] = dlv[d] /\ result[w] \in FailureTypes
      /\ logged[d] = dlv[d].retry_count + 1
  <2>1. pc[w] = "failed"
    BY DEF CommitFailure
  <2>2. loaded[w] # None /\ result[w] \in FailureTypes
    BY <2>1 DEF EngineInv, TypeOK, Sessions, Results
  <2> QED BY <2>1, <2>2, Holder DEF Ahead
<1>2. /\ new \in DeliveryRow
      /\ new.status \in {"dead", "retrying"}
      /\ new.retry_count = dlv[d].retry_count + 1
      /\ new.failure_type = result[w]
      /\ new.delivered_at = dlv[d].delivered_at
      /\ new.next_retry_at # None <=> new.status = "retrying"
      /\ new.status = "dead" <=>
           result[w] = Permanent \/ new.retry_count > MaxRetries[result[w]]
  BY <1>1, FailedDeliveryRow
<1>3. Store(d, new)
  <2>1. Updated(dlv[d], dlv[d], new) = new
    BY <1>1, <1>2, UpdatedCurrent
  <2> QED BY <1>1, <2>1 DEF CommitFailure
<1> HIDE DEF new
<1> QED BY <1>1, <1>2, <1>3 DEF new

LEMMA TaskStepInv ==
  ASSUME EngineInv, CircuitInv', NEW w \in Workers, TaskStep(w)
  PROVE  EngineInv'
<1>0. \A v \in Workers : v # w => cpc'[v] = cpc[v]
  BY OthersStay DEF EngineInv, Carrying, Busy
<1>1. CASE CheckCircuit(w)
  <2>1. pc[w] = "check" /\ UNCHANGED <<pc, result>>
    BY <1>1 DEF CheckCircuit
  <2>2. Become(w, "check") /\ "check" \in EnginePC \ {"idle"}
    BY <2>1 DEF EngineInv, TypeOK, Become, EnginePC
  <2>3. Results'
    BY <1>0, <2>1 DEF EngineInv, TypeOK, Results
  <2> QED BY <1>1, <2>1, <2>2, <2>3, StayInv DEF CheckCircuit
<1>2. CASE InsertFailed(w)
  BY <1>0, <1>2, EndTaskInv DEF InsertFailed
<1>3. CASE Postpone(w)
  <2>1. /\ Become(w, "send") /\ Expire(w)
        /\ UNCHANGED <<logged, dlq, tasks, job, result, handler, lost>>
    BY <1>3 DEF Postpone
  <2> QED BY <1>0, <1>3, <2>1, WaitStep, WriteInv
<1>4. CASE Post(w)
  <2>1. PICK res \in FailureTypes \cup {"2xx"} :
          result' = [result EXCEPT ![w] = res]
    BY <1>4 DEF Post, FailureTypes
  <2>2. handler' \in [Workers -> BOOLEAN]
    BY <1>4 DEF Post, EngineInv, TypeOK
  <2>3. pc[w] = "check" /\ cpc'[w] # "failed" /\ Ahead(pc[w]) = 0
    BY <1>4 DEF Post, At, cbvars, Ahead
  <2> QED BY <1>0, <1>4, <2>1, <2>2, <2>3, LogInv DEF Post
<1>5. CASE LockCircuit(w)
  <2>1. /\ pc[w] = "record" /\ UNCHANGED enginevars
        /\ cpc'[w] = "failed" => result[w] # "2xx"
    BY <1>5
    DEF LockCircuit, Lock, GoTo, EngineInv, TypeOK, CircuitTypeOK
  <2>2. Become(w, "record") /\ "record" \in EnginePC \ {"idle"}
    BY <2>1 DEF EngineInv, TypeOK, Become, EnginePC, enginevars
  <2>3. Results'
    BY <1>0, <2>1 DEF EngineInv, TypeOK, Results, enginevars
  <2> QED BY <2>1, <2>2, <2>3, StayInv DEF enginevars
<1>6. CASE Succeed(w)
  <2> DEFINE d == job[w]
             row == DeliveredRow(dlv[d])
  <2>1. /\ pc[w] = "record" /\ d \in Deliveries /\ dlv[d] \in DeliveryRow
        /\ dlq[d] = 0 /\ logged[d] = dlv[d].retry_count + 1
    <3>1. pc[w] = "record"
      BY <1>6 DEF Succeed
    <3> QED BY <3>1, Holder DEF Ahead
  <2>2. /\ row \in DeliveryRow /\ row.status = "delivered"
        /\ row.delivered_at # None /\ row.next_retry_at = None
        /\ row.failure_type = None /\ logged[d] = row.retry_count + 1
    BY <2>1, DoneRow, EngineAssumption
  <2>3. dlq' = [dlq EXCEPT ![d] = 0]
    BY <1>6, <2>1 DEF Succeed, EngineInv, TypeOK
  <2>4. Store(d, row)
    BY <1>6 DEF Succeed
  <2>5. /\ pc[w] # "idle" /\ 0 \in Nat
        /\ EndTask(w) /\ UNCHANGED <<logged, tasks, lost>>
    BY <1>6 DEF Succeed
  <2> HIDE DEF row
  <2> QED BY <1>0, <2>2, <2>3, <2>4, <2>5, FinishInv
<1>7. CASE Fail(w)
  <2>1. pc[w] = "record" /\ cpc[w] = "failed" /\ UNCHANGED result
    BY <1>7 DEF Fail, RecordFailure, At
  <2>2. Become(w, "fail") /\ "fail" \in EnginePC \ {"idle"}
    BY <1>7 DEF Fail, EnginePC
  <2>3. Results'
    BY <1>0, <2>1, <2>2 DEF EngineInv, TypeOK, Results, Become
  <2> QED BY <1>7, <2>1, <2>2, <2>3, StayInv DEF Fail, Ahead
<1>8. CASE LoadDelivery(w)
  <2>1. PICK p \in {"record", "failed"} :
          /\ Become(w, p) /\ Ahead(p) = Ahead(pc[w]) /\ pc[w] # "idle"
          /\ p = "record" => pc[w] = "record"
          /\ p = "failed" => pc[w] = "fail"
    BY <1>8 DEF LoadDelivery, Become, Ahead, EngineInv, TypeOK
  <2>2. /\ UNCHANGED <<cpc, dlv, logged, dlq, tasks, job, result, handler, lost>>
        /\ Load(w) \/ (loaded[w] # None /\ UNCHANGED loaded)
    BY <1>8 DEF LoadDelivery, cbvars
  <2>3. Results'
    BY <1>0, <2>1, <2>2 DEF EngineInv, TypeOK, Results, Become
  <2>4. p \in EnginePC \ {"idle"}
    BY DEF EnginePC
  <2> QED BY <1>0, <2>1, <2>2, <2>3, <2>4, StayInv
<1>9. CASE CommitFailure(w)
  <2> DEFINE d == job[w]
             new == FailedDelivery(dlv[d], result[w])
  <2>1. /\ pc[w] # "idle" /\ dlq[d] = 0 /\ d \in Deliveries
        /\ new \in DeliveryRow /\ new.status \in {"dead", "retrying"}
        /\ new.delivered_at = None /\ logged[d] = new.retry_count
        /\ new.next_retry_at # None <=> new.status = "retrying"
        /\ result[w] \in FailureTypes /\ new.failure_type = result[w]
        /\ new.status = "dead" <=>
             result[w] = Permanent \/ new.retry_count > MaxRetries[result[w]]
        /\ loaded[w] = dlv[d] /\ Store(d, new)
    BY <1>9, FailureStep
  <2>2. new.failure_type # None
    BY <2>1, EngineAssumption
  <2>3. IF new.status = "dead"
          THEN dlq' = [dlq EXCEPT ![d] = @ + 1] /\ EndTask(w)
          ELSE /\ Become(w, "schedule") /\ Expire(w)
               /\ UNCHANGED <<dlq, job, result, handler>>
    BY <1>9, <2>1 DEF CommitFailure, MoveToDLQ
  <2>4. UNCHANGED <<logged, tasks, lost>>
    BY <1>9 DEF CommitFailure
  <2> HIDE DEF new
  <2>5. CASE new.status = "dead"
    <3>1. dlq' = [dlq EXCEPT ![d] = 1] /\ EndTask(w)
      BY <2>1, <2>3, <2>5 DEF EngineInv, TypeOK
    <3> QED BY <1>0, <2>1, <2>2, <2>4, <2>5, <3>1, FinishInv
  <2>6. CASE new.status = "retrying"
    <3>1. /\ new.failure_type # Permanent
          /\ new.retry_count <= MaxRetries[new.failure_type]
      <4>1. new.retry_count \in Nat /\ MaxRetries[result[w]] \in Nat
        BY <2>1, EngineAssumption DEF DeliveryRow
      <4> QED BY <2>1, <2>6, <4>1
    <3> QED BY <1>0, <2>1, <2>2, <2>3, <2>4, <2>6, <3>1, WriteInv
  <2> QED BY <2>1, <2>5, <2>6
<1>10. CASE Schedule(w)
  <2>1. PICK p \in {"mark", "send"} : Become(w, p)
    BY <1>10 DEF Schedule
  <2>2. pc[w] = "schedule" /\ UNCHANGED result /\ p \in EnginePC \ {"idle"}
    BY <1>10 DEF Schedule, EnginePC
  <2>3. Results'
    BY <1>0, <2>1, <2>2 DEF EngineInv, TypeOK, Results, Become
  <2>4. Ahead(p) = Ahead(pc[w])
    BY <2>2 DEF Ahead
  <2> QED BY <1>10, <2>1, <2>2, <2>3, <2>4, StayInv DEF Schedule
<1>11. CASE MarkCircuitOpen(w)
  <2>1. /\ Become(w, "send") /\ Expire(w)
        /\ UNCHANGED <<logged, dlq, tasks, job, result, handler, lost>>
    BY <1>11 DEF MarkCircuitOpen
  <2> QED BY <1>0, <1>11, <2>1, WaitStep, WriteInv
<1>12. CASE Send(w)
  BY <1>0, <1>12, EndTaskInv DEF Send, Ahead
<1> QED
  BY <1>1, <1>2, <1>3, <1>4, <1>5, <1>6, <1>7, <1>8, <1>9, <1>10, <1>11, <1>12
  DEF TaskStep

LEMMA SendRefusedInv ==
  ASSUME EngineInv, CircuitInv', NEW w \in Workers, SendRefused(w)
  PROVE  EngineInv'
<1>1. \A v \in Workers : v # w => cpc'[v] = cpc[v]
  BY OthersStay DEF EngineInv, Carrying, Busy
<1>2. pc[w] = "send" /\ Ahead(pc[w]) = 0
  BY DEF SendRefused, Ahead
<1>3. CASE handler[w]
  BY <1>1, <1>2, <1>3, EndTaskInv DEF SendRefused
<1>4. CASE ~handler[w]
  <2>1. PICK ft \in FailureTypes : result' = [result EXCEPT ![w] = ft]
    BY <1>4 DEF SendRefused, FailureTypes
  <2>2. handler' \in [Workers -> BOOLEAN]
    BY <1>4 DEF SendRefused, EngineInv, TypeOK
  <2>3. cpc'[w] # "failed"
    BY <1>4 DEF SendRefused, Raise, GoTo, EngineInv, TypeOK, CircuitTypeOK
  <2> QED BY <1>1, <1>2, <1>4, <2>1, <2>2, <2>3, LogInv DEF SendRefused
<1> QED BY <1>3, <1>4

\* Every step preserves the invariant.
LEMMA EngineStep == EngineInv /\ [Next]_vars => EngineInv'
<1> SUFFICES ASSUME EngineInv, [Next]_vars
             PROVE  EngineInv'
  OBVIOUS
<1>0. CircuitInv'
  BY EngineCircuit DEF EngineInv, Carrying, Busy
<1>1. ASSUME NEW w \in Workers, NEW d \in Deliveries, Take(w, d)
      PROVE  EngineInv'
  BY <1>0, <1>1, TakeInv
<1>2. ASSUME NEW w \in Workers, TaskStep(w)
      PROVE  EngineInv'
  BY <1>0, <1>2, TaskStepInv
<1>3. ASSUME NEW w \in Workers, SendRefused(w)
      PROVE  EngineInv'
  BY <1>0, <1>3, SendRefusedInv
<1>4. ASSUME NEW w \in Workers, WorkerDies(w)
      PROVE  EngineInv'
  <2>1. \A v \in Workers : v # w => cpc'[v] = cpc[v]
    BY <1>4, OthersStay DEF EngineInv, Carrying, Busy
  <2> QED BY <1>0, <1>4, <2>1, EndTaskInv DEF WorkerDies
<1>5. ASSUME UNCHANGED enginevars, UNCHANGED cpc
      PROVE  EngineInv'
  BY <1>0, <1>5
  DEF EngineInv, TypeOK, CircuitInv, Carrying, Sessions, Results, Rows,
      RowsCoherent, DeadLettersMatch, Logs, AttemptsMatch, Unheld, Terminal,
      Holds, enginevars
<1>6. CASE TimePasses
  BY <1>5, <1>6 DEF TimePasses, Tick
<1>7. CASE UNCHANGED vars
  BY <1>5, <1>7 DEF vars, cbvars
<1> QED BY <1>1, <1>2, <1>3, <1>4, <1>6, <1>7 DEF Next

-----------------------------------------------------------------------------
(* The theorems. *)

\* The inductive invariant holds in every reachable state of the engine.
THEOREM EngineInvariant == Spec => []EngineInv
  BY EngineInit, EngineStep, PTL DEF Spec

\* The breaker's guarantees survive the engine: what proves them alone proves
\* them under every task the workers run.
THEOREM EngineKeepsCircuit == Spec => []CircuitInv
<1>1. EngineInv => CircuitInv
  BY DEF EngineInv
<1> QED BY <1>1, EngineInvariant, PTL

\* Whatever the engine's tasks do to a circuit, its rows change as the breaker's
\* own transitions have it: no commit of a task writes part of a stale row back.
THEOREM EngineKeepsTransitions ==
  Spec => [][\A r \in Tenants : rows[r] # None => Transition(r)]_cbvars
<1>1. EngineInv /\ [Next]_vars =>
        [\A r \in Tenants : rows[r] # None => Transition(r)]_cbvars
  <2> SUFFICES ASSUME EngineInv, [Next]_vars
               PROVE  \A r \in Tenants : rows[r] # None => Transition(r)
    OBVIOUS
  <2>1. CircuitInv /\ [CircuitNext]_cbvars
    BY EngineCircuit DEF EngineInv, Carrying, Busy
  <2> QED BY <2>1, RowTransition
<1> QED BY <1>1, EngineInvariant, PTL DEF Spec

\* Every variable keeps its type.
THEOREM EngineTypeCorrect == Spec => []TypeOK
<1>1. EngineInv => TypeOK
  BY DEF EngineInv
<1> QED BY <1>1, EngineInvariant, PTL

\* No delivery is ever queued twice, queued and running, or run by two workers
\* (early acknowledgement; send_task last).
THEOREM DeliveriesHaveOneCarrier == Spec => []OneCarrier
<1>1. EngineInv => OneCarrier
  <2> SUFFICES ASSUME EngineInv, NEW d \in Deliveries
               PROVE  OneCarrier!(d)
    BY DEF OneCarrier
  <2>1. d # None
    BY EngineAssumption
  <2>2. /\ tasks[d] \in {0, 1}
        /\ Terminal(d) => tasks[d] = 0
        /\ tasks[d] = 1 => Unheld(d)
    BY DEF EngineInv, Carrying
  <2>3. \A v, w \in Workers : Holds(v, d) /\ Holds(w, d) => v = w
    BY <2>1 DEF EngineInv, Carrying, Holds
  <2> QED BY <2>2, <2>3 DEF Holds, Unheld
<1> QED BY <1>1, EngineInvariant, PTL

\* Only a worker's death, the insert race and a refused message strand a
\* delivery, for any schedule of any number of workers.
THEOREM OnlyFaultsStrand == Spec => []NothingElseStrands
<1>1. EngineInv => NothingElseStrands
  <2> SUFFICES ASSUME EngineInv, NEW d \in Deliveries
               PROVE  NothingElseStrands!(d)
    BY DEF NothingElseStrands
  <2>1. Terminal(d) \/ d \in lost \/ tasks[d] = 1 \/ ~Unheld(d)
    BY DEF EngineInv, Carrying
  <2> QED BY <2>1 DEF Unheld, Holds
<1> QED BY <1>1, EngineInvariant, PTL

\* The columns of a delivery's row always agree with each other.
THEOREM RowsStayCoherent == Spec => []RowsCoherent
<1>1. EngineInv => RowsCoherent
  BY DEF EngineInv, Rows
<1> QED BY <1>1, EngineInvariant, PTL

\* A delivery is dead exactly when its one dead letter exists, and only after
\* a permanent failure or more failures than its limit.
THEOREM DeadLettersAreExact == Spec => []DeadLettersMatch
<1>1. EngineInv => DeadLettersMatch
  BY DEF EngineInv, Rows
<1> QED BY <1>1, EngineInvariant, PTL

\* Between tasks the attempts logged are the failures counted, plus the success.
THEOREM AttemptsAreAccounted == Spec => []AttemptsMatch
<1>1. EngineInv => AttemptsMatch
  BY DEF EngineInv, Logs
<1> QED BY <1>1, EngineInvariant, PTL

\* An attempt is logged by the delivery's one task, under the number after the
\* failures counted on its row; where nothing is logged nothing was attempted.
LEMMA AttemptStep ==
  ASSUME EngineInv, [Next]_vars
  PROVE  \/ /\ UNCHANGED logged
            /\ \A w \in Workers, d \in Deliveries : ~Attempted(w, d)
         \/ \E w \in Workers :
              /\ pc[w] # "idle" /\ job[w] \in Deliveries /\ ~Terminal(job[w])
              /\ logged[job[w]] = dlv[job[w]].retry_count
              /\ logged' = [logged EXCEPT ![job[w]] = dlv[job[w]].retry_count + 1]
              /\ pc[w] # "record" /\ pc' = [pc EXCEPT ![w] = "record"]
<1>1. ASSUME NEW w \in Workers, LogAttempt(w), pc[w] \in {"check", "send"}
      PROVE  /\ pc[w] # "idle" /\ job[w] \in Deliveries /\ ~Terminal(job[w])
             /\ logged[job[w]] = dlv[job[w]].retry_count
             /\ logged' = [logged EXCEPT ![job[w]] = dlv[job[w]].retry_count + 1]
  <2>1. dlv[job[w]] \in DeliveryRow /\ Ahead(pc[w]) = 0
    BY <1>1, Holder DEF Ahead
  <2>2. dlv[job[w]].retry_count \in Nat
    BY <2>1 DEF DeliveryRow
  <2>3. /\ pc[w] # "idle" /\ job[w] \in Deliveries /\ ~Terminal(job[w])
        /\ loaded[w] # None => loaded[w] = dlv[job[w]]
        /\ logged[job[w]] = dlv[job[w]].retry_count
    BY <1>1, <2>1, <2>2, Holder
  <2> QED BY <1>1, <2>3 DEF LogAttempt
<1> DEFINE Posts(w) == /\ LogAttempt(w) /\ pc[w] \in {"check", "send"}
                       /\ pc' = [pc EXCEPT ![w] = "record"]
           Goes(w)  == \/ UNCHANGED pc
                       \/ \E p \in EnginePC \ {"record"} : pc' = [pc EXCEPT ![w] = p]
<1>2. ASSUME NEW w \in Workers, TaskStep(w)
      PROVE  (UNCHANGED logged /\ Goes(w)) \/ Posts(w)
  BY <1>2
  DEF TaskStep, CheckCircuit, InsertFailed, Postpone, Post, LockCircuit,
      Succeed, Fail, LoadDelivery, CommitFailure, Schedule, MarkCircuitOpen,
      Send, EndTask, Become, EnginePC, enginevars
<1>3. ASSUME NEW w \in Workers, SendRefused(w) \/ WorkerDies(w)
      PROVE  (UNCHANGED logged /\ Goes(w)) \/ Posts(w)
  BY <1>3 DEF SendRefused, WorkerDies, EndTask, Become, EnginePC
<1>4. ASSUME NEW w \in Workers, NEW d \in Deliveries, Take(w, d)
      PROVE  UNCHANGED logged /\ Goes(w)
  BY <1>4 DEF Take, Become, EnginePC
<1>5. \/ UNCHANGED <<logged, pc>>
      \/ \E w \in Workers : (UNCHANGED logged /\ Goes(w)) \/ Posts(w)
  <2> HIDE DEF Goes, Posts
  <2> QED
    BY <1>2, <1>3, <1>4 DEF Next, TimePasses, enginevars, vars
<1>6. ASSUME \/ UNCHANGED pc
             \/ \E w \in Workers : Goes(w)
      PROVE  \A w \in Workers, d \in Deliveries : ~Attempted(w, d)
  BY <1>6 DEF Attempted, EngineInv, TypeOK
<1> HIDE DEF Goes
<1>7. \A w \in Workers : Posts(w) => pc[w] # "record"
  OBVIOUS
<1> QED BY <1>1, <1>5, <1>6, <1>7

\* Every attempt is logged under the number after the last one's, and a number
\* is used by an attempt only: it is taken from the delivery's row, whose count
\* of failures no other task has changed since.
THEOREM AttemptsAreNumbered == Spec => AttemptsNumbered
<1> DEFINE Numbers(d) ==
      logged'[d] = IF \E w \in Workers : Attempted(w, d)
                     THEN logged[d] + 1 ELSE logged[d]
<1>1. ASSUME EngineInv, [Next]_vars, NEW d \in Deliveries
      PROVE  Numbers(d)
  <2>1. CASE /\ UNCHANGED logged
             /\ \A w \in Workers, e \in Deliveries : ~Attempted(w, e)
    BY <2>1
  <2>2. ASSUME NEW w \in Workers, job[w] \in Deliveries,
               logged' = [logged EXCEPT ![job[w]] = logged[job[w]] + 1],
               pc[w] # "record", pc' = [pc EXCEPT ![w] = "record"]
        PROVE  Numbers(d)
    <3>1. \A v \in Workers : pc[v] # "record" /\ pc'[v] = "record" <=> v = w
      BY <1>1, <2>2 DEF EngineInv, TypeOK
    <3>2. (\E v \in Workers : Attempted(v, d)) <=> job[w] = d
      BY <3>1 DEF Attempted, Holds
    <3> QED BY <1>1, <2>2, <3>2 DEF EngineInv, TypeOK
  <2> HIDE DEF Numbers
  <2> QED BY <1>1, <2>1, <2>2, AttemptStep
<1>2. EngineInv /\ [Next]_vars => [\A d \in Deliveries : Numbers(d)]_vars
  BY <1>1
<1> QED BY <1>2, EngineInvariant, PTL DEF Spec, AttemptsNumbered

-----------------------------------------------------------------------------
(* The engine implements its delivery contract. *)

LEMMA ContractInit == Init => Contract!Init
  BY EngineAssumption DEF Init, Contract!Init, NewDelivery, Terminal

\* A step that leaves every delivery's fate and failures alone is a stutter.
LEMMA ContractStutter ==
  ASSUME \A d \in Deliveries : /\ dlv'[d].retry_count = dlv[d].retry_count
                               /\ IF Terminal(d) THEN dlv'[d] = dlv[d]
                                                 ELSE ~Terminal(d)',
         UNCHANGED dlq
  PROVE  UNCHANGED Contract!vars
  BY DEF Contract!vars, Terminal

LEMMA ContractStep == EngineInv /\ [Next]_vars => [Contract!Next]_(Contract!vars)
<1> SUFFICES ASSUME EngineInv, [Next]_vars
             PROVE  [Contract!Next]_(Contract!vars)
  OBVIOUS
<1>1. ASSUME UNCHANGED <<dlv, dlq>>
      PROVE  UNCHANGED Contract!vars
  BY <1>1, ContractStutter DEF Terminal
<1>2. ASSUME NEW w \in Workers, Postpone(w) \/ MarkCircuitOpen(w)
      PROVE  UNCHANGED Contract!vars
  <2> DEFINE row == WaitingForCircuit(dlv[job[w]])
  <2>1. /\ row.status = "circuit_open" /\ ~Terminal(job[w])
        /\ row.retry_count = dlv[job[w]].retry_count
        /\ dlv' = [dlv EXCEPT ![job[w]] = row]
    BY <1>2, WaitStep, Holder DEF Store
  <2>2. UNCHANGED dlq
    BY <1>2 DEF Postpone, MarkCircuitOpen
  <2> HIDE DEF row
  <2> QED BY <2>1, <2>2, ContractStutter DEF Terminal, EngineInv, TypeOK
<1>3. ASSUME NEW w \in Workers, Succeed(w)
      PROVE  \E d \in Deliveries : Contract!Deliver(d)
  <2> DEFINE d == job[w]
             row == DeliveredRow(dlv[d])
  <2>1. pc[w] # "idle" /\ UNCHANGED dlq /\ dlv' = [dlv EXCEPT ![d] = row]
    BY <1>3 DEF Succeed, Store
  <2>2. /\ d \in Deliveries /\ ~Terminal(d)
        /\ row.status = "delivered" /\ row.retry_count = dlv[d].retry_count
    BY <2>1, Holder, DoneRow
  <2> HIDE DEF row
  <2>3. [e \in Deliveries |-> IF Terminal(e) THEN dlv[e].status ELSE "waiting"]'
          = [[e \in Deliveries |->
                IF Terminal(e) THEN dlv[e].status ELSE "waiting"]
               EXCEPT ![d] = "delivered"]
    BY <2>1, <2>2 DEF EngineInv, TypeOK, Terminal
  <2>4. UNCHANGED [e \in Deliveries |-> dlv[e].retry_count]
    BY <2>1, <2>2 DEF EngineInv, TypeOK
  <2> QED BY <2>1, <2>2, <2>3, <2>4 DEF Contract!Deliver
<1>4. ASSUME NEW w \in Workers, CommitFailure(w)
      PROVE  \E d \in Deliveries, ft \in FailureTypes :
               Contract!Retry(d, ft) \/ Contract!Die(d, ft)
  <2> DEFINE d == job[w]
             ft == result[w]
             new == FailedDelivery(dlv[d], ft)
             fate == [e \in Deliveries |->
                        IF Terminal(e) THEN dlv[e].status ELSE "waiting"]
             failures == [e \in Deliveries |-> dlv[e].retry_count]
  <2>1. /\ pc[w] # "idle" /\ d \in Deliveries /\ ft \in FailureTypes
        /\ new \in DeliveryRow /\ new.status \in {"dead", "retrying"}
        /\ new.retry_count = dlv[d].retry_count + 1
        /\ new.status = "dead" <=>
             ft = Permanent \/ new.retry_count > MaxRetries[ft]
        /\ loaded[w] = dlv[d] /\ dlv' = [dlv EXCEPT ![d] = new]
    BY <1>4, FailureStep DEF Store
  <2>2. IF new.status = "dead" THEN dlq' = [dlq EXCEPT ![d] = @ + 1]
                               ELSE UNCHANGED dlq
    BY <1>4, <2>1 DEF CommitFailure, MoveToDLQ
  <2>3. ~Terminal(d) /\ dlv[d].retry_count \in Nat
    BY <2>1, Holder DEF DeliveryRow
  <2> HIDE DEF new
  <2>4. failures' = [failures EXCEPT ![d] = @ + 1]
    BY <2>1 DEF EngineInv, TypeOK
  <2>5. Contract!Tolerated(d, ft) <=> new.status # "dead"
    <3>1. MaxRetries[ft] \in Nat
      BY <2>1, EngineAssumption
    <3> QED BY <2>1, <2>3, <3>1 DEF Contract!Tolerated
  <2>6. CASE new.status = "dead"
    <3>1. fate' = [fate EXCEPT ![d] = "dead"]
      BY <2>1, <2>3, <2>6 DEF EngineInv, TypeOK, Terminal
    <3>2. Contract!Die(d, ft)
      BY <2>1, <2>2, <2>3, <2>4, <2>5, <2>6, <3>1 DEF Contract!Die
    <3> QED BY <2>1, <3>2 DEF Contract!Die
  <2>7. CASE new.status = "retrying"
    <3>1. fate' = fate
      BY <2>1, <2>3, <2>7 DEF EngineInv, TypeOK, Terminal
    <3>2. Contract!Retry(d, ft)
      BY <2>1, <2>2, <2>3, <2>4, <2>5, <2>7, <3>1 DEF Contract!Retry
    <3> QED BY <2>1, <3>2 DEF Contract!Retry
  <2> QED BY <2>1, <2>6, <2>7
<1>5. ASSUME NEW w \in Workers, TaskStep(w)
      PROVE  \/ UNCHANGED <<dlv, dlq>> \/ Postpone(w) \/ MarkCircuitOpen(w)
             \/ Succeed(w) \/ CommitFailure(w)
  BY <1>5
  DEF TaskStep, CheckCircuit, InsertFailed, Post, LockCircuit, Fail,
      LoadDelivery, Schedule, Send, enginevars
<1>6. \/ UNCHANGED <<dlv, dlq>>
      \/ \E w \in Workers : \/ Postpone(w) \/ MarkCircuitOpen(w)
                            \/ Succeed(w) \/ CommitFailure(w)
  BY <1>5
  DEF Next, Take, SendRefused, WorkerDies, TimePasses, enginevars, vars
<1> QED BY <1>1, <1>2, <1>3, <1>4, <1>6 DEF Contract!Next

\* process_event, handle_circuit_open and handle_failure, with all their
\* commits, races and faults, give each delivery the life its contract states.
THEOREM EngineImplementsContract == Spec => DeliveryContractHolds
  BY ContractInit, ContractStep, EngineInvariant, PTL
  DEF Spec, DeliveryContractHolds, Contract!Spec

-----------------------------------------------------------------------------
(* How often a delivery is attempted. *)

\* With no limit of retries above M, M failures are survived, and one kills.
FailuresWithin(M) ==
  \A d \in Deliveries :
    dlv[d].retry_count <= M + IF dlv[d].status = "dead" THEN 1 ELSE 0

AttemptsWithin(M) == \A d \in Deliveries : logged[d] <= M + 1

\* The contract bounds the failures of a delivery: so does what implements it.
LEMMA FailuresStep ==
  ASSUME NEW M \in Nat, \A ft \in FailureTypes : MaxRetries[ft] <= M,
         EngineInv, FailuresWithin(M), [Next]_vars
  PROVE  FailuresWithin(M)'
<1> DEFINE failures == [d \in Deliveries |-> dlv[d].retry_count]
           fate == [d \in Deliveries |->
                      IF Terminal(d) THEN dlv[d].status ELSE "waiting"]
<1>1. [Contract!Next]_(Contract!vars)
  BY ContractStep
<1>2. \A d \in Deliveries : /\ failures[d] = dlv[d].retry_count
                            /\ failures[d] \in Nat
                            /\ fate[d] = "dead" <=> dlv[d].status = "dead"
  <2>1. \A d \in Deliveries : dlv[d] \in DeliveryRow
    BY DEF EngineInv, TypeOK
  <2>2. \A d \in Deliveries : dlv[d].retry_count \in Nat
    BY <2>1 DEF DeliveryRow
  <2> QED BY <2>2 DEF Terminal
<1>3. \A d \in Deliveries : /\ failures'[d] = dlv'[d].retry_count
                            /\ fate'[d] = "dead" <=> dlv'[d].status = "dead"
  BY DEF Terminal
<1>4. \A d \in Deliveries : failures[d] <= M + IF fate[d] = "dead" THEN 1 ELSE 0
  BY <1>2 DEF FailuresWithin
<1>5. failures = [d \in Deliveries |-> failures[d]]
      /\ fate = [d \in Deliveries |-> fate[d]]
  OBVIOUS
<1>6. CASE UNCHANGED Contract!vars
  <2>1. failures' = failures /\ fate' = fate
    BY <1>6 DEF Contract!vars
  <2> HIDE DEF failures, fate
  <2> QED BY <1>2, <1>3, <1>4, <2>1 DEF FailuresWithin
<1>7. ASSUME NEW d \in Deliveries, Contract!Deliver(d)
      PROVE  FailuresWithin(M)'
  <2>1. failures' = failures /\ fate' = [fate EXCEPT ![d] = "delivered"]
        /\ fate[d] = "waiting"
    BY <1>7 DEF Contract!Deliver
  <2> HIDE DEF failures, fate
  <2> QED BY <1>2, <1>3, <1>4, <1>5, <2>1 DEF FailuresWithin
<1>8. ASSUME NEW d \in Deliveries, NEW ft \in FailureTypes, Contract!Retry(d, ft)
      PROVE  FailuresWithin(M)'
  <2>1. /\ failures' = [failures EXCEPT ![d] = failures[d] + 1] /\ fate' = fate
        /\ fate[d] = "waiting" /\ failures[d] < MaxRetries[ft]
    BY <1>8 DEF Contract!Retry, Contract!Tolerated
  <2>2. MaxRetries[ft] \in Nat /\ MaxRetries[ft] <= M
    BY EngineAssumption
  <2> HIDE DEF failures, fate
  <2> QED BY <1>2, <1>3, <1>4, <1>5, <2>1, <2>2 DEF FailuresWithin
<1>9. ASSUME NEW d \in Deliveries, NEW ft \in FailureTypes, Contract!Die(d, ft)
      PROVE  FailuresWithin(M)'
  <2>1. /\ failures' = [failures EXCEPT ![d] = failures[d] + 1]
        /\ fate' = [fate EXCEPT ![d] = "dead"]
        /\ fate[d] = "waiting"
    BY <1>9 DEF Contract!Die
  <2> HIDE DEF failures, fate
  <2> QED BY <1>2, <1>3, <1>4, <1>5, <2>1 DEF FailuresWithin
<1> QED BY <1>1, <1>6, <1>7, <1>8, <1>9 DEF Contract!Next

LEMMA AttemptsStep ==
  ASSUME NEW M \in Nat,
         EngineInv, FailuresWithin(M), AttemptsWithin(M), [Next]_vars
  PROVE  AttemptsWithin(M)'
<1>1. ASSUME NEW w \in Workers, job[w] \in Deliveries, ~Terminal(job[w])
      PROVE  dlv[job[w]].retry_count \in Nat /\ dlv[job[w]].retry_count <= M
  <2>1. dlv[job[w]] \in DeliveryRow /\ dlv[job[w]].status # "dead"
    BY <1>1 DEF EngineInv, TypeOK, Terminal
  <2>2. dlv[job[w]].retry_count \in Nat
    BY <2>1 DEF DeliveryRow
  <2> QED BY <1>1, <2>1, <2>2 DEF FailuresWithin
<1>2. logged \in [Deliveries -> Nat]
  BY DEF EngineInv, TypeOK
<1> QED BY <1>1, <1>2, AttemptStep DEF AttemptsWithin

\* RetryPolicy: whatever mixture of failures a delivery meets, with whatever
\* tasks, waits and faults between them, it is attempted at most once more than
\* the most generous of the limits allows retries.
THEOREM AttemptsAreLimited ==
  ASSUME NEW M \in Nat, \A ft \in FailureTypes : MaxRetries[ft] <= M
  PROVE  Spec => [](FailuresWithin(M) /\ AttemptsWithin(M))
<1>1. Init => FailuresWithin(M) /\ AttemptsWithin(M)
  BY DEF Init, NewDelivery, FailuresWithin, AttemptsWithin
<1>2. EngineInv /\ FailuresWithin(M) /\ AttemptsWithin(M) /\ [Next]_vars =>
        (FailuresWithin(M) /\ AttemptsWithin(M))'
  BY FailuresStep, AttemptsStep
<1> QED BY <1>1, <1>2, EngineInvariant, PTL DEF Spec

-----------------------------------------------------------------------------
(* Where a task stands in the breaker, and what it holds meanwhile. *)

\* The places in the breaker of a task at each of its own.
InCheck  == {"idle", "creating", "created", "poisoned", "half_opening",
             "blocked", "sending", "probing"}
InRecord == {"sending", "probing", "raised", "ok", "failed"}

Control ==
  \A w \in Workers :
    /\ pc[w] = "check" => cpc[w] \in InCheck
    /\ pc[w] = "record" => cpc[w] \in InRecord
    /\ pc[w] \in {"fail", "failed"} => cpc[w] \in {"idle", "holding"}
    /\ pc[w] \in {"idle", "schedule", "mark", "send"} => cpc[w] = "idle"

\* The row lock of a circuit is held only from record_success or record_failure
\* to the task's next commit, by a task that waits for no other circuit: never
\* while a request is posted or a task is sent, and by no worker that is free,
\* although record_failure returns without a commit when the circuit is open.
LocksAreShort ==
  \A r \in Tenants : lock[r] # None =>
    /\ pc[lock[r]] \in {"record", "fail", "failed"}
    /\ cpc[lock[r]] \in {"ok", "failed", "holding"}

LEMMA ControlStep == EngineInv /\ Control /\ [Next]_vars => Control'
<1> SUFFICES ASSUME EngineInv, Control, [Next]_vars
             PROVE  Control'
  OBVIOUS
<1>0. /\ pc \in [Workers -> EnginePC] /\ cpc \in [Workers -> CircuitPC]
  BY DEF EngineInv, TypeOK, CircuitTypeOK
<1>1. ASSUME NEW w \in Workers, NEW p \in EnginePC, NEW c \in CircuitPC,
             pc' = [pc EXCEPT ![w] = p], cpc' = [cpc EXCEPT ![w] = c],
             p = "check" => c \in InCheck,
             p = "record" => c \in InRecord,
             p \in {"fail", "failed"} => c \in {"idle", "holding"},
             p \in {"idle", "schedule", "mark", "send"} => c = "idle"
      PROVE  Control'
  <2>1. ASSUME NEW v \in Workers
        PROVE  /\ v = w => pc'[v] = p /\ cpc'[v] = c
               /\ v # w => pc'[v] = pc[v] /\ cpc'[v] = cpc[v]
    BY <1>0, <1>1
  <2> QED BY <1>1, <2>1 DEF Control
\* The steps that leave the breaker alone stay where they are in it.
<1>2. ASSUME NEW w \in Workers, NEW p \in EnginePC,
             Become(w, p), UNCHANGED cpc,
             p = "check" => cpc[w] \in InCheck,
             p = "record" => cpc[w] \in InRecord,
             p \in {"fail", "failed"} => cpc[w] \in {"idle", "holding"},
             p \in {"idle", "schedule", "mark", "send"} => cpc[w] = "idle"
      PROVE  Control'
  BY <1>0, <1>1, <1>2 DEF Become
<1>3. ASSUME NEW w \in Workers, CheckCircuit(w)
      PROVE  Control'
  <2>1. PICK c \in InCheck : cpc' = [cpc EXCEPT ![w] = c]
    BY <1>3
    DEF CheckCircuit, LookUp, LookUpMissing, ReadCreated, InsertCircuit,
        HalfOpen, Decide, GoTo, InCheck
  <2>2. pc[w] = "check" /\ pc' = [pc EXCEPT ![w] = "check"]
    BY <1>0, <1>3 DEF CheckCircuit
  <2> QED BY <1>1, <2>1, <2>2 DEF InCheck, CircuitPC, EnginePC
<1>4. ASSUME NEW w \in Workers, InsertFailed(w) \/ Postpone(w)
      PROVE  Control'
  <2>1. PICK p \in {"idle", "send"} : pc' = [pc EXCEPT ![w] = p]
    BY <1>4 DEF InsertFailed, Postpone, EndTask, Become
  <2>2. cpc' = [cpc EXCEPT ![w] = "idle"]
    BY <1>4 DEF InsertFailed, Postpone, Leave, GoTo
  <2> QED BY <1>1, <2>1, <2>2 DEF CircuitPC, EnginePC
<1>5. ASSUME NEW w \in Workers, Post(w)
      PROVE  Control'
  <2>1. cpc[w] \in InRecord /\ Become(w, "record") /\ UNCHANGED cpc
    BY <1>5 DEF Post, At, InRecord, cbvars
  <2> QED BY <1>2, <2>1 DEF EnginePC
<1>6. ASSUME NEW w \in Workers, LockCircuit(w)
      PROVE  Control'
  <2>1. PICK c \in {"ok", "failed"} : cpc' = [cpc EXCEPT ![w] = c]
    BY <1>6 DEF LockCircuit, Lock, GoTo
  <2>2. pc[w] = "record" /\ pc' = [pc EXCEPT ![w] = "record"]
    BY <1>0, <1>6 DEF LockCircuit, enginevars
  <2> QED BY <1>1, <2>1, <2>2 DEF InRecord, CircuitPC, EnginePC
<1>7. ASSUME NEW w \in Workers, Succeed(w) \/ Fail(w)
      PROVE  Control'
  <2>1. CASE Succeed(w)
    BY <1>1, <2>1
    DEF Succeed, RecordSuccess, GoTo, EndTask, Become, CircuitPC, EnginePC
  <2>2. CASE Fail(w)
    <3>1. PICK c \in {"idle", "holding"} : cpc' = [cpc EXCEPT ![w] = c]
      BY <2>2 DEF Fail, RecordFailure, GoTo
    <3> QED BY <1>1, <2>2, <3>1 DEF Fail, Become, CircuitPC, EnginePC
  <2> QED BY <1>7, <2>1, <2>2
<1>8. ASSUME NEW w \in Workers, CommitFailure(w)
      PROVE  Control'
  <2>1. PICK p \in {"idle", "schedule"} : pc' = [pc EXCEPT ![w] = p]
    BY <1>8 DEF CommitFailure, EndTask, Become
  <2>2. cpc' = [cpc EXCEPT ![w] = "idle"]
    BY <1>0, <1>8 DEF CommitFailure, Leave, GoTo, At, cbvars
  <2> QED BY <1>1, <2>1, <2>2 DEF CircuitPC, EnginePC
<1>9. ASSUME NEW w \in Workers,
             LoadDelivery(w) \/ Schedule(w) \/ MarkCircuitOpen(w) \/ Send(w)
      PROVE  Control'
  <2>1. UNCHANGED cpc
    BY <1>9 DEF LoadDelivery, Schedule, MarkCircuitOpen, Send, cbvars
  <2>2. CASE LoadDelivery(w)
    BY <1>2, <2>1, <2>2 DEF LoadDelivery, Control, EnginePC
  <2>3. CASE Schedule(w)
    <3>1. PICK p \in {"mark", "send"} : Become(w, p)
      BY <2>3 DEF Schedule
    <3> QED BY <1>2, <2>1, <2>3, <3>1 DEF Schedule, Control, EnginePC
  <2>4. CASE MarkCircuitOpen(w)
    BY <1>2, <2>1, <2>4 DEF MarkCircuitOpen, Control, EnginePC
  <2>5. CASE Send(w)
    BY <1>2, <2>1, <2>5 DEF Send, EndTask, Control, EnginePC
  <2> QED BY <1>9, <2>2, <2>3, <2>4, <2>5
<1>10. ASSUME NEW w \in Workers, SendRefused(w)
       PROVE  Control'
  <2>1. CASE handler[w]
    <3>1. EndTask(w) /\ UNCHANGED cpc /\ pc[w] = "send"
      BY <1>10, <2>1 DEF SendRefused, cbvars
    <3> QED BY <1>2, <3>1 DEF EndTask, Control, EnginePC
  <2>2. CASE ~handler[w]
    <3>1. /\ cpc' = [cpc EXCEPT ![w] = "raised"]
          /\ pc' = [pc EXCEPT ![w] = "record"]
      BY <1>10, <2>2 DEF SendRefused, Raise, GoTo, Become
    <3> QED BY <1>1, <3>1 DEF InRecord, CircuitPC, EnginePC
  <2> QED BY <2>1, <2>2
<1>11. ASSUME NEW w \in Workers, WorkerDies(w)
       PROVE  Control'
  <2>1. cpc' = [cpc EXCEPT ![w] = "idle"]
    BY <1>0, <1>11 DEF WorkerDies, Crash, GoTo, At, cbvars
  <2> QED BY <1>1, <1>11, <2>1 DEF WorkerDies, EndTask, Become, CircuitPC, EnginePC
<1>12. ASSUME NEW w \in Workers, NEW d \in Deliveries, Take(w, d)
       PROVE  Control'
  <2>1. Become(w, "check") /\ UNCHANGED cpc /\ cpc[w] = "idle"
    BY <1>12 DEF Take, Control, cbvars
  <2> QED BY <1>2, <2>1 DEF InCheck, EnginePC
<1>13. UNCHANGED <<pc, cpc>> => Control'
  BY DEF Control
<1>14. ASSUME NEW w \in Workers, TaskStep(w)
       PROVE  Control'
  BY <1>3, <1>4, <1>5, <1>6, <1>7, <1>8, <1>9, <1>14 DEF TaskStep
<1> QED
  BY <1>10, <1>11, <1>12, <1>13, <1>14
  DEF Next, TimePasses, Tick, enginevars, vars, cbvars

\* No lock of a circuit is held over a request, over a send or by a free
\* worker, and its holder waits for no circuit: waits for circuits form no
\* circle (those for the tenants' rows form none with them: Accounting, NoLockCycle).
THEOREM LocksStayShort == Spec => []LocksAreShort
<1>1. Init => Control
  BY DEF Init, CircuitAtRest, Control
<1>2. EngineInv /\ Control => LocksAreShort
  <2> SUFFICES ASSUME EngineInv, Control, NEW r \in Tenants, lock[r] # None
               PROVE  LocksAreShort!(r)!2
    BY DEF LocksAreShort
  <2>1. lock[r] \in Workers /\ cpc[lock[r]] \in {"ok", "failed", "holding"}
    BY DEF EngineInv, TypeOK, CircuitTypeOK, CircuitInv, LockOwners, HasLock
  <2>2. pc[lock[r]] \in EnginePC
    BY <2>1 DEF EngineInv, TypeOK
  <2> QED BY <2>1, <2>2 DEF Control, InCheck, EnginePC
<1> QED BY <1>1, <1>2, ControlStep, EngineInvariant, PTL DEF Spec

-----------------------------------------------------------------------------
(* When a delivery can be stranded at all. *)

\* Two tasks of one tenant may both meet an endpoint that has no circuit yet,
\* and insert it (get_or_create): this delivery's may be the one that loses.
Contended(d) ==
  /\ ~EndpointKnown
  /\ \E v, w \in Workers : v # w
  /\ \E e \in Deliveries : e # d /\ TenantOf[e] = TenantOf[d]

\* A circuit that is there before its insert was inserted by a task of another
\* delivery of the tenant, on another worker.
FirstContacts ==
  /\ EndpointKnown => Existing # {}
  /\ \A d \in lost : Faults # {} \/ Contended(d)
  /\ \A w \in Workers :
       /\ cpc[w] = "poisoned" => pc[w] = "check" /\ Contended(job[w])
       /\ cpc[w] = "creating" =>
            /\ pc[w] = "check" /\ tgt[w] = TenantOf[job[w]] /\ ~EndpointKnown
            /\ rows[tgt[w]] # None => Contended(job[w])

\* A circuit row, once inserted, stays (no code deletes one).
LEMMA RowsRemain ==
  ASSUME CircuitInv, [CircuitNext]_cbvars, NEW r \in Tenants, rows[r] # None
  PROVE  rows'[r] # None
<1>1. rows[r] \in CircuitRow /\ now \in Nat
  BY DEF CircuitInv, CircuitTypeOK
<1>2. ASSUME NEW n \in Nat, NEW t \in Nat
      PROVE  [state |-> "open", failure_count |-> n, opened_at |-> t] \in CircuitRow
  BY DEF CircuitRow
<1>3. ASSUME NEW s \in {"closed", "open", "half_open"}, NEW n \in Nat
      PROVE  /\ [rows[r] EXCEPT !.state = s] \in CircuitRow
             /\ [rows[r] EXCEPT !.failure_count = n] \in CircuitRow
  BY <1>1 DEF CircuitRow
<1>4. rows[r].failure_count + 1 \in Nat
  BY <1>1 DEF CircuitRow
<1>5. rows'[r] \in CircuitRow
  BY <1>1, <1>2, <1>3, <1>4, RowTransition, NewRow DEF Transition
<1> QED BY <1>5, CircuitAssumption

\* A circuit row comes from an insert only.
LEMMA RowsAppear ==
  ASSUME CircuitInv, [CircuitNext]_cbvars, NEW r \in Tenants,
         rows[r] = None, rows'[r] # None
  PROVE  \E w \in Workers : InsertCircuit(w) /\ tgt[w] = r
<1>0. rows \in [Tenants -> CircuitRow \cup {None}]
  BY DEF CircuitInv, CircuitTypeOK
<1>1. ASSUME NEW w \in Workers, HalfOpen(w) \/ RecordSuccess(w) \/ RecordFailure(w)
      PROVE  rows'[r] = rows[r]
  <2>1. tgt[w] # r
    BY <1>1
    DEF HalfOpen, RecordSuccess, RecordFailure, At, CircuitInv, Targeting, HasRow
  <2> QED BY <1>0, <1>1, <2>1 DEF HalfOpen, RecordSuccess, RecordFailure
<1>2. PICK w \in Workers : InsertCircuit(w)
  BY <1>1
  DEF CircuitNext, CircuitStep, Tick, LookUp, LookUpMissing, ReadCreated, Decide,
      Lock, Leave, Raise, Crash, cbvars
<1>3. tgt[w] = r
  BY <1>0, <1>2 DEF InsertCircuit
<1> QED BY <1>2, <1>3

\* A worker's step leaves every other worker where it is.
LEMMA OthersKeep ==
  ASSUME TypeOK, Busy, NEW w \in Workers,
         TaskStep(w) \/ SendRefused(w) \/ WorkerDies(w),
         NEW v \in Workers, v # w
  PROVE  /\ cpc'[v] = cpc[v] /\ tgt'[v] = tgt[v]
         /\ pc'[v] = pc[v] /\ job'[v] = job[v]
<1>0. /\ pc \in [Workers -> EnginePC]
      /\ tgt \in [Workers -> Tenants \cup {None}]
      /\ job \in [Workers -> Deliveries \cup {None}]
  BY DEF TypeOK, CircuitTypeOK
<1>1. UNCHANGED tgt \/ \E t : tgt' = [tgt EXCEPT ![w] = t]
  <2>1. ASSUME CheckCircuit(w)
        PROVE  \E t : tgt' = [tgt EXCEPT ![w] = t]
    BY <2>1
    DEF CheckCircuit, LookUp, LookUpMissing, ReadCreated, InsertCircuit,
        HalfOpen, Decide, GoTo
  <2>2. ASSUME LockCircuit(w) \/ Succeed(w) \/ Fail(w)
        PROVE  \E t : tgt' = [tgt EXCEPT ![w] = t]
    BY <2>2
    DEF LockCircuit, Lock, Succeed, RecordSuccess, Fail, RecordFailure, GoTo
  <2>3. ASSUME InsertFailed(w) \/ Postpone(w) \/ CommitFailure(w)
        PROVE  UNCHANGED tgt \/ \E t : tgt' = [tgt EXCEPT ![w] = t]
    BY <2>3 DEF InsertFailed, Postpone, CommitFailure, Leave, GoTo, cbvars
  <2>4. ASSUME \/ Post(w) \/ LoadDelivery(w) \/ Schedule(w)
               \/ MarkCircuitOpen(w) \/ Send(w)
        PROVE  UNCHANGED tgt
    BY <2>4
    DEF Post, LoadDelivery, Schedule, MarkCircuitOpen, Send, cbvars
  <2>5. ASSUME SendRefused(w) \/ WorkerDies(w)
        PROVE  UNCHANGED tgt \/ \E t : tgt' = [tgt EXCEPT ![w] = t]
    BY <2>5 DEF SendRefused, WorkerDies, Raise, Crash, GoTo, cbvars
  <2> QED BY <2>1, <2>2, <2>3, <2>4, <2>5 DEF TaskStep
<1>2. UNCHANGED pc \/ \E p : pc' = [pc EXCEPT ![w] = p]
  BY DEF TaskStep, CheckCircuit, InsertFailed, Postpone, Post, LockCircuit,
         Succeed, Fail, LoadDelivery, CommitFailure, Schedule, MarkCircuitOpen,
         Send, SendRefused, WorkerDies, EndTask, Become, enginevars
<1>3. UNCHANGED job \/ \E d : job' = [job EXCEPT ![w] = d]
  BY DEF TaskStep, CheckCircuit, InsertFailed, Postpone, Post, LockCircuit,
         Succeed, Fail, LoadDelivery, CommitFailure, Schedule, MarkCircuitOpen,
         Send, SendRefused, WorkerDies, EndTask, enginevars
<1> QED BY <1>0, <1>1, <1>2, <1>3, OthersStay

\* What FirstContacts says of one worker.
FirstContact(w) ==
  /\ cpc[w] = "poisoned" => pc[w] = "check" /\ Contended(job[w])
  /\ cpc[w] = "creating" =>
       /\ pc[w] = "check" /\ tgt[w] = TenantOf[job[w]] /\ ~EndpointKnown
       /\ rows[tgt[w]] # None => Contended(job[w])

LEMMA FirstContactsStep ==
  EngineInv /\ Control /\ FirstContacts /\ [Next]_vars => FirstContacts'
<1> SUFFICES ASSUME EngineInv, Control, FirstContacts, [Next]_vars
             PROVE  FirstContacts'
  OBVIOUS
<1>0. /\ TypeOK /\ Busy /\ CircuitInv /\ [CircuitNext]_cbvars /\ Control'
      /\ pc \in [Workers -> EnginePC] /\ cpc \in [Workers -> CircuitPC]
      /\ tgt \in [Workers -> Tenants \cup {None}]
      /\ job \in [Workers -> Deliveries \cup {None}]
  BY EngineCircuit, ControlStep
  DEF EngineInv, Carrying, Busy, TypeOK, CircuitTypeOK
<1>1. EndpointKnown => Existing' # {}
  BY <1>0, RowsRemain DEF FirstContacts, Existing
\* The delivery of a worker about to insert a row that another inserts.
<1>2. ASSUME NEW v \in Workers, cpc[v] = "creating", cpc'[v] = "creating",
             rows[tgt[v]] = None, rows'[tgt[v]] # None
      PROVE  Contended(job[v])
  <2>1. tgt[v] \in Tenants
    BY <1>0, <1>2 DEF CircuitInv, Targeting
  <2>2. PICK u \in Workers : InsertCircuit(u) /\ tgt[u] = tgt[v]
    BY <1>0, <1>2, <2>1, RowsAppear
  <2>3. cpc[u] = "creating" /\ u # v
    BY <1>0, <1>2, <2>2 DEF InsertCircuit, At, GoTo
  <2>4. /\ pc[u] = "check" /\ TenantOf[job[u]] = tgt[u]
        /\ pc[v] = "check" /\ TenantOf[job[v]] = tgt[v] /\ ~EndpointKnown
    BY <1>2, <2>3 DEF FirstContacts
  <2>5. job[u] \in Deliveries /\ job[u] # job[v]
    BY <2>3, <2>4, Holder
  <2> QED BY <2>2, <2>3, <2>4, <2>5 DEF Contended
<1>3. ASSUME NEW v \in Workers, cpc'[v] = cpc[v], tgt'[v] = tgt[v],
             pc'[v] = pc[v], job'[v] = job[v]
      PROVE  FirstContact(v)'
  BY <1>2, <1>3 DEF FirstContacts, FirstContact, Contended
<1>4. ASSUME NEW v \in Workers, pc'[v] # "check" \/ cpc'[v] = "idle"
      PROVE  FirstContact(v)'
  <2>1. pc'[v] \in EnginePC
    BY EngineStep DEF EngineInv, TypeOK
  <2>2. cpc'[v] \notin {"creating", "poisoned"}
    BY <1>0, <1>4, <2>1 DEF Control, InRecord, EnginePC
  <2> QED BY <2>2 DEF FirstContact
<1>5. ASSUME NEW w \in Workers, CheckCircuit(w)
      PROVE  FirstContact(w)'
  <2>1. pc[w] = "check" /\ UNCHANGED <<pc, job>>
    BY <1>5 DEF CheckCircuit
  <2>2. CASE LookUpMissing(w, TenantOf[job[w]])
    <3>1. /\ cpc'[w] = "creating" /\ tgt'[w] = TenantOf[job[w]] /\ UNCHANGED rows
          /\ ~EndpointKnown /\ \A r \in Tenants : rows[r] = None
      BY <1>0, <2>2 DEF LookUpMissing, GoTo, FirstContacts, Existing
    <3>2. TenantOf[job[w]] \in Tenants
      BY <2>1, Holder, EngineAssumption
    <3> QED BY <2>1, <3>1, <3>2 DEF FirstContact
  <2>3. CASE InsertCircuit(w)
    <3>1. /\ cpc[w] = "creating"
          /\ \/ cpc'[w] = "created"
             \/ cpc'[w] = "poisoned" /\ rows[tgt[w]] # None
      BY <1>0, <2>3 DEF InsertCircuit, At, GoTo
    <3>2. rows[tgt[w]] # None => Contended(job[w])
      BY <3>1 DEF FirstContacts
    <3> QED BY <2>1, <3>1, <3>2 DEF FirstContact, Contended
  <2>4. CASE LookUp(w) \/ ReadCreated(w) \/ HalfOpen(w)
    <3>1. cpc'[w] \in {"sending", "probing", "half_opening", "blocked"}
      BY <1>0, <2>4 DEF LookUp, ReadCreated, HalfOpen, Decide, GoTo
    <3> QED BY <3>1 DEF FirstContact
  <2> QED BY <1>5, <2>2, <2>3, <2>4 DEF CheckCircuit
<1>6. ASSUME NEW w \in Workers, TaskStep(w) \/ SendRefused(w) \/ WorkerDies(w)
      PROVE  FirstContact(w)'
  <2>1. ASSUME ~CheckCircuit(w)
        PROVE  pc'[w] # "check"
    BY <1>0, <1>6, <2>1
    DEF TaskStep, InsertFailed, Postpone, Post, LockCircuit, Succeed, Fail,
        LoadDelivery, CommitFailure, Schedule, MarkCircuitOpen, Send,
        SendRefused, WorkerDies, EndTask, Become, enginevars
  <2> QED BY <1>4, <1>5, <2>1
<1>7. ASSUME NEW v \in Workers
      PROVE  FirstContact(v)'
  <2>1. ASSUME NEW w \in Workers, TaskStep(w) \/ SendRefused(w) \/ WorkerDies(w)
        PROVE  FirstContact(v)'
    <3>1. CASE v = w
      BY <1>6, <2>1, <3>1
    <3>2. CASE v # w
      BY <1>0, <1>3, <2>1, <3>2, OthersKeep
    <3> QED BY <3>1, <3>2
  <2>2. ASSUME NEW w \in Workers, NEW d \in Deliveries, Take(w, d)
        PROVE  FirstContact(v)'
    <3>1. /\ pc[w] = "idle" /\ UNCHANGED cbvars
          /\ v # w => pc'[v] = pc[v] /\ job'[v] = job[v]
      BY <1>0, <2>2 DEF Take, Become
    <3>2. CASE v = w
      <4>1. cpc'[v] = "idle"
        BY <3>1, <3>2 DEF Control, cbvars
      <4> QED BY <1>4, <4>1
    <3>3. CASE v # w
      BY <1>3, <3>1, <3>3 DEF cbvars
    <3> QED BY <3>2, <3>3
  <2>3. CASE TimePasses \/ UNCHANGED vars
    BY <1>3, <2>3 DEF TimePasses, Tick, enginevars, vars, cbvars
  <2> QED BY <2>1, <2>2, <2>3 DEF Next
<1>8. ASSUME NEW d \in lost'
      PROVE  Faults # {} \/ Contended(d)
  <2>1. ASSUME NEW w \in Workers, TaskStep(w)
        PROVE  UNCHANGED lost \/ (InsertFailed(w) /\ lost' = lost \cup {job[w]})
    BY <2>1
    DEF TaskStep, CheckCircuit, InsertFailed, Postpone, Post, LockCircuit,
        Succeed, Fail, LoadDelivery, CommitFailure, Schedule, MarkCircuitOpen,
        Send, enginevars
  <2>2. ASSUME NEW w \in Workers, InsertFailed(w)
        PROVE  Contended(job[w])
    BY <2>2 DEF InsertFailed, At, FirstContacts
  <2>3. ASSUME NEW w \in Workers, SendRefused(w) \/ WorkerDies(w)
        PROVE  Faults # {}
    BY <2>3 DEF SendRefused, WorkerDies
  <2> QED
    BY <1>8, <2>1, <2>2, <2>3
    DEF FirstContacts, Next, Take, TimePasses, enginevars, vars
<1> QED BY <1>1, <1>7, <1>8 DEF FirstContacts, FirstContact

\* A delivery is only ever stranded by a fault, or by a first contact of its
\* endpoint with two tasks of its tenant on two workers: where there is neither,
\* every delivery that waits has a task, for any schedule of any number of
\* workers.
THEOREM NothingStrandsTheRest ==
  Spec => [](\A d \in lost : Faults # {} \/ Contended(d))
<1>1. Init => Control /\ FirstContacts
  BY EngineAssumption DEF Init, CircuitAtRest, Control, FirstContacts
<1>2. FirstContacts => \A d \in lost : Faults # {} \/ Contended(d)
  BY DEF FirstContacts
<1> QED
  BY <1>1, <1>2, ControlStep, FirstContactsStep, EngineInvariant, PTL DEF Spec

\* README: every registered subscriber receives the event.  So no delivery that
\* waits is without a task, if no worker dies, the broker takes every message,
\* and the endpoint has its circuit or no two deliveries of a tenant.
THEOREM NoneStrandedWithoutCause ==
  ASSUME Faults = {}, \A d \in Deliveries : ~Contended(d)
  PROVE  Spec => []NoneStranded
<1>1. EngineInv /\ (\A d \in lost : Faults # {} \/ Contended(d)) => NoneStranded
  <2> SUFFICES ASSUME EngineInv, \A d \in lost : Contended(d), NEW d \in Deliveries
               PROVE  NoneStranded!(d)
    BY DEF NoneStranded
  <2>1. d \notin lost
    OBVIOUS
  <2>2. Terminal(d) \/ tasks[d] = 1 \/ ~Unheld(d)
    BY <2>1 DEF EngineInv, Carrying
  <2> QED BY <2>2 DEF Unheld, Holds
<1> QED BY <1>1, EngineInvariant, NothingStrandsTheRest, PTL

=============================================================================
