----------------------------- MODULE ReplayProofs -----------------------------
(***************************************************************************)
(* Theorems of Replay, for any number of deliveries, events, workers and    *)
(* replays.  The engine's invariant does not hold here, a replay can give a *)
(* delivery a second carrier, so each theorem has an invariant of its own:  *)
(*                                                                          *)
(*  - CountInv: the carriers and letters of a delivery are counted.  A step *)
(*    turns one into one at most (Passes), and only a request that had not  *)
(*    sent yet adds one (AddsKeeps).                                        *)
(*  - TypesInv: the types, the breaker's invariant, and what each session   *)
(*    has loaded before it writes it back.                                  *)
(*  - StrandInv: a delivery that waits has a task queued, a request about   *)
(*    to send one, or a worker that undertakes it.                          *)
(*  - SafeInv: as long as nothing has gone wrong with its replays, a        *)
(*    delivery has one keeper at a time: its task, its worker or the one    *)
(*    request that revives it, whose copy of the row is the row.  So each   *)
(*    of its lives, from a revival to the next, is one of DeliveryContract. *)
(*  - NumberInv: its attempts are numbered by the failures of that life.    *)
(***************************************************************************)
EXTENDS Replay, WebhookEngineProofs, FiniteSetTheorems

CountTypes ==
  /\ tasks \in [Deliveries -> Nat]
  /\ dlq \in [Deliveries -> Nat]
  /\ job \in [Workers -> Deliveries \cup {None}]
  /\ pc \in [Workers -> EnginePC]
  /\ qpc \in [Replays -> ReplayPC]
  /\ resent \in [Replays -> SUBSET Deliveries]

\* A dead letter's replay has sent nothing before it sends its one task.
Unsent == \A q \in Replays : qpc[q] \in {"new", "write", "send"} => resent[q] = {}

CountInv == CountTypes /\ Busy /\ Unsent /\ OneLetterPerSend

Holders(d) == {w \in Workers : Holds(w, d)}

LEMMA Finite ==
  /\ \A d : IsFiniteSet(Holders(d)) /\ Cardinality(Holders(d)) \in Nat
  /\ \A d : /\ IsFiniteSet({q \in Replays : d \in resent[q]})
            /\ Resent(d) \in Nat
BY FS_Subset, FS_CardinalityType, ReplayAssumption DEF Holders, Resent

\* A worker that lets its delivery go is one holder less.
LEMMA LetGo ==
  ASSUME CountTypes, NEW w \in Workers, job[w] \in Deliveries,
         job' = [job EXCEPT ![w] = None]
  PROVE  \A d \in Deliveries :
           Cardinality(Holders(d)') =
             Cardinality(Holders(d)) - IF d = job[w] THEN 1 ELSE 0
<1> TAKE d \in Deliveries
<1>1. None # d
  BY EngineAssumption
<1>2. CASE d = job[w]
  <2>1. Holders(d)' = Holders(d) \ {w} /\ w \in Holders(d)
    BY <1>1, <1>2 DEF Holders, Holds, CountTypes
  <2>2. QED
    BY <1>2, <2>1, Finite, FS_RemoveElement
<1>3. CASE d # job[w]
  <2>1. Holders(d)' = Holders(d)
    BY <1>1, <1>3 DEF Holders, Holds, CountTypes
  <2>2. QED
    BY <1>3, <2>1, Finite
<1>4. QED
  BY <1>2, <1>3

\* A worker that takes a delivery is one holder more.
LEMMA TakeUp ==
  ASSUME CountTypes, NEW w \in Workers, NEW e \in Deliveries, job[w] = None,
         job' = [job EXCEPT ![w] = e]
  PROVE  \A d \in Deliveries :
           Cardinality(Holders(d)') =
             Cardinality(Holders(d)) + IF d = e THEN 1 ELSE 0
<1> TAKE d \in Deliveries
<1>1. None # d
  BY EngineAssumption
<1>2. CASE d = e
  <2>1. Holders(d)' = Holders(d) \cup {w} /\ w \notin Holders(d)
    BY <1>1, <1>2 DEF Holders, Holds, CountTypes
  <2>2. QED
    BY <1>2, <2>1, Finite, FS_AddElement
<1>3. CASE d # e
  <2>1. Holders(d)' = Holders(d)
    BY <1>1, <1>3 DEF Holders, Holds, CountTypes
  <2>2. QED
    BY <1>3, <2>1, Finite
<1>4. QED
  BY <1>2, <1>3
-----------------------------------------------------------------------------
(* The workers' steps. *)

\* What a step of w does to the tasks, the letters and its own delivery.
Passes(w) ==
  \/ UNCHANGED <<tasks, dlq, job>> /\ (pc'[w] = "idle" <=> pc[w] = "idle")
  \/ /\ pc[w] # "idle" /\ job' = [job EXCEPT ![w] = None] /\ pc'[w] = "idle"
     /\ \/ UNCHANGED <<tasks, dlq>>
        \/ tasks' = [tasks EXCEPT ![job[w]] = @ + 1] /\ UNCHANGED dlq
        \/ dlq' = [dlq EXCEPT ![job[w]] = @ + 1] /\ UNCHANGED tasks

LEMMA WorkerPasses ==
  ASSUME CountInv, NEW w \in Workers,
         TaskStep(w) \/ SendRefused(w) \/ WorkerDies(w)
  PROVE  /\ Passes(w)
         /\ pc' \in [Workers -> EnginePC]
         /\ \A v \in Workers : v # w => pc'[v] = pc[v]
<1> USE DEF CountInv, CountTypes, EnginePC, Passes, EndTask, Become
<1>1. CASE TaskStep(w)
  <2>1. CASE CheckCircuit(w) \/ LockCircuit(w)
    BY <2>1 DEF CheckCircuit, LockCircuit, enginevars
  <2>2. CASE InsertFailed(w) \/ Succeed(w) \/ Send(w)
    BY <2>2 DEF InsertFailed, Succeed, Send
  <2>3. CASE Postpone(w) \/ Post(w) \/ Fail(w) \/ LoadDelivery(w)
    BY <2>3 DEF Postpone, Post, Fail, LoadDelivery
  <2>4. CASE CommitFailure(w)
    BY <2>4 DEF CommitFailure, MoveToDLQ
  <2>5. CASE Schedule(w) \/ MarkCircuitOpen(w)
    BY <2>5 DEF Schedule, MarkCircuitOpen
  <2>6. QED
    BY <1>1, <2>1, <2>2, <2>3, <2>4, <2>5 DEF TaskStep
<1>2. CASE SendRefused(w)
  BY <1>2 DEF SendRefused
<1>3. CASE WorkerDies(w)
  BY <1>3 DEF WorkerDies
<1>4. QED
  BY <1>1, <1>2, <1>3

LEMMA PassesKeeps ==
  ASSUME CountInv, NEW w \in Workers, Passes(w), UNCHANGED <<qpc, resent>>,
         pc' \in [Workers -> EnginePC],
         \A v \in Workers : v # w => pc'[v] = pc[v]
  PROVE  CountInv'
<1>1. Unsent'
  BY DEF CountInv, Unsent
<1>2. CASE UNCHANGED <<tasks, dlq, job>> /\ (pc'[w] = "idle" <=> pc[w] = "idle")
  BY <1>1, <1>2 DEF CountInv, CountTypes, Busy, OneLetterPerSend, Carriers,
                    Holds, Resent
<1>3. CASE pc[w] # "idle" /\ job' = [job EXCEPT ![w] = None] /\ pc'[w] = "idle"
  <2>1. job[w] \in Deliveries
    BY <1>3 DEF CountInv, CountTypes, Busy
  <2>2. CountTypes' /\ Busy'
    BY <1>3, <2>1 DEF Passes, CountInv, CountTypes, Busy
  <2>3. OneLetterPerSend'
    <3> SUFFICES ASSUME NEW d \in Deliveries
                 PROVE  dlq'[d] + Carriers(d)' <= 1 + Resent(d)'
      BY DEF OneLetterPerSend
    <3>1. Cardinality(Holders(d)') =
            Cardinality(Holders(d)) - IF d = job[w] THEN 1 ELSE 0
      BY <1>3, <2>1, LetGo DEF CountInv
    <3>2. dlq[d] + (tasks[d] + Cardinality(Holders(d))) <= 1 + Resent(d)
      BY DEF CountInv, OneLetterPerSend, Carriers, Holders
    <3>3. dlq'[d] + tasks'[d] <= dlq[d] + tasks[d] + IF d = job[w] THEN 1 ELSE 0
      BY <1>3, <2>1, EngineAssumption DEF Passes, CountInv, CountTypes
    <3>4. dlq'[d] \in Nat /\ tasks'[d] \in Nat /\ dlq[d] \in Nat /\ tasks[d] \in Nat
      BY <2>2 DEF CountInv, CountTypes
    <3>5. Resent(d)' = Resent(d) /\ Resent(d) \in Nat
      BY Finite DEF Resent
    <3>6. Cardinality(Holders(d)) \in Nat
      BY Finite
    <3>7. dlq'[d] + (tasks'[d] + Cardinality(Holders(d)')) <= 1 + Resent(d)
      BY <3>1, <3>2, <3>3, <3>4, <3>5, <3>6
    <3>8. QED
      BY <3>5, <3>7 DEF Carriers, Holders
  <2>4. QED
    BY <1>1, <2>2, <2>3 DEF CountInv
<1>4. QED
  BY <1>2, <1>3 DEF Passes

LEMMA TakeKeeps ==
  ASSUME CountInv, NEW w \in Workers, NEW e \in Deliveries, WorkerTakes(w, e)
  PROVE  CountInv'
<1>1. /\ pc[w] = "idle" /\ tasks[e] > 0
      /\ tasks' = [tasks EXCEPT ![e] = @ - 1]
      /\ job' = [job EXCEPT ![w] = e] /\ pc' = [pc EXCEPT ![w] = "check"]
      /\ UNCHANGED <<dlq, qpc, resent>>
  BY DEF WorkerTakes, Take, Become
<1>2. job[w] = None
  BY <1>1 DEF CountInv, Busy
<1>3. CountTypes' /\ Busy' /\ Unsent'
  BY <1>1, EngineAssumption
     DEF CountInv, CountTypes, EnginePC, Busy, Unsent
<1>4. OneLetterPerSend'
  <2> SUFFICES ASSUME NEW d \in Deliveries
               PROVE  dlq'[d] + Carriers(d)' <= 1 + Resent(d)'
    BY DEF OneLetterPerSend
  <2>1. Cardinality(Holders(d)') = Cardinality(Holders(d)) + IF d = e THEN 1 ELSE 0
    BY <1>1, <1>2, TakeUp DEF CountInv
  <2>2. dlq[d] + (tasks[d] + Cardinality(Holders(d))) <= 1 + Resent(d)
    BY DEF CountInv, OneLetterPerSend, Carriers, Holders
  <2>3. tasks'[d] = tasks[d] - IF d = e THEN 1 ELSE 0
    BY <1>1 DEF CountInv, CountTypes
  <2>4. /\ dlq[d] \in Nat /\ tasks[d] \in Nat /\ Cardinality(Holders(d)) \in Nat
        /\ Resent(d)' = Resent(d) /\ Resent(d) \in Nat
    BY <1>1, Finite DEF CountInv, CountTypes, Resent
  <2>5. dlq[d] + (tasks'[d] + Cardinality(Holders(d)')) <= 1 + Resent(d)
    BY <2>1, <2>2, <2>3, <2>4
  <2>6. QED
    BY <1>1, <2>4, <2>5 DEF Carriers, Holders
<1>5. QED
  BY <1>3, <1>4 DEF CountInv
-----------------------------------------------------------------------------
(* The replays' steps. *)

\* A request sends a task for a delivery it has not sent one for.
LEMMA AddsKeeps ==
  ASSUME CountInv, NEW q \in Replays, NEW e \in Deliveries, e \notin resent[q],
         tasks' = [tasks EXCEPT ![e] = @ + 1],
         resent' = [resent EXCEPT ![q] = @ \cup {e}],
         UNCHANGED <<dlq, job, pc>>,
         qpc' \in [Replays -> ReplayPC], qpc'[q] \notin {"new", "write", "send"},
         \A p \in Replays : p # q => qpc'[p] = qpc[p]
  PROVE  CountInv'
<1>1. CountTypes
  BY DEF CountInv
<1>2. tasks[e] + 1 \in Nat /\ resent[q] \cup {e} \in SUBSET Deliveries
  BY <1>1 DEF CountTypes
<1>3. CountTypes'
  <2>1. tasks' \in [Deliveries -> Nat]
    BY <1>1, <1>2 DEF CountTypes
  <2>2. resent' \in [Replays -> SUBSET Deliveries]
    BY <1>1, <1>2 DEF CountTypes
  <2>3. QED
    BY <1>1, <2>1, <2>2 DEF CountTypes
<1>4. Busy'
  BY DEF CountInv, Busy
<1>5. Unsent'
  <2> SUFFICES ASSUME NEW p \in Replays, qpc'[p] \in {"new", "write", "send"}
               PROVE  resent'[p] = {}
    BY DEF Unsent
  <2>1. p # q
    OBVIOUS
  <2>2. resent'[p] = resent[p]
    BY <1>1, <2>1 DEF CountTypes
  <2>3. QED
    BY <2>1, <2>2 DEF CountInv, Unsent
<1>6. ASSUME NEW d \in Deliveries
      PROVE  Resent(d)' = Resent(d) + IF d = e THEN 1 ELSE 0
  <2> DEFINE R == {p \in Replays : d \in resent[p]}
             S == {p \in Replays : d \in resent'[p]}
  <2>1. Resent(d) = Cardinality(R) /\ Resent(d)' = Cardinality(S)
    BY DEF Resent
  <2>2. IsFiniteSet(R) /\ Cardinality(R) \in Nat
    BY Finite, <2>1
  <2>3. CASE d = e
    <3>1. S = R \cup {q} /\ q \notin R
      BY <1>1, <2>3 DEF CountTypes
    <3> HIDE DEF R, S
    <3>2. Cardinality(S) = Cardinality(R) + 1
      BY <2>2, <3>1, FS_AddElement
    <3>3. QED
      BY <2>1, <2>3, <3>2
  <2>4. CASE d # e
    <3>1. S = R
      BY <1>1, <2>4 DEF CountTypes
    <3> HIDE DEF R, S
    <3>2. QED
      BY <2>1, <2>2, <2>4, <3>1
  <2>5. QED
    BY <2>3, <2>4
<1>7. OneLetterPerSend'
  <2> SUFFICES ASSUME NEW d \in Deliveries
               PROVE  dlq'[d] + Carriers(d)' <= 1 + Resent(d)'
    BY DEF OneLetterPerSend
  <2>1. dlq[d] + (tasks[d] + Cardinality(Holders(d))) <= 1 + Resent(d)
    BY DEF CountInv, OneLetterPerSend, Carriers, Holders
  <2>2. /\ dlq[d] \in Nat /\ tasks[d] \in Nat /\ Cardinality(Holders(d)) \in Nat
        /\ Resent(d) \in Nat
    BY <1>1, Finite DEF CountTypes
  <2>3. tasks'[d] = tasks[d] + IF d = e THEN 1 ELSE 0
    BY <1>1, <2>2 DEF CountTypes
  <2>4. Holders(d)' = Holders(d)
    BY DEF Holders, Holds
  <2>5. Resent(d)' = Resent(d) + IF d = e THEN 1 ELSE 0
    BY <1>6
  <2> HIDE DEF Resent
  <2>6. dlq[d] + (tasks'[d] + Cardinality(Holders(d))) <= 1 + Resent(d)'
    BY <2>1, <2>2, <2>3, <2>5
  <2>7. QED
    BY <2>4, <2>6 DEF Carriers, Holders
<1>8. QED
  BY <1>3, <1>4, <1>5, <1>7 DEF CountInv

LEMMA ReplayingKeeps ==
  ASSUME CountInv, NEW q \in Replays, Replaying(q)
  PROVE  CountInv'
<1> USE DEF Step
<1>1. CASE /\ UNCHANGED <<tasks, dlq, job, pc, resent>>
           /\ \E p \in ReplayPC :
                /\ qpc' = [qpc EXCEPT ![q] = p]
                /\ p = "send" => qpc[q] = "write"
                /\ p \in {"new", "write"} => qpc[q] = "new"
  <2>1. CountTypes' /\ Busy' /\ Unsent'
    BY <1>1 DEF CountInv, CountTypes, Busy, Unsent
  <2>2. OneLetterPerSend'
    BY <1>1 DEF CountInv, OneLetterPerSend, Carriers, Holds, Resent
  <2>3. QED
    BY <2>1, <2>2 DEF CountInv
<1>2. CASE \/ \E d \in Deliveries : LoadLetter(q, d)
           \/ \E e \in {EventOf[d] : d \in Deliveries} : LoadEvent(q, e)
           \/ CommitLetter(q) \/ CommitEvent(q) \/ CutShort(q)
  BY <1>1, <1>2
     DEF LoadLetter, LoadEvent, CommitLetter, CommitEvent, CutShort, vars,
         enginevars, ReplayPC
<1>3. CASE SendLetter(q)
  <2>1. PICK d \in Deliveries : /\ tasks' = [tasks EXCEPT ![d] = @ + 1]
                                /\ resent' = [resent EXCEPT ![q] = {d}]
    BY <1>3 DEF SendLetter, SendTask, Over
  <2>2. resent[q] = {} /\ qpc' = [qpc EXCEPT ![q] = "done"]
        /\ UNCHANGED <<dlq, job, pc>>
    BY <1>3 DEF SendLetter, CountInv, Unsent
  <2>3. QED
    BY <2>1, <2>2, AddsKeeps DEF CountInv, CountTypes, ReplayPC
<1>4. CASE Requeue(q)
  <2>1. PICK d \in Over(q) \ resent[q] :
          /\ tasks' = [tasks EXCEPT ![d] = @ + 1]
          /\ resent' = [resent EXCEPT ![q] = @ \cup {d}]
    BY <1>4 DEF Requeue, SendTask
  <2>2. d \in Deliveries /\ d \notin resent[q]
    BY DEF Over
  <2>3. qpc[q] = "requeue" /\ UNCHANGED <<dlq, job, pc, qpc>>
    BY <1>4 DEF Requeue
  <2>4. QED
    BY <2>1, <2>2, <2>3, AddsKeeps DEF CountInv, CountTypes
<1>5. QED
  BY <1>2, <1>3, <1>4 DEF Replaying
-----------------------------------------------------------------------------
LEMMA CountInitially == ReplayInit => CountInv
<1> SUFFICES ASSUME ReplayInit PROVE CountInv
  OBVIOUS
<1>1. CountTypes /\ Busy /\ Unsent
  BY DEF ReplayInit, Init, CountTypes, EnginePC, ReplayPC, Busy, Unsent
<1>2. ASSUME NEW d \in Deliveries
      PROVE  dlq[d] + Carriers(d) <= 1 + Resent(d)
  <2>1. Holders(d) = {} /\ {q \in Replays : d \in resent[q]} = {}
    BY EngineAssumption DEF ReplayInit, Init, Holders, Holds
  <2>2. dlq[d] = 0 /\ tasks[d] = 1
    BY DEF ReplayInit, Init
  <2>3. QED
    BY <2>1, <2>2, FS_EmptySet DEF Carriers, Resent, Holders
<1>3. QED
  BY <1>1, <1>2 DEF CountInv, OneLetterPerSend

LEMMA CountStep == CountInv /\ [ReplayNext]_allvars => CountInv'
<1> SUFFICES ASSUME CountInv, [ReplayNext]_allvars PROVE CountInv'
  OBVIOUS
<1>1. ASSUME NEW w \in Workers, NEW d \in Deliveries, WorkerTakes(w, d)
      PROVE  CountInv'
  BY <1>1, TakeKeeps
<1>2. ASSUME NEW w \in Workers, UNCHANGED replayvars,
             TaskStep(w) \/ SendRefused(w) \/ WorkerDies(w)
      PROVE  CountInv'
  BY <1>2, WorkerPasses, PassesKeeps DEF replayvars
<1>3. CASE UNCHANGED <<tasks, dlq, job, pc, qpc, resent>>
  BY <1>3 DEF CountInv, CountTypes, Busy, Unsent, OneLetterPerSend, Carriers,
              Holds, Resent
<1>4. CASE (TimePasses /\ UNCHANGED replayvars) \/ UNCHANGED allvars
  BY <1>3, <1>4 DEF TimePasses, enginevars, replayvars, allvars, vars
<1>5. QED
  BY <1>1, <1>2, <1>4, ReplayingKeeps DEF ReplayNext

\* However many replays of however many deliveries overlap, and whatever dies,
\* the dead letters of a delivery and the tasks that carry it are never more
\* than the tasks that were sent for it from outside, the first and the
\* replays'.
THEOREM ReplaysDoNotMultiply == ReplaySpec => []OneLetterPerSend
<1>1. CountInv => OneLetterPerSend
  BY DEF CountInv
<1>2. QED
  BY <1>1, CountInitially, CountStep, PTL DEF ReplaySpec

-----------------------------------------------------------------------------
(* Every variable keeps its type. *)

\* The session that is about to write a delivery back has loaded it.
Prepared == \A w \in Workers : pc[w] \in {"failed", "mark"} => loaded[w] # None

TypesInv == ReplayTypeOK /\ CircuitInv /\ Busy /\ Prepared /\ Results

LEMMA UpdatedRow ==
  ASSUME NEW row \in DeliveryRow, NEW old \in DeliveryRow, NEW new \in DeliveryRow
  PROVE  Updated(row, old, new) \in DeliveryRow
  BY DEF Updated, DeliveryRow

LEMMA RevivedRow ==
  ASSUME NEW row \in DeliveryRow, NEW old
  PROVE  Revive(row, old) \in DeliveryRow
<1>1. 0 \in Nat /\ None \in FailureTypes \cup {None}
  OBVIOUS
<1> QED BY <1>1 DEF Revive, DeliveryRow

\* The worker has its delivery, and a row of it to work on.
LEMMA Working ==
  ASSUME TypesInv, NEW w \in Workers, pc[w] # "idle"
  PROVE  /\ job[w] \in Deliveries /\ job[w] # None
         /\ dlv[job[w]] \in DeliveryRow /\ dlv[job[w]] # None
  BY EngineAssumption DEF TypesInv, ReplayTypeOK, TypeOK, Busy

\* What a step of w leaves in its own session, in the rows and in the queues.
LEMMA WorkerTypes ==
  ASSUME TypesInv, CircuitInv', NEW w \in Workers,
         TaskStep(w) \/ SendRefused(w) \/ WorkerDies(w)
  PROVE  TypeOK' /\ Busy' /\ Prepared' /\ Results'
<1>0. /\ TypeOK /\ Busy /\ Prepared /\ Results /\ CircuitTypeOK'
      /\ \A v \in Workers : v # w => cpc'[v] = cpc[v]
  BY OthersStay DEF TypesInv, ReplayTypeOK, CircuitInv
<1>1. ASSUME EndTask(w), UNCHANGED logged, pc[w] # "idle",
             NEW row \in DeliveryRow, UNCHANGED dlv \/ Store(job[w], row),
             UNCHANGED dlq \/ dlq' = [dlq EXCEPT ![job[w]] = @ + 1],
             UNCHANGED tasks \/ tasks' = [tasks EXCEPT ![job[w]] = @ + 1],
             UNCHANGED lost \/ lost' = lost \cup {job[w]}
      PROVE  TypeOK' /\ Busy' /\ Prepared' /\ Results'
  <2>1. job[w] \in Deliveries
    BY <1>1, Working
  <2>2. TypeOK'
    <3>1. dlv' \in [Deliveries -> DeliveryRow]
      BY <1>0, <1>1, <2>1 DEF TypeOK, Store
    <3>2. /\ dlq' \in [Deliveries -> Nat] /\ tasks' \in [Deliveries -> Nat]
          /\ logged' \in [Deliveries -> Nat] /\ lost' \subseteq Deliveries
      BY <1>0, <1>1, <2>1 DEF TypeOK
    <3>3. /\ pc' \in [Workers -> EnginePC]
          /\ job' \in [Workers -> Deliveries \cup {None}]
          /\ result' \in [Workers -> FailureTypes \cup {"2xx", None}]
          /\ handler' \in [Workers -> BOOLEAN]
          /\ loaded' \in [Workers -> DeliveryRow \cup {None}]
      BY <1>0, <1>1 DEF TypeOK, EndTask, Become, Expire, EnginePC
    <3> QED BY <1>0, <3>1, <3>2, <3>3 DEF TypeOK
  <2>3. Busy' /\ Prepared' /\ Results'
    BY <1>0, <1>1
    DEF TypeOK, Busy, Prepared, Results, EndTask, Become, Expire
  <2> QED BY <2>2, <2>3
<1>2. ASSUME pc[w] # "idle", NEW p \in EnginePC \ {"idle"}, Become(w, p),
             UNCHANGED loaded \/ Expire(w) \/ Load(w),
             p \in {"failed", "mark"} =>
               Load(w) \/ (loaded[w] # None /\ UNCHANGED loaded),
             NEW row \in DeliveryRow, UNCHANGED dlv \/ Store(job[w], row),
             UNCHANGED logged \/ LogAttempt(w),
             handler' \in [Workers -> BOOLEAN],
             UNCHANGED <<dlq, tasks, job, lost>>,
             result' \in [Workers -> FailureTypes \cup {"2xx", None}], Results'
      PROVE  TypeOK' /\ Busy' /\ Prepared' /\ Results'
  <2>1. /\ job[w] \in Deliveries
        /\ dlv[job[w]] \in DeliveryRow /\ dlv[job[w]] # None
    BY <1>2, Working
  <2>2. dlv' \in [Deliveries -> DeliveryRow]
    BY <1>0, <1>2, <2>1 DEF TypeOK, Store
  <2>3. logged' \in [Deliveries -> Nat]
    BY <1>0, <1>2, <2>1 DEF TypeOK, LogAttempt, DeliveryRow
  <2>4. /\ pc' \in [Workers -> EnginePC]
        /\ loaded' \in [Workers -> DeliveryRow \cup {None}]
    BY <1>0, <1>2, <2>1 DEF TypeOK, Become, Expire, Load
  <2>5. TypeOK'
    BY <1>0, <1>2, <2>2, <2>3, <2>4 DEF TypeOK
  <2>6. Busy' /\ Prepared'
    BY <1>0, <1>2, <2>1 DEF TypeOK, Busy, Prepared, Become, Load, Expire
  <2> QED BY <1>2, <2>5, <2>6
<1>3. ASSUME pc[w] # "idle", NEW p \in EnginePC \ {"idle"}, Become(w, p),
             p \notin {"record", "fail", "failed"}, UNCHANGED result
      PROVE  Results'
  BY <1>0, <1>3 DEF TypeOK, Results, Become
<1>4. CASE TaskStep(w)
  <2>1. CASE CheckCircuit(w)
    <3>1. pc[w] = "check" /\ Become(w, "check")
      BY <1>0, <2>1 DEF CheckCircuit, Become, TypeOK
    <3> QED
      BY <1>0, <1>2, <1>3, <2>1, <3>1, Working
      DEF CheckCircuit, EnginePC, TypeOK
  <2>2. CASE InsertFailed(w) \/ Send(w)
    <3>1. pc[w] # "idle"
      BY <2>2 DEF InsertFailed, Send
    <3> QED BY <1>1, <2>2, <3>1, Working DEF InsertFailed, Send
  <2>3. CASE Postpone(w) \/ MarkCircuitOpen(w)
    <3>1. pc[w] \in {"check", "mark"} /\ Become(w, "send") /\ Expire(w)
          /\ UNCHANGED <<logged, dlq, tasks, job, result, handler, lost>>
      BY <2>3 DEF Postpone, MarkCircuitOpen
    <3>2. PICK row \in DeliveryRow : Store(job[w], row)
      <4> DEFINE d == job[w]
      <4>1. dlv[d] \in DeliveryRow
        BY <3>1, Working
      <4>2. loaded[w] # None => loaded[w] \in DeliveryRow
        BY <1>0 DEF TypeOK
      <4>3. \A row \in DeliveryRow : WaitingForCircuit(row) \in DeliveryRow
        BY WaitingRow
      <4>4. loaded[w] # None =>
              Updated(dlv[d], loaded[w], WaitingForCircuit(loaded[w]))
                \in DeliveryRow
        BY <4>1, <4>2, <4>3, UpdatedRow
      <4>5. MarkCircuitOpen(w) => loaded[w] # None
        BY <1>0 DEF MarkCircuitOpen, Prepared
      <4> QED BY <2>3, <4>1, <4>3, <4>4, <4>5 DEF Postpone, MarkCircuitOpen
    <3>3. Results'
      BY <1>3, <3>1 DEF EnginePC
    <3> QED BY <1>0, <1>2, <3>1, <3>2, <3>3 DEF EnginePC, TypeOK
  <2>4. CASE Post(w)
    <3>1. /\ pc[w] = "check" /\ Become(w, "record") /\ LogAttempt(w)
          /\ cpc[w] # "failed"
          /\ UNCHANGED <<cbvars, dlv, dlq, tasks, job, lost>>
      BY <2>4 DEF Post, At
    <3>2. PICK res \in FailureTypes \cup {"2xx"} :
            result' = [result EXCEPT ![w] = res]
      BY <2>4 DEF Post, FailureTypes
    <3>3. handler' \in [Workers -> BOOLEAN]
      BY <1>0, <2>4 DEF Post, TypeOK
    <3>4. Results'
      BY <1>0, <3>1, <3>2, EngineAssumption
      DEF TypeOK, Results, Become, cbvars
    <3>5. result' \in [Workers -> FailureTypes \cup {"2xx", None}] /\ Expire(w)
      BY <1>0, <3>1, <3>2 DEF TypeOK, LogAttempt
    <3> QED BY <1>2, <3>1, <3>3, <3>4, <3>5, Working DEF EnginePC
  <2>5. CASE LockCircuit(w)
    <3>1. /\ pc[w] = "record" /\ UNCHANGED enginevars
          /\ cpc'[w] = "failed" => result[w] # "2xx"
      BY <1>0, <2>5 DEF LockCircuit, Lock, GoTo, TypeOK, CircuitTypeOK
    <3>2. Results' /\ Become(w, "record")
      BY <1>0, <3>1 DEF TypeOK, Results, Become, enginevars
    <3> QED
      BY <1>0, <1>2, <3>1, <3>2, Working DEF EnginePC, TypeOK, enginevars
  <2>6. CASE Succeed(w)
    <3>1. pc[w] # "idle"
      BY <2>6 DEF Succeed
    <3> QED BY <1>1, <2>6, <3>1, Working, DoneRow DEF Succeed
  <2>7. CASE Fail(w) \/ LoadDelivery(w)
    <3>1. /\ UNCHANGED <<dlv, logged, dlq, tasks, job, result, handler, lost>>
          /\ UNCHANGED loaded \/ Expire(w) \/ Load(w)
          /\ \/ pc[w] = "record" /\ cpc[w] = "failed" /\ Become(w, "fail")
             \/ pc[w] = "record" /\ Become(w, "record") /\ UNCHANGED cpc
             \/ /\ pc[w] = "fail" /\ Become(w, "failed")
                /\ Load(w) \/ (loaded[w] # None /\ UNCHANGED loaded)
      BY <1>0, <2>7
      DEF Fail, RecordFailure, At, LoadDelivery, Become, TypeOK, cbvars
    <3>2. Results'
      BY <1>0, <3>1 DEF TypeOK, Results, Become
    <3>3. handler' \in [Workers -> BOOLEAN] /\ dlv[job[w]] \in DeliveryRow
          /\ result' \in [Workers -> FailureTypes \cup {"2xx", None}]
      BY <1>0, <3>1, Working DEF TypeOK
    <3>4. CASE pc[w] = "record" /\ Become(w, "fail")
      BY <1>2, <3>1, <3>2, <3>3, <3>4 DEF EnginePC
    <3>5. CASE pc[w] = "record" /\ Become(w, "record")
      BY <1>2, <3>1, <3>2, <3>3, <3>5 DEF EnginePC
    <3>6. CASE /\ pc[w] = "fail" /\ Become(w, "failed")
               /\ Load(w) \/ (loaded[w] # None /\ UNCHANGED loaded)
      BY <1>2, <3>1, <3>2, <3>3, <3>6 DEF EnginePC
    <3> QED BY <3>1, <3>4, <3>5, <3>6
  <2>8. CASE CommitFailure(w)
    <3> DEFINE d == job[w]
               new == FailedDelivery(loaded[w], result[w])
    <3>1. /\ pc[w] = "failed" /\ loaded[w] \in DeliveryRow
          /\ result[w] \in FailureTypes /\ dlv[d] \in DeliveryRow
      BY <1>0, <2>8, Working DEF CommitFailure, TypeOK, Prepared, Results
    <3>2. Updated(dlv[d], loaded[w], new) \in DeliveryRow
      BY <3>1, FailedDeliveryRow, UpdatedRow
    <3>3. Store(d, Updated(dlv[d], loaded[w], new)) /\ UNCHANGED <<logged, tasks, lost>>
      BY <2>8 DEF CommitFailure
    <3>4. IF new.status = "dead"
            THEN dlq' = [dlq EXCEPT ![d] = @ + 1] /\ EndTask(w)
            ELSE /\ Become(w, "schedule") /\ Expire(w)
                 /\ UNCHANGED <<dlq, job, result, handler>>
      BY <2>8 DEF CommitFailure, MoveToDLQ
    <3> HIDE DEF new
    <3>5. CASE new.status = "dead"
      BY <1>1, <3>1, <3>2, <3>3, <3>4, <3>5
    <3>6. CASE new.status # "dead"
      <4>1. Results'
        BY <1>3, <3>1, <3>4, <3>6 DEF EnginePC
      <4> QED BY <1>0, <1>2, <3>1, <3>2, <3>3, <3>4, <3>6, <4>1
          DEF EnginePC, TypeOK
    <3> QED BY <3>5, <3>6
  <2>9. CASE Schedule(w)
    <3>1. PICK p \in {"mark", "send"} : Become(w, p)
      BY <2>9 DEF Schedule
    <3>2. /\ pc[w] = "schedule" /\ Load(w) /\ p \in EnginePC \ {"idle"}
          /\ UNCHANGED <<dlv, logged, dlq, tasks, job, result, handler, lost>>
      BY <2>9 DEF Schedule, EnginePC
    <3>3. Results'
      BY <1>3, <3>1, <3>2
    <3> QED BY <1>0, <1>2, <3>1, <3>2, <3>3, Working DEF TypeOK
  <2> QED
    BY <1>4, <2>1, <2>2, <2>3, <2>4, <2>5, <2>6, <2>7, <2>8, <2>9 DEF TaskStep
<1>5. CASE SendRefused(w)
  <2>1. pc[w] = "send"
    BY <1>5 DEF SendRefused
  <2>2. CASE handler[w]
    BY <1>1, <1>5, <2>1, <2>2, Working DEF SendRefused
  <2>3. CASE ~handler[w]
    <3>1. PICK ft \in FailureTypes : result' = [result EXCEPT ![w] = ft]
      BY <1>5, <2>3 DEF SendRefused, FailureTypes
    <3>2. /\ Become(w, "record") /\ LogAttempt(w) /\ Expire(w)
          /\ handler' \in [Workers -> BOOLEAN] /\ cpc'[w] # "failed"
          /\ UNCHANGED <<dlv, dlq, tasks, job, lost>>
      BY <1>0, <1>5, <2>3
      DEF SendRefused, Raise, GoTo, LogAttempt, TypeOK, CircuitTypeOK
    <3>3. Results' /\ result' \in [Workers -> FailureTypes \cup {"2xx", None}]
      BY <1>0, <3>1, <3>2, EngineAssumption DEF TypeOK, Results, Become
    <3> QED BY <1>2, <2>1, <3>2, <3>3, Working DEF EnginePC
  <2> QED BY <2>2, <2>3
<1>6. CASE WorkerDies(w)
  <2>1. pc[w] # "idle"
    BY <1>6 DEF WorkerDies
  <2> QED BY <1>1, <1>6, <2>1, Working DEF WorkerDies
<1> QED BY <1>4, <1>5, <1>6

\* The types of what a request's steps can change.
RequestTypes ==
  /\ dlv \in [Deliveries -> DeliveryRow]
  /\ tasks \in [Deliveries -> Nat]
  /\ qpc \in [Replays -> ReplayPC]
  /\ held \in [Replays -> [Deliveries -> DeliveryRow \cup {None}]]
  /\ resent \in [Replays -> SUBSET Deliveries]
  /\ revived \in [Deliveries -> Nat]
  /\ mishaps \in [Deliveries -> SUBSET Mishaps]

\* A request's steps: what it writes to the deliveries are rows.
LEMMA ReplayingTypes ==
  ASSUME TypesInv, NEW q \in Replays, Replaying(q)
  PROVE  TypesInv'
<1> USE DEF Step, RequestTypes
<1>1. RequestTypes
  BY DEF TypesInv, ReplayTypeOK, TypeOK
<1>2. UNCHANGED <<cbvars, logged, dlq, pc, job, result, handler, loaded, lost>>
  BY DEF Replaying, LoadLetter, CommitLetter, SendLetter, LoadEvent, Requeue,
         CommitEvent, CutShort, vars, enginevars
<1>3. ASSUME NEW D, NEW m \in Mishaps, Mishap(D, m)
      PROVE  mishaps' \in [Deliveries -> SUBSET Mishaps]
  BY <1>1, <1>3 DEF Mishap
<1>4. RequestTypes'
  <2>1. ASSUME NEW d \in Deliveries, LoadLetter(q, d)
        PROVE  RequestTypes'
    <3>1. /\ qpc' = [qpc EXCEPT ![q] = "write"]
          /\ held' = [held EXCEPT ![q][d] = dlv[d]]
          /\ UNCHANGED <<dlv, tasks, resent, revived>>
      BY <2>1 DEF LoadLetter, vars, enginevars
    <3>2. mishaps' \in [Deliveries -> SUBSET Mishaps]
      BY <1>3, <2>1 DEF LoadLetter, Mishaps
    <3> QED BY <1>1, <3>1, <3>2 DEF ReplayPC
  <2>2. ASSUME NEW e, LoadEvent(q, e)
        PROVE  RequestTypes'
    <3> DEFINE dead == {d \in Deliveries : EventOf[d] = e /\ dlv[d].status = "dead"}
    <3>1. /\ qpc' = [qpc EXCEPT ![q] = "requeue"]
          /\ held' = [held EXCEPT ![q] =
                        [d \in Deliveries |-> IF d \in dead THEN dlv[d] ELSE None]]
          /\ UNCHANGED <<dlv, tasks, resent, revived>>
      BY <2>2 DEF LoadEvent, vars, enginevars
    <3>2. mishaps' \in [Deliveries -> SUBSET Mishaps]
      BY <1>3, <2>2 DEF LoadEvent, Mishaps
    <3> HIDE DEF dead
    <3> QED BY <1>1, <3>1, <3>2 DEF ReplayPC
  <2>3. CASE CommitLetter(q)
    <3>1. PICK d \in Deliveries : /\ Store(d, Revive(dlv[d], held[q][d]))
                                  /\ revived' = [revived EXCEPT ![d] = @ + 1]
      BY <2>3 DEF CommitLetter, Over
    <3>2. Revive(dlv[d], held[q][d]) \in DeliveryRow
      BY <1>1, RevivedRow
    <3>3. qpc' = [qpc EXCEPT ![q] = "send"]
          /\ UNCHANGED <<tasks, held, resent, mishaps>>
      BY <2>3 DEF CommitLetter
    <3> QED BY <1>1, <3>1, <3>2, <3>3 DEF Store, ReplayPC
  <2>4. CASE SendLetter(q)
    BY <1>1, <2>4 DEF SendLetter, SendTask, Over, ReplayPC
  <2>5. CASE Requeue(q)
    <3>1. PICK d \in Deliveries : /\ tasks' = [tasks EXCEPT ![d] = @ + 1]
                                  /\ resent' = [resent EXCEPT ![q] = @ \cup {d}]
      BY <2>5 DEF Requeue, SendTask, Over
    <3>2. UNCHANGED <<dlv, qpc, held, revived, mishaps>>
      BY <2>5 DEF Requeue
    <3>3. resent[q] \cup {d} \in SUBSET Deliveries
      BY <1>1
    <3> QED BY <1>1, <3>1, <3>2, <3>3
  <2>6. CASE CommitEvent(q)
    <3>1. \A d \in Deliveries : Revive(dlv[d], held[q][d]) \in DeliveryRow
      BY <1>1, RevivedRow
    <3> QED BY <1>1, <2>6, <3>1 DEF CommitEvent, ReplayPC
  <2>7. CASE CutShort(q)
    <3>1. qpc' = [qpc EXCEPT ![q] = "failed"] /\ UNCHANGED <<dlv, tasks, held, resent, revived>>
      BY <2>7 DEF CutShort, vars, enginevars
    <3>2. mishaps' \in [Deliveries -> SUBSET Mishaps]
      BY <1>3, <2>7 DEF CutShort, Mishaps
    <3> QED BY <1>1, <3>1, <3>2 DEF ReplayPC
  <2> QED BY <2>1, <2>2, <2>3, <2>4, <2>5, <2>6, <2>7 DEF Replaying
<1>5. CircuitInv'
  <2>1. [CircuitNext]_cbvars
    BY <1>2
  <2> QED BY <2>1, StepInv DEF TypesInv
<1>6. TypeOK' /\ Busy' /\ Prepared' /\ Results'
  BY <1>2, <1>4, <1>5
  DEF TypesInv, ReplayTypeOK, TypeOK, CircuitInv, Busy, Prepared, Results, cbvars
<1> QED BY <1>4, <1>5, <1>6 DEF TypesInv, ReplayTypeOK

LEMMA TypesInitially == ReplayInit => TypesInv
<1> SUFFICES ASSUME ReplayInit PROVE TypesInv
  OBVIOUS
<1>1. EngineInv
  BY EngineInit DEF ReplayInit
<1> QED
  BY <1>1
  DEF TypesInv, ReplayTypeOK, ReplayInit, Init, EngineInv, Busy, Carrying,
      Prepared, Sessions, ReplayPC, Mishaps

LEMMA TypesStep == TypesInv /\ [ReplayNext]_allvars => TypesInv'
<1> SUFFICES ASSUME TypesInv, [ReplayNext]_allvars PROVE TypesInv'
  OBVIOUS
<1>1. ASSUME NEW w \in Workers, NEW d \in Deliveries, WorkerTakes(w, d)
      PROVE  TypesInv'
  <2>1. /\ pc[w] = "idle" /\ tasks[d] > 0
        /\ tasks' = [tasks EXCEPT ![d] = @ - 1]
        /\ job' = [job EXCEPT ![w] = d]
        /\ loaded' = [loaded EXCEPT ![w] = dlv[d]]
        /\ pc' = [pc EXCEPT ![w] = "check"]
        /\ UNCHANGED <<cbvars, dlv, logged, dlq, result, handler, lost>>
        /\ UNCHANGED <<qpc, held, resent, revived>>
    BY <1>1 DEF WorkerTakes, Take, Become
  <2>2. mishaps' \in [Deliveries -> SUBSET Mishaps]
    BY <1>1 DEF WorkerTakes, Mishap, Mishaps, TypesInv, ReplayTypeOK
  <2>3. CircuitInv'
    BY <1>1, EngineCircuit
    DEF TypesInv, ReplayTypeOK, WorkerTakes, Next
  <2>4. TypeOK'
    <3>1. tasks' \in [Deliveries -> Nat]
      BY <2>1 DEF TypesInv, ReplayTypeOK, TypeOK
    <3> QED BY <2>1, <2>3, <3>1
        DEF TypesInv, ReplayTypeOK, TypeOK, CircuitInv, EnginePC
  <2>5. Busy' /\ Prepared' /\ Results'
    BY <2>1, EngineAssumption
    DEF TypesInv, ReplayTypeOK, TypeOK, Busy, Prepared, Results, cbvars
  <2> QED BY <2>1, <2>2, <2>3, <2>4, <2>5 DEF TypesInv, ReplayTypeOK
<1>2. ASSUME NEW w \in Workers, TaskStep(w) \/ SendRefused(w) \/ WorkerDies(w),
             UNCHANGED replayvars
      PROVE  TypesInv'
  <2>1. CircuitInv'
    BY <1>2, EngineCircuit DEF TypesInv, ReplayTypeOK, Next
  <2> QED BY <1>2, <2>1, WorkerTypes DEF TypesInv, ReplayTypeOK, replayvars
<1>3. ASSUME UNCHANGED enginevars, UNCHANGED replayvars, UNCHANGED cpc, CircuitInv'
      PROVE  TypesInv'
  BY <1>3
  DEF TypesInv, ReplayTypeOK, TypeOK, CircuitInv, Busy, Prepared, Results,
      enginevars, replayvars
<1>4. CASE TimePasses /\ UNCHANGED replayvars
  <2>1. CircuitInv'
    BY <1>4, EngineCircuit DEF TypesInv, ReplayTypeOK, Next
  <2> QED BY <1>3, <1>4, <2>1 DEF TimePasses, Tick
<1>5. CASE UNCHANGED allvars
  <2>1. CircuitInv'
    BY <1>5, EngineCircuit DEF TypesInv, ReplayTypeOK, allvars
  <2> QED BY <1>3, <1>5, <2>1 DEF allvars, vars, cbvars
<1> QED BY <1>1, <1>2, <1>4, <1>5, ReplayingTypes DEF ReplayNext

\* Whatever rows two replays and two tasks of one delivery write over each
\* other, every variable keeps its type, and no session writes back a delivery
\* it has not loaded or a failure it has not met.
THEOREM ReplayTypeCorrect == ReplaySpec => []ReplayTypeOK
<1>1. TypesInv => ReplayTypeOK
  BY DEF TypesInv
<1> QED BY <1>1, TypesInitially, TypesStep, PTL DEF ReplaySpec

\* The breaker's guarantees survive replays, which carry a delivery twice.
THEOREM ReplayKeepsCircuit == ReplaySpec => []CircuitInv
<1>1. TypesInv => CircuitInv
  BY DEF TypesInv
<1> QED BY <1>1, TypesInitially, TypesStep, PTL DEF ReplaySpec

\* Nor do they let a circuit change but by the breaker's own transitions, with a
\* delivery's two tasks at work on one circuit.
THEOREM ReplayKeepsTransitions ==
  ReplaySpec => [][\A r \in Tenants : rows[r] # None => Transition(r)]_cbvars
<1>1. TypesInv /\ [ReplayNext]_allvars =>
        [\A r \in Tenants : rows[r] # None => Transition(r)]_cbvars
  <2> SUFFICES ASSUME TypesInv, [ReplayNext]_allvars
               PROVE  [\A r \in Tenants : rows[r] # None => Transition(r)]_cbvars
    OBVIOUS
  <2>1. [Next]_vars \/ UNCHANGED cbvars
    BY DEF ReplayNext, Next, WorkerTakes, Replaying, LoadLetter, CommitLetter,
           SendLetter, LoadEvent, Requeue, CommitEvent, CutShort, allvars, vars
  <2>2. [Next]_vars => \A r \in Tenants : rows[r] # None => Transition(r)
    BY EngineCircuit, RowTransition DEF TypesInv, ReplayTypeOK
  <2> QED BY <2>1, <2>2
<1> QED BY <1>1, TypesInitially, TypesStep, PTL DEF ReplaySpec

-----------------------------------------------------------------------------
(* What strands a delivery. *)

\* A request that has not begun has loaded nothing; one for a dead letter
\* revives one delivery; one for an event revives deliveries that were dead,
\* and sends tasks for no others.
Requests ==
  \A q \in Replays :
    /\ qpc[q] = "new" => Over(q) = {}
    /\ qpc[q] \in {"write", "send"} => \A d, e \in Over(q) : d = e
    /\ qpc[q] = "requeue" => /\ resent[q] \subseteq Over(q)
                             /\ \A d \in Over(q) : held[q][d].status = "dead"

\* Who has loaded a dead row and is to write it dead again writes nothing
\* (Updated), and ends its task.
Doomed(w) == /\ pc[w] \in {"record", "fail", "failed"}
             /\ loaded[w] # None /\ loaded[w].status = "dead"

\* A worker that will see d through.
Undertakes(w, d) == Holds(w, d) /\ ~Doomed(w)

Answered(d) ==
  tasks[d] > 0 \/ AboutToSend(d) \/ \E w \in Workers : Undertakes(w, d)

Astray(d) == mishaps[d] \cap {"abandoned", "overtaken"} # {}

Kept ==
  \A d \in Deliveries : Terminal(d) \/ d \in lost \/ Astray(d) \/ Answered(d)

\* A task sent ahead of its replay's commit is still queued, or was overtaken.
Waits ==
  \A d \in Deliveries :
    Uncommitted(d) => tasks[d] > 0 \/ "overtaken" \in mishaps[d]

StrandInv == TypesInv /\ CountInv /\ Requests /\ Kept /\ Waits

LEMMA RequestsKeep ==
  ASSUME TypesInv, Unsent, Requests, [ReplayNext]_allvars
  PROVE  Requests'
<1> USE DEF Step
<1>1. RequestTypes /\ \A d \in Deliveries : dlv[d] # None
  BY EngineAssumption DEF TypesInv, ReplayTypeOK, TypeOK, RequestTypes
<1>2. CASE UNCHANGED <<qpc, held, resent>>
  BY <1>2 DEF Requests, Over
<1>3. ASSUME NEW q \in Replays, Replaying(q)
      PROVE  Requests'
  <2> SUFFICES ASSUME NEW p \in Replays
               PROVE  Requests!(p)'
    BY DEF Requests
  <2> USE DEF RequestTypes
  <2>1. CASE p # q
    <3>1. qpc'[p] = qpc[p] /\ held'[p] = held[p] /\ resent'[p] = resent[p]
      BY <1>1, <1>3, <2>1
      DEF Replaying, LoadLetter, CommitLetter, SendLetter, LoadEvent, Requeue,
          CommitEvent, CutShort
    <3> QED BY <3>1 DEF Requests, Over
  <2>2. CASE p = q
    <3>1. ASSUME NEW d \in Deliveries, LoadLetter(q, d)
          PROVE  Requests!(q)'
      <4>1. /\ qpc[q] = "new" /\ qpc'[q] = "write"
            /\ held' = [held EXCEPT ![q][d] = dlv[d]]
        BY <1>1, <3>1 DEF LoadLetter
      <4>2. \A e \in Over(q)' : e = d
        BY <1>1, <4>1 DEF Requests, Over
      <4> QED BY <4>1, <4>2
    <3>2. ASSUME NEW e, LoadEvent(q, e)
          PROVE  Requests!(q)'
      <4>1. /\ qpc[q] = "new" /\ qpc'[q] = "requeue" /\ UNCHANGED resent
            /\ held'[q] = [d \in Deliveries |->
                             IF EventOf[d] = e /\ dlv[d].status = "dead"
                               THEN dlv[d] ELSE None]
        BY <1>1, <3>2 DEF LoadEvent
      <4>2. resent[q] = {}
        BY <4>1 DEF Unsent
      <4>3. \A d \in Over(q)' : held'[q][d].status = "dead"
        BY <4>1 DEF Over
      <4> QED BY <4>1, <4>2, <4>3
    <3>3. CASE CommitLetter(q)
      BY <1>1, <3>3 DEF CommitLetter, Requests, Over
    <3>4. CASE SendLetter(q) \/ CommitEvent(q) \/ CutShort(q)
      <4>1. qpc'[q] \in {"done", "failed"}
        BY <1>1, <3>4 DEF SendLetter, CommitEvent, CutShort
      <4> QED BY <2>2, <4>1
    <3>5. CASE Requeue(q)
      BY <1>1, <3>5 DEF Requeue, Requests, Over
    <3> QED BY <1>3, <2>2, <3>1, <3>2, <3>3, <3>4, <3>5 DEF Replaying
  <2> QED BY <2>1, <2>2
<1>4. CASE \E w \in Workers, d \in Deliveries : WorkerTakes(w, d)
  BY <1>2, <1>4 DEF WorkerTakes
<1> QED
  BY <1>2, <1>3, <1>4 DEF ReplayNext, replayvars, allvars

\* A step of w neither takes a task from a queue nor strands a delivery: what
\* it brings back to life it carries on, and what it undertook it finishes,
\* hands to a task, carries on or loses to a fault.
LEMMA WorkerAnswers ==
  ASSUME TypesInv, NEW w \in Workers,
         TaskStep(w) \/ SendRefused(w) \/ WorkerDies(w), NEW d \in Deliveries
  PROVE  /\ tasks'[d] >= tasks[d]
         /\ d \in lost => d \in lost'
         /\ \A v \in Workers : v # w => (Undertakes(v, d)' <=> Undertakes(v, d))
         /\ Terminal(d) => Terminal(d)' \/ Undertakes(w, d)'
         /\ Undertakes(w, d) => \/ Terminal(d)' \/ d \in lost' \/ tasks'[d] > 0
                                \/ Undertakes(w, d)'
<1> DEFINE Goal == /\ tasks'[d] >= tasks[d]
                   /\ d \in lost => d \in lost'
                   /\ Terminal(d) => Terminal(d)' \/ Undertakes(w, d)'
                   /\ Undertakes(w, d) => \/ Terminal(d)' \/ d \in lost'
                                          \/ tasks'[d] > 0 \/ Undertakes(w, d)'
<1>0. /\ pc \in [Workers -> EnginePC] /\ job \in [Workers -> Deliveries \cup {None}]
      /\ loaded \in [Workers -> DeliveryRow \cup {None}]
      /\ dlv \in [Deliveries -> DeliveryRow] /\ tasks \in [Deliveries -> Nat]
      /\ d # None
  BY EngineAssumption DEF TypesInv, ReplayTypeOK, TypeOK
<1>1. \A v \in Workers : v # w => /\ job'[v] = job[v] /\ pc'[v] = pc[v]
                                  /\ loaded'[v] = loaded[v]
  BY <1>0
  DEF TaskStep, CheckCircuit, InsertFailed, Postpone, Post, LockCircuit,
      Succeed, Fail, LoadDelivery, CommitFailure, Schedule, MarkCircuitOpen,
      Send, SendRefused, WorkerDies, EndTask, Become, Expire, Load, LogAttempt,
      enginevars
\* It stays with its delivery, which it has not just loaded to fail.
<1>2. ASSUME UNCHANGED <<job, tasks, lost>>,
             \/ ~Doomed(w)'
             \/ Doomed(w) /\ \A e \in Deliveries : dlv'[e] = dlv[e],
             \A e \in Deliveries : e # job[w] => dlv'[e] = dlv[e]
      PROVE  Goal
  BY <1>0, <1>2 DEF Undertakes, Holds, Terminal
\* It ends its task: the delivery has a successor, is lost or is finished.
<1>3. ASSUME EndTask(w), NEW e \in Deliveries, job[w] = e,
             \A x \in Deliveries : Terminal(x) => Terminal(x)',
             lost \subseteq lost',
             UNCHANGED tasks \/ tasks' = [tasks EXCEPT ![e] = @ + 1],
             Undertakes(w, e) => Terminal(e)' \/ e \in lost' \/ tasks' # tasks
      PROVE  Goal
  <2>1. tasks'[d] >= tasks[d] /\ (d = e /\ tasks' # tasks => tasks'[d] > 0)
    BY <1>0, <1>3
  <2>2. d \in lost => d \in lost'
    BY <1>3
  <2>3. Undertakes(w, d) => d = e
    BY <1>3 DEF Undertakes, Holds
  <2> QED BY <1>3, <2>1, <2>2, <2>3
<1> HIDE DEF Goal
<1>4. ASSUME TaskStep(w) PROVE Goal
  <2>1. CASE CheckCircuit(w) \/ Post(w) \/ LockCircuit(w)
    <3>1. /\ UNCHANGED <<job, tasks, lost, dlv>>
          /\ \/ UNCHANGED <<pc, loaded>>
             \/ pc[w] = "check" /\ UNCHANGED pc
             \/ Expire(w)
      BY <1>0, <2>1
      DEF CheckCircuit, Post, LockCircuit, LogAttempt, Become, enginevars
    <3>2. ~Doomed(w)' \/ (Doomed(w) /\ UNCHANGED dlv)
      BY <1>0, <3>1 DEF Doomed, Expire
    <3> QED BY <1>2, <3>1, <3>2
  <2>2. CASE InsertFailed(w) \/ Send(w)
    <3>1. PICK e \in Deliveries : job[w] = e
      BY <2>2, Working DEF InsertFailed, Send
    <3>2. EndTask(w) /\ UNCHANGED dlv
      BY <2>2 DEF InsertFailed, Send
    <3>3. \/ lost' = lost \cup {e} /\ UNCHANGED tasks
          \/ tasks' = [tasks EXCEPT ![e] = @ + 1] /\ UNCHANGED lost
      BY <2>2, <3>1 DEF InsertFailed, Send
    <3>4. e \in lost' \/ tasks' # tasks
      BY <1>0, <3>3
    <3> QED BY <1>3, <3>1, <3>2, <3>3, <3>4 DEF Terminal
  <2>3. CASE Postpone(w) \/ MarkCircuitOpen(w)
    <3>1. /\ UNCHANGED <<job, tasks, lost>> /\ ~Doomed(w)'
          /\ \A e \in Deliveries : e # job[w] => dlv'[e] = dlv[e]
      BY <1>0, <2>3 DEF Postpone, MarkCircuitOpen, Become, Store, Doomed
    <3> QED BY <1>2, <3>1
  <2>4. CASE Succeed(w)
    <3>1. PICK e \in Deliveries : job[w] = e
      BY <2>4, Working DEF Succeed
    <3>2. /\ dlv' = [dlv EXCEPT ![e] = DeliveredRow(dlv[e])]
          /\ EndTask(w) /\ UNCHANGED <<tasks, lost>>
      BY <2>4, <3>1 DEF Succeed, Store
    <3>3. \A x \in Deliveries : Terminal(x) \/ x = e => Terminal(x)'
      <4>1. DeliveredRow(dlv[e]).status = "delivered"
        BY <1>0, DoneRow
      <4> QED BY <1>0, <3>2, <4>1 DEF Terminal
    <3> QED BY <1>3, <3>1, <3>2, <3>3
  <2>5. CASE Fail(w) \/ Schedule(w)
    <3>1. /\ UNCHANGED <<job, tasks, lost, dlv>>
          /\ \/ pc[w] = "record" /\ Become(w, "fail")
                /\ (UNCHANGED loaded \/ Expire(w))
             \/ pc'[w] \in {"mark", "send"}
      BY <1>0, <2>5 DEF Fail, Schedule, Become
    <3>2. ~Doomed(w)' \/ (Doomed(w) /\ UNCHANGED dlv)
      BY <1>0, <3>1 DEF Doomed, Become, Expire
    <3> QED BY <1>2, <3>1, <3>2
  <2>6. CASE LoadDelivery(w)
    <3>1. /\ UNCHANGED <<job, tasks, lost, dlv>> /\ pc[w] \in {"record", "fail"}
          /\ \/ loaded'[w] = dlv[job[w]]
             \/ loaded'[w] = loaded[w] /\ loaded[w] # None
      BY <1>0, <2>6 DEF LoadDelivery, Load
    <3>2. CASE loaded'[w] = dlv[job[w]]
      BY <1>0, <3>1, <3>2 DEF Goal, Undertakes, Doomed, Holds, Terminal
    <3>3. CASE loaded'[w] = loaded[w] /\ loaded[w] # None
      <4>1. Doomed(w)' => Doomed(w)
        BY <3>1, <3>3 DEF Doomed
      <4> QED BY <1>2, <3>1, <4>1
    <3> QED BY <3>1, <3>2, <3>3
  <2>7. CASE CommitFailure(w)
    <3> DEFINE new == FailedDelivery(loaded[w], result[w])
    <3>0. PICK e \in Deliveries : job[w] = e
      BY <2>7, Working DEF CommitFailure
    <3>1. /\ pc[w] = "failed"
          /\ loaded[w] \in DeliveryRow /\ result[w] \in FailureTypes
      BY <1>0, <2>7
      DEF CommitFailure, TypesInv, ReplayTypeOK, TypeOK, Prepared, Results
    <3>2. new.status \in {"dead", "retrying"}
      BY <3>1, FailedDeliveryRow
    <3>3. dlv' = [dlv EXCEPT ![e] = Updated(dlv[e], loaded[w], new)]
          /\ UNCHANGED <<tasks, lost>>
      BY <2>7, <3>0 DEF CommitFailure, Store
    <3>4. IF new.status = "dead" THEN EndTask(w)
                                 ELSE Become(w, "schedule") /\ UNCHANGED job
      BY <2>7 DEF CommitFailure
    <3>5. dlv'[e].status = IF new.status = loaded[w].status
                             THEN dlv[e].status ELSE new.status
      BY <1>0, <3>1, <3>3 DEF Updated
    <3> HIDE DEF new
    <3>6. CASE new.status = "dead"
      <4>1. \A x \in Deliveries : Terminal(x) => Terminal(x)'
        BY <1>0, <3>1, <3>3, <3>5, <3>6 DEF Terminal
      <4>2. Undertakes(w, e) => Terminal(e)'
        BY <1>0, <3>1, <3>5, <3>6, EngineAssumption
        DEF Undertakes, Doomed, Terminal
      <4> QED BY <1>3, <3>0, <3>3, <3>4, <3>6, <4>1, <4>2
    <3>7. CASE new.status = "retrying"
      <4>1. ~Doomed(w)'
        BY <1>0, <3>4, <3>7 DEF Become, Doomed
      <4>2. \A x \in Deliveries : x # job[w] => dlv'[x] = dlv[x]
        BY <1>0, <3>0, <3>3
      <4> QED BY <1>2, <3>3, <3>4, <3>7, <4>1, <4>2
    <3> QED BY <3>2, <3>6, <3>7
  <2> QED BY <1>4, <2>1, <2>2, <2>3, <2>4, <2>5, <2>6, <2>7 DEF TaskStep
<1>5. ASSUME SendRefused(w) PROVE Goal
  <2>1. PICK e \in Deliveries : job[w] = e
    BY <1>5, Working DEF SendRefused
  <2>2. CASE handler[w]
    <3>1. EndTask(w) /\ UNCHANGED <<dlv, tasks>> /\ lost' = lost \cup {e}
      BY <1>5, <2>1, <2>2 DEF SendRefused
    <3> QED BY <1>3, <2>1, <3>1 DEF Terminal
  <2>3. CASE ~handler[w]
    <3>1. UNCHANGED <<job, tasks, lost, dlv>> /\ ~Doomed(w)'
      BY <1>0, <1>5, <2>3
      DEF SendRefused, Become, LogAttempt, Expire, Doomed
    <3> QED BY <1>2, <3>1
  <2> QED BY <2>2, <2>3
<1>6. ASSUME WorkerDies(w) PROVE Goal
  <2>1. PICK e \in Deliveries : job[w] = e
    BY <1>6, Working DEF WorkerDies
  <2>2. EndTask(w) /\ UNCHANGED <<dlv, tasks>> /\ lost' = lost \cup {e}
    BY <1>6, <2>1 DEF WorkerDies
  <2> QED BY <1>3, <2>1, <2>2 DEF Terminal
<1>7. Goal
  BY <1>4, <1>5, <1>6
<1> QED BY <1>1, <1>7 DEF Goal, Undertakes, Doomed, Holds

\* A worker that takes a task undertakes the delivery; if the task was sent
\* ahead of its commit, it is overtaken.
LEMMA TakeStrand ==
  ASSUME StrandInv, NEW w \in Workers, NEW e \in Deliveries, WorkerTakes(w, e)
  PROVE  Kept' /\ Waits'
<1>1. /\ pc[w] = "idle" /\ job[w] = None
      /\ tasks' = [tasks EXCEPT ![e] = @ - 1]
      /\ job' = [job EXCEPT ![w] = e] /\ pc' = [pc EXCEPT ![w] = "check"]
      /\ loaded' = [loaded EXCEPT ![w] = dlv[e]]
      /\ UNCHANGED <<dlv, lost, qpc, held, resent>>
      /\ mishaps' = [d \in Deliveries |->
                       mishaps[d] \cup IF d \in {x \in {e} : Uncommitted(x)}
                                         THEN {"overtaken"} ELSE {}]
  BY DEF WorkerTakes, Take, Become, Mishap, StrandInv, TypesInv, Busy
<1>2. /\ tasks \in [Deliveries -> Nat] /\ pc \in [Workers -> EnginePC]
      /\ job \in [Workers -> Deliveries \cup {None}]
      /\ loaded \in [Workers -> DeliveryRow \cup {None}]
  BY DEF StrandInv, TypesInv, ReplayTypeOK, TypeOK
<1>3. \A d \in Deliveries : mishaps[d] \subseteq mishaps'[d]
  BY <1>1
<1>4. Undertakes(w, e)'
  BY <1>1, <1>2 DEF Undertakes, Doomed, Holds
<1>5. ASSUME NEW d \in Deliveries, d # e
      PROVE  tasks'[d] = tasks[d] /\ (Answered(d) => Answered(d)')
  <2>1. tasks'[d] = tasks[d]
    BY <1>1, <1>2, <1>5
  <2>2. \A v \in Workers : Undertakes(v, d) => Undertakes(v, d)'
    BY <1>1, <1>2, EngineAssumption DEF Undertakes, Doomed, Holds
  <2> QED BY <1>1, <2>1, <2>2 DEF Answered, AboutToSend, Over
<1>6. Kept'
  <2> SUFFICES ASSUME NEW d \in Deliveries, d # e
               PROVE  Kept!(d)'
    BY <1>4 DEF Kept, Answered
  <2>1. Astray(d) => Astray(d)'
    BY <1>3 DEF Astray
  <2>2. Terminal(d)' = Terminal(d) /\ lost' = lost
    BY <1>1 DEF Terminal
  <2> QED BY <1>5, <2>1, <2>2 DEF StrandInv, Kept
<1>7. Waits'
  <2> SUFFICES ASSUME NEW d \in Deliveries, Uncommitted(d)
               PROVE  tasks'[d] > 0 \/ "overtaken" \in mishaps'[d]
    BY <1>1 DEF Waits, Uncommitted
  <2>1. CASE d = e
    BY <1>1, <2>1
  <2>2. CASE d # e
    BY <1>3, <1>5, <2>2 DEF StrandInv, Waits
  <2> QED BY <2>1, <2>2
<1> QED BY <1>6, <1>7

LEMMA WorkStrand ==
  ASSUME StrandInv, NEW w \in Workers, UNCHANGED replayvars,
         TaskStep(w) \/ SendRefused(w) \/ WorkerDies(w)
  PROVE  Kept' /\ Waits'
<1>1. TypesInv /\ tasks \in [Deliveries -> Nat]
  BY DEF StrandInv, TypesInv, ReplayTypeOK, TypeOK
<1>2. TypesInv' /\ tasks' \in [Deliveries -> Nat]
  BY TypesStep, <1>1 DEF ReplayNext, TypesInv, ReplayTypeOK, TypeOK
<1>3. ASSUME NEW d \in Deliveries
      PROVE  /\ tasks'[d] >= tasks[d] /\ tasks[d] \in Nat /\ tasks'[d] \in Nat
             /\ Terminal(d) \/ d \in lost \/ Answered(d) =>
                  Terminal(d)' \/ d \in lost' \/ Answered(d)'
  <2>1. AboutToSend(d)' = AboutToSend(d)
    BY DEF AboutToSend, Over, replayvars
  <2> QED BY <1>1, <1>2, <2>1, WorkerAnswers DEF Answered
<1>4. Kept'
  <2>1. \A d \in Deliveries : Astray(d)' <=> Astray(d)
    BY DEF Astray, replayvars
  <2> QED BY <1>3, <2>1 DEF StrandInv, Kept
<1>5. Waits'
  BY <1>3 DEF StrandInv, Waits, Uncommitted, replayvars
<1> QED BY <1>4, <1>5

LEMMA ReplayingStrand ==
  ASSUME StrandInv, NEW q \in Replays, Replaying(q)
  PROVE  Kept' /\ Waits'
<1> USE DEF Step
<1>1. RequestTypes /\ Unsent /\ Requests /\ Kept /\ Waits
  BY DEF StrandInv, CountInv, TypesInv, ReplayTypeOK, TypeOK, RequestTypes
<1>2. UNCHANGED <<pc, job, loaded, lost>>
  BY DEF Replaying, LoadLetter, CommitLetter, SendLetter, LoadEvent, Requeue,
         CommitEvent, CutShort, vars, enginevars
<1>3. \A d \in Deliveries, v \in Workers : Undertakes(v, d)' <=> Undertakes(v, d)
  BY <1>2 DEF Undertakes, Doomed, Holds
\* Enough: no mishap is forgotten, and what the request revives or lets go has
\* a task or strays.
<1>4. ASSUME \A d \in Deliveries :
               /\ mishaps[d] \subseteq mishaps'[d]
               /\ tasks[d] > 0 => tasks'[d] > 0
               /\ AboutToSend(d) => AboutToSend(d)' \/ tasks'[d] > 0 \/ Astray(d)'
               /\ Terminal(d) => \/ Terminal(d)' \/ AboutToSend(d)'
                                 \/ tasks'[d] > 0 \/ Astray(d)'
               /\ Uncommitted(d)' => Uncommitted(d) \/ tasks'[d] > 0
      PROVE  Kept' /\ Waits'
  <2>1. \A d \in Deliveries : Astray(d) => Astray(d)'
    BY <1>4 DEF Astray
  <2>2. Kept'
    <3> SUFFICES ASSUME NEW d \in Deliveries PROVE Kept!(d)'
      BY DEF Kept
    <3>1. Terminal(d) \/ d \in lost \/ Astray(d) \/ Answered(d)
      BY <1>1 DEF Kept
    <3>2. CASE Terminal(d)
      BY <1>4, <3>2 DEF Answered
    <3>3. CASE d \in lost
      BY <1>2, <3>3
    <3>4. CASE Astray(d)
      BY <2>1, <3>4
    <3>5. CASE Answered(d)
      BY <1>3, <1>4, <3>5 DEF Answered
    <3> QED BY <3>1, <3>2, <3>3, <3>4, <3>5
  <2>3. Waits'
    BY <1>1, <1>4 DEF Waits
  <2> QED BY <2>2, <2>3
<1>5. ASSUME NEW D, NEW m, Mishap(D, m)
      PROVE  \A d \in Deliveries : /\ mishaps[d] \subseteq mishaps'[d]
                                   /\ d \in D => m \in mishaps'[d]
  BY <1>5 DEF Mishap
<1>6. ASSUME NEW d \in Deliveries, LoadLetter(q, d)
      PROVE  Kept' /\ Waits'
  <2>1. /\ qpc[q] = "new" /\ qpc' = [qpc EXCEPT ![q] = "write"]
        /\ UNCHANGED <<dlv, tasks, resent>>
        /\ held' = [held EXCEPT ![q][d] = dlv[d]]
    BY <1>6 DEF LoadLetter, vars, enginevars
  <2>2. \A x \in Deliveries : mishaps[x] \subseteq mishaps'[x]
    BY <1>5, <1>6 DEF LoadLetter
  <2>3. \A p \in Replays : p # q => qpc'[p] = qpc[p] /\ held'[p] = held[p]
    BY <1>1, <2>1 DEF RequestTypes
  <2>4. \A x \in Deliveries : /\ AboutToSend(x) => AboutToSend(x)'
                              /\ Uncommitted(x)' => Uncommitted(x)
    BY <1>1, <2>1, <2>3 DEF RequestTypes, AboutToSend, Over, Uncommitted
  <2> QED BY <1>4, <2>1, <2>2, <2>4 DEF Terminal
<1>7. ASSUME NEW e, LoadEvent(q, e)
      PROVE  Kept' /\ Waits'
  <2>1. /\ qpc[q] = "new" /\ qpc' = [qpc EXCEPT ![q] = "requeue"]
        /\ UNCHANGED <<dlv, tasks, resent>> /\ resent[q] = {}
        /\ \A p \in Replays : p # q => held'[p] = held[p]
    BY <1>1, <1>7 DEF LoadEvent, vars, enginevars, Unsent, RequestTypes
  <2>2. \A x \in Deliveries : mishaps[x] \subseteq mishaps'[x]
    BY <1>5, <1>7 DEF LoadEvent
  <2>3. \A x \in Deliveries : /\ AboutToSend(x) => AboutToSend(x)'
                              /\ Uncommitted(x)' => Uncommitted(x)
    BY <1>1, <2>1 DEF RequestTypes, AboutToSend, Over, Uncommitted
  <2> QED BY <1>4, <2>1, <2>2, <2>3 DEF Terminal
<1>8. CASE CommitLetter(q)
  <2>1. PICK e \in Over(q) : Store(e, Revive(dlv[e], held[q][e]))
    BY <1>8 DEF CommitLetter
  <2>2. /\ qpc[q] = "write" /\ qpc' = [qpc EXCEPT ![q] = "send"]
        /\ UNCHANGED <<tasks, held, resent, mishaps>>
    BY <1>8 DEF CommitLetter
  <2>3. AboutToSend(e)'
    BY <1>1, <2>1, <2>2 DEF RequestTypes, AboutToSend, Over
  <2>4. \A x \in Deliveries : x # e => (Terminal(x)' <=> Terminal(x))
    BY <1>1, <2>1 DEF RequestTypes, Store, Terminal
  <2>5. \A x \in Deliveries : /\ AboutToSend(x) => AboutToSend(x)'
                              /\ Uncommitted(x)' => Uncommitted(x)
    BY <1>1, <2>2 DEF RequestTypes, AboutToSend, Over, Uncommitted
  <2> QED BY <1>4, <2>2, <2>3, <2>4, <2>5
<1>9. CASE SendLetter(q)
  <2>1. PICK e \in Over(q) : tasks' = [tasks EXCEPT ![e] = @ + 1]
                             /\ resent' = [resent EXCEPT ![q] = {e}]
    BY <1>9 DEF SendLetter, SendTask
  <2>2. /\ qpc[q] = "send" /\ qpc' = [qpc EXCEPT ![q] = "done"]
        /\ UNCHANGED <<dlv, held, mishaps>>
    BY <1>9 DEF SendLetter
  <2>3. \A x \in Over(q) : x = e
    BY <1>1, <2>1, <2>2 DEF Requests
  <2>4. \A x \in Deliveries : (tasks[x] > 0 \/ x = e) => tasks'[x] > 0
    BY <1>1, <2>1 DEF RequestTypes
  <2>5. \A x \in Deliveries : /\ AboutToSend(x) => AboutToSend(x)' \/ x = e
                              /\ Uncommitted(x)' => Uncommitted(x)
    BY <1>1, <2>1, <2>2, <2>3 DEF RequestTypes, AboutToSend, Over, Uncommitted
  <2> QED BY <1>4, <2>2, <2>4, <2>5 DEF Terminal
<1>10. CASE Requeue(q)
  <2>1. PICK e \in Deliveries : tasks' = [tasks EXCEPT ![e] = @ + 1]
                                /\ resent' = [resent EXCEPT ![q] = @ \cup {e}]
    BY <1>10 DEF Requeue, SendTask, Over
  <2>2. UNCHANGED <<dlv, qpc, held, mishaps>>
    BY <1>10 DEF Requeue
  <2>3. \A x \in Deliveries : (tasks[x] > 0 \/ x = e) => tasks'[x] > 0
    BY <1>1, <2>1 DEF RequestTypes
  <2>4. \A x \in Deliveries : /\ AboutToSend(x) => AboutToSend(x)'
                              /\ Uncommitted(x)' => Uncommitted(x) \/ x = e
    BY <1>1, <2>1, <2>2 DEF RequestTypes, AboutToSend, Over, Uncommitted
  <2> QED BY <1>4, <2>2, <2>3, <2>4 DEF Terminal
<1>11. CASE CommitEvent(q)
  <2>1. /\ qpc[q] = "requeue" /\ Over(q) \subseteq resent[q]
        /\ qpc' = [qpc EXCEPT ![q] = "done"]
        /\ UNCHANGED <<tasks, held, resent, mishaps>>
        /\ \A x \in Deliveries : x \notin Over(q) => dlv'[x] = dlv[x]
    BY <1>11 DEF CommitEvent
  <2>2. \A x \in Over(q) : tasks[x] > 0 \/ "overtaken" \in mishaps[x]
    BY <1>1, <2>1 DEF Waits, Uncommitted, Over
  <2>3. \A x \in Over(q) : tasks'[x] > 0 \/ Astray(x)'
    BY <2>1, <2>2 DEF Astray
  <2>4. \A x \in Deliveries : /\ AboutToSend(x) => AboutToSend(x)'
                              /\ Uncommitted(x)' => Uncommitted(x)
    BY <1>1, <2>1 DEF RequestTypes, AboutToSend, Over, Uncommitted
  <2> QED BY <1>4, <2>1, <2>3, <2>4 DEF Terminal
<1>12. CASE CutShort(q)
  <2>1. /\ qpc' = [qpc EXCEPT ![q] = "failed"]
        /\ UNCHANGED <<dlv, tasks, held, resent>>
    BY <1>12 DEF CutShort, vars, enginevars
  <2>2. /\ \A x \in Deliveries : mishaps[x] \subseteq mishaps'[x]
        /\ qpc[q] = "send" => \A x \in Over(q) : Astray(x)'
    BY <1>5, <1>12 DEF CutShort, Astray, Over
  <2>3. \A x \in Deliveries : /\ AboutToSend(x) => AboutToSend(x)' \/ Astray(x)'
                              /\ Uncommitted(x)' => Uncommitted(x)
    BY <1>1, <2>1, <2>2 DEF RequestTypes, AboutToSend, Over, Uncommitted
  <2> QED BY <1>4, <2>1, <2>2, <2>3 DEF Terminal
<1> QED
  BY <1>6, <1>7, <1>8, <1>9, <1>10, <1>11, <1>12 DEF Replaying

LEMMA StrandInitially == ReplayInit => StrandInv
<1> SUFFICES ASSUME ReplayInit PROVE StrandInv
  OBVIOUS
<1>1. Requests /\ Kept /\ Waits
  BY DEF ReplayInit, Init, Requests, Over, Kept, Answered, Waits, Uncommitted
<1> QED BY <1>1, TypesInitially, CountInitially DEF StrandInv

LEMMA StrandStep == StrandInv /\ [ReplayNext]_allvars => StrandInv'
<1> SUFFICES ASSUME StrandInv, [ReplayNext]_allvars PROVE StrandInv'
  OBVIOUS
<1>1. TypesInv' /\ CountInv' /\ Requests'
  BY TypesStep, CountStep, RequestsKeep DEF StrandInv, CountInv
<1>2. ASSUME UNCHANGED <<dlv, tasks, lost, pc, job, loaded, replayvars>>
      PROVE  Kept' /\ Waits'
  BY <1>2
  DEF StrandInv, Kept, Waits, Terminal, Astray, Answered, AboutToSend, Over,
      Undertakes, Doomed, Holds, Uncommitted, replayvars
<1>3. ASSUME (TimePasses /\ UNCHANGED replayvars) \/ UNCHANGED allvars
      PROVE  Kept' /\ Waits'
  BY <1>2, <1>3 DEF TimePasses, enginevars, allvars, vars
<1>4. Kept' /\ Waits'
  BY <1>3, TakeStrand, WorkStrand, ReplayingStrand
  DEF ReplayNext, StrandInv
<1> QED BY <1>1, <1>4 DEF StrandInv

\* Overlapping replays, replays of deliveries in flight and of delivered ones
\* never leave a delivery waiting without a task: only a fault does, a replay
\* cut short before its task, or a task taken before its replay's commit.
THEOREM OnlyMishapsStrandDeliveries == ReplaySpec => []OnlyMishapsStrand
<1>1. StrandInv => OnlyMishapsStrand
  <2> SUFFICES ASSUME StrandInv, NEW d \in Deliveries
               PROVE  OnlyMishapsStrand!(d)
    BY DEF OnlyMishapsStrand
  <2>1. Terminal(d) \/ d \in lost \/ Astray(d) \/ Answered(d)
    BY DEF StrandInv, Kept
  <2>2. tasks[d] \in Nat /\ Cardinality(Holders(d)) \in Nat
    BY Finite DEF StrandInv, CountInv, CountTypes
  <2>3. (\E w \in Workers : Undertakes(w, d)) => Cardinality(Holders(d)) > 0
    <3>1. (\E w \in Workers : Undertakes(w, d)) => Holders(d) # {}
      BY DEF Undertakes, Holders
    <3> QED BY <2>2, <3>1, Finite, FS_EmptySet
  <2>4. Carriers(d) = tasks[d] + Cardinality(Holders(d))
    BY DEF Carriers, Holders
  <2>5. Answered(d) => Carriers(d) > 0 \/ AboutToSend(d)
    BY <2>2, <2>3, <2>4 DEF Answered
  <2> QED BY <2>1, <2>5 DEF Astray
<1> QED BY <1>1, StrandInitially, StrandStep, PTL DEF ReplaySpec

-----------------------------------------------------------------------------
(* Proper replays. *)

Revives(q, d) == UnderWay(q) /\ d \in Over(q)

Untouched(d) == \A q \in Replays : ~Revives(q, d)

\* What the row of a delivery says of its failures and its success.
Sound(row) ==
  /\ row.status = "dead" => Exhausted(row.failure_type, row.retry_count)
  /\ row.status = "retrying" =>
       IF row.failure_type = None
         THEN row.retry_count = 0
         ELSE ~Exhausted(row.failure_type, row.retry_count)
  /\ row.delivered_at # None <=> row.status = "delivered"

\* A worker has the delivery to itself, with no task queued and no replay.
Sole(d) ==
  /\ \A v, w \in Workers : Holds(v, d) /\ Holds(w, d) => v = w
  /\ \A w \in Workers : Holds(w, d) =>
       /\ ~Terminal(d) /\ d \notin lost /\ tasks[d] = 0 /\ Untouched(d)
       /\ loaded[w] # None => loaded[w] = dlv[d]

\* So has a replay: the delivery is dead as loaded until the commit, and has
\* no task but the one the request sent.
SoleReplay(d) ==
  \A q \in Replays : Revives(q, d) =>
    /\ \A p \in Replays : Revives(p, d) => p = q
    /\ tasks[d] = IF qpc[q] = "requeue" /\ d \in resent[q] THEN 1 ELSE 0
    /\ IF qpc[q] = "send"
         THEN dlv[d].status = "retrying"
         ELSE dlv[d].status = "dead" /\ held[q][d] = dlv[d]

\* Between replays a delivery that waits has one task or one worker.
AtRest(d) ==
  Untouched(d) =>
    /\ tasks[d] \in {0, 1}
    /\ tasks[d] = 1 => ~Terminal(d)
    /\ \/ Terminal(d) \/ d \in lost \/ tasks[d] = 1
       \/ \E w \in Workers : Holds(w, d)

Safe(d) ==
  /\ Sole(d) /\ SoleReplay(d) /\ AtRest(d)
  /\ d \in lost => ~Terminal(d) /\ tasks[d] = 0 /\ Untouched(d)
  /\ Sound(dlv[d])
  /\ dlq[d] = revived[d] + IF dlv[d].status = "dead" THEN 1 ELSE 0

SafeInv ==
  /\ TypesInv /\ CountInv /\ Requests
  /\ \A d \in Deliveries : mishaps[d] = {} => Safe(d)

\* A step that leaves alone what concerns d.
LEMMA SafeFrame ==
  ASSUME NEW d \in Deliveries, Safe(d),
         dlv'[d] = dlv[d], dlq'[d] = dlq[d], tasks'[d] = tasks[d],
         d \in lost' <=> d \in lost, revived'[d] = revived[d],
         \A v \in Workers : /\ job'[v] = d <=> job[v] = d
                            /\ job[v] = d => loaded'[v] \in {loaded[v], None, dlv[d]},
         \A q \in Replays : /\ Revives(q, d)' <=> Revives(q, d)
                            /\ Revives(q, d) =>
                                 /\ qpc'[q] = qpc[q] /\ held'[q][d] = held[q][d]
                                 /\ d \in resent'[q] <=> d \in resent[q]
  PROVE  Safe(d)'
<1>1. (Terminal(d)' <=> Terminal(d)) /\ (Untouched(d)' <=> Untouched(d))
  BY DEF Terminal, Untouched
<1>2. Sole(d)'
  BY <1>1 DEF Safe, Sole, Holds
<1>3. SoleReplay(d)'
  BY DEF Safe, SoleReplay
<1>4. AtRest(d)'
  BY <1>1 DEF Safe, AtRest, Holds
<1> QED BY <1>1, <1>2, <1>3, <1>4 DEF Safe, Sound, Exhausted

\* The worker that has d ends its task: d has a successor, or is lost.
LEMMA SafeEnd ==
  ASSUME TypesInv, NEW w \in Workers, NEW d \in Deliveries, job[w] = d, Safe(d),
         EndTask(w), UNCHANGED <<dlv, dlq, replayvars>>,
         \/ tasks' = [tasks EXCEPT ![d] = @ + 1] /\ UNCHANGED lost
         \/ lost' = lost \cup {d} /\ UNCHANGED tasks
  PROVE  Safe(d)'
<1>1. /\ job \in [Workers -> Deliveries \cup {None}]
      /\ tasks \in [Deliveries -> Nat] /\ d # None
  BY EngineAssumption DEF TypesInv, ReplayTypeOK, TypeOK
<1>2. /\ ~Terminal(d) /\ d \notin lost /\ tasks[d] = 0 /\ Untouched(d)
      /\ \A v \in Workers : job[v] = d => v = w
  BY DEF Safe, Sole, Holds
<1>3. \A v \in Workers : job'[v] # d
  BY <1>1, <1>2 DEF EndTask
<1>4. ~Terminal(d)' /\ Untouched(d)'
  BY <1>2 DEF Terminal, Untouched, Revives, UnderWay, Over, replayvars
<1>5. (tasks'[d] = 1 /\ d \notin lost') \/ (tasks'[d] = 0 /\ d \in lost')
  BY <1>1, <1>2
<1>6. Sole(d)'
  BY <1>3 DEF Sole, Holds
<1>7. SoleReplay(d)' /\ AtRest(d)'
  BY <1>4, <1>5 DEF SoleReplay, AtRest, Untouched
<1> QED
  BY <1>4, <1>5, <1>6, <1>7 DEF Safe, Sound, Exhausted, replayvars

\* The worker that has d writes it, waiting, and goes on.
LEMMA SafeWrite ==
  ASSUME TypesInv, NEW w \in Workers, NEW d \in Deliveries, job[w] = d, Safe(d),
         NEW row \in DeliveryRow, Store(d, row), Sound(row),
         row.status \notin {"delivered", "dead"}, Expire(w),
         UNCHANGED <<dlq, tasks, job, lost, replayvars>>
  PROVE  Safe(d)'
<1>1. /\ loaded \in [Workers -> DeliveryRow \cup {None}]
      /\ dlv \in [Deliveries -> DeliveryRow] /\ d # None
  BY EngineAssumption DEF TypesInv, ReplayTypeOK, TypeOK
<1>2. /\ ~Terminal(d) /\ d \notin lost /\ tasks[d] = 0 /\ Untouched(d)
      /\ \A v \in Workers : job[v] = d => v = w
  BY DEF Safe, Sole, Holds
<1>3. dlv'[d] = row /\ loaded'[w] = None
  BY <1>1 DEF Store, Expire
<1>4. ~Terminal(d)' /\ Untouched(d)'
  BY <1>2, <1>3 DEF Terminal, Untouched, Revives, UnderWay, Over, replayvars
<1>5. Sole(d)'
  BY <1>2, <1>3, <1>4 DEF Sole, Holds
<1>6. SoleReplay(d)' /\ AtRest(d)'
  BY <1>2, <1>4 DEF SoleReplay, AtRest, Untouched, Holds
<1>7. dlq'[d] = revived'[d] + IF row.status = "dead" THEN 1 ELSE 0
  BY <1>2 DEF Safe, Terminal, replayvars
<1>8. Sound(dlv'[d])
  BY <1>3
<1> QED
  BY <1>2, <1>3, <1>4, <1>5, <1>6, <1>7, <1>8 DEF Safe, Sound, Exhausted

\* The worker that has d finishes it: delivered, or dead with its letter.
LEMMA SafeFinish ==
  ASSUME TypesInv, NEW w \in Workers, NEW d \in Deliveries, job[w] = d, Safe(d),
         NEW row \in DeliveryRow, Store(d, row), Sound(row),
         row.status \in {"delivered", "dead"}, EndTask(w),
         dlq' = IF row.status = "dead" THEN [dlq EXCEPT ![d] = @ + 1] ELSE dlq,
         UNCHANGED <<tasks, lost, replayvars>>
  PROVE  Safe(d)'
<1>1. /\ job \in [Workers -> Deliveries \cup {None}]
      /\ dlv \in [Deliveries -> DeliveryRow] /\ d # None
      /\ dlq \in [Deliveries -> Nat] /\ revived \in [Deliveries -> Nat]
  BY EngineAssumption DEF TypesInv, ReplayTypeOK, TypeOK
<1>2. /\ ~Terminal(d) /\ d \notin lost /\ tasks[d] = 0 /\ Untouched(d)
      /\ \A v \in Workers : job[v] = d => v = w
  BY DEF Safe, Sole, Holds
<1>3. dlv'[d] = row /\ \A v \in Workers : job'[v] # d
  BY <1>1, <1>2 DEF Store, EndTask
<1>4. Terminal(d)' /\ Untouched(d)'
  BY <1>2, <1>3 DEF Terminal, Untouched, Revives, UnderWay, Over, replayvars
<1>5. Sole(d)'
  BY <1>3 DEF Sole, Holds
<1>6. SoleReplay(d)' /\ AtRest(d)'
  BY <1>2, <1>4 DEF SoleReplay, AtRest, Untouched
<1>7. dlq'[d] = revived'[d] + IF row.status = "dead" THEN 1 ELSE 0
  BY <1>1, <1>2 DEF Safe, Terminal, replayvars
<1>8. Sound(dlv'[d])
  BY <1>3
<1> QED
  BY <1>2, <1>3, <1>4, <1>5, <1>6, <1>7, <1>8 DEF Safe, Sound, Exhausted

\* What a worker does to deliveries that it does not have: nothing.
LEMMA OthersRest ==
  ASSUME TypesInv, NEW w \in Workers,
         TaskStep(w) \/ SendRefused(w) \/ WorkerDies(w),
         NEW d \in Deliveries, job[w] # d
  PROVE  /\ dlv'[d] = dlv[d] /\ dlq'[d] = dlq[d] /\ tasks'[d] = tasks[d]
         /\ d \in lost' <=> d \in lost
         /\ \A v \in Workers : /\ job'[v] = d <=> job[v] = d
                               /\ job[v] = d => loaded'[v] = loaded[v]
<1>1. /\ job \in [Workers -> Deliveries \cup {None}]
      /\ loaded \in [Workers -> DeliveryRow \cup {None}]
      /\ dlv \in [Deliveries -> DeliveryRow] /\ tasks \in [Deliveries -> Nat]
      /\ dlq \in [Deliveries -> Nat] /\ d # None
  BY EngineAssumption DEF TypesInv, ReplayTypeOK, TypeOK
<1>2. /\ UNCHANGED job \/ job' = [job EXCEPT ![w] = None]
      /\ \A v \in Workers : v # w => loaded'[v] = loaded[v]
  BY <1>1
  DEF TaskStep, CheckCircuit, InsertFailed, Postpone, Post, LockCircuit,
      Succeed, Fail, LoadDelivery, CommitFailure, Schedule, MarkCircuitOpen,
      Send, SendRefused, WorkerDies, EndTask, Expire, Load, LogAttempt,
      enginevars
<1>3. \A v \in Workers : /\ job'[v] = d <=> job[v] = d
                         /\ job[v] = d => loaded'[v] = loaded[v]
  BY <1>1, <1>2
<1>4. dlv'[d] = dlv[d] /\ dlq'[d] = dlq[d]
  BY <1>1
  DEF TaskStep, CheckCircuit, InsertFailed, Postpone, Post, LockCircuit,
      Succeed, Fail, LoadDelivery, CommitFailure, Schedule, MarkCircuitOpen,
      Send, SendRefused, WorkerDies, Store, MoveToDLQ, enginevars
<1>5. tasks'[d] = tasks[d] /\ (d \in lost' <=> d \in lost)
  BY <1>1
  DEF TaskStep, CheckCircuit, InsertFailed, Postpone, Post, LockCircuit,
      Succeed, Fail, LoadDelivery, CommitFailure, Schedule, MarkCircuitOpen,
      Send, SendRefused, WorkerDies, enginevars
<1> QED BY <1>3, <1>4, <1>5

\* What a worker does to the delivery it has.
LEMMA WorkSafe ==
  ASSUME TypesInv, NEW w \in Workers, UNCHANGED replayvars,
         TaskStep(w) \/ SendRefused(w) \/ WorkerDies(w),
         NEW d \in Deliveries, job[w] = d, Safe(d)
  PROVE  Safe(d)'
<1>0. /\ job \in [Workers -> Deliveries \cup {None}]
      /\ loaded \in [Workers -> DeliveryRow \cup {None}]
      /\ dlv[d] \in DeliveryRow /\ Sound(dlv[d]) /\ dlv[d].delivered_at = None
      /\ loaded[w] # None => loaded[w] = dlv[d]
  BY DEF TypesInv, ReplayTypeOK, TypeOK, Safe, Sole, Holds, Terminal, Sound
<1>1. ASSUME UNCHANGED <<dlv, dlq, tasks, job, lost>>,
             UNCHANGED loaded \/ Expire(w) \/ Load(w)
      PROVE  Safe(d)'
  <2>1. \A v \in Workers : job[v] = d => loaded'[v] \in {loaded[v], None, dlv[d]}
    BY <1>0, <1>1 DEF Expire, Load
  <2>2. UNCHANGED <<qpc, held, resent, revived>>
    BY DEF replayvars
  <2> QED BY <1>1, <2>1, <2>2, SafeFrame DEF Revives, UnderWay, Over
<1>2. CASE TaskStep(w)
  <2>1. CASE \/ CheckCircuit(w) \/ Post(w) \/ LockCircuit(w) \/ Fail(w)
             \/ LoadDelivery(w) \/ Schedule(w)
    BY <1>1, <2>1
    DEF CheckCircuit, Post, LockCircuit, Fail, LoadDelivery, Schedule,
        LogAttempt, enginevars
  <2>2. CASE InsertFailed(w) \/ Send(w)
    BY <2>2, SafeEnd DEF InsertFailed, Send
  <2>3. CASE Postpone(w) \/ MarkCircuitOpen(w)
    <3> DEFINE row == WaitingForCircuit(dlv[d])
    <3>1. /\ row \in DeliveryRow /\ row.status = "circuit_open"
          /\ row.delivered_at = None
      BY <1>0, WaitingRow
    <3>2. Updated(dlv[d], dlv[d], row) = row
      BY <1>0, <3>1, UpdatedCurrent
    <3>3. MarkCircuitOpen(w) => loaded[w] # None
      BY DEF MarkCircuitOpen, TypesInv, Prepared
    <3>4. Store(d, row) /\ Expire(w) /\ UNCHANGED <<dlq, tasks, job, lost>>
      BY <1>0, <2>3, <3>2, <3>3 DEF Postpone, MarkCircuitOpen
    <3> HIDE DEF row
    <3>5. Sound(row)
      BY <3>1 DEF Sound
    <3> QED BY <3>1, <3>4, <3>5, SafeWrite
  <2>4. CASE Succeed(w)
    <3> DEFINE row == DeliveredRow(dlv[d])
    <3>1. /\ row \in DeliveryRow /\ row.status = "delivered"
          /\ row.delivered_at # None
      BY <1>0, DoneRow, EngineAssumption
    <3>2. Store(d, row) /\ EndTask(w) /\ UNCHANGED <<dlq, tasks, lost>>
      BY <2>4 DEF Succeed
    <3> HIDE DEF row
    <3>3. Sound(row)
      BY <3>1 DEF Sound
    <3> QED BY <3>1, <3>2, <3>3, SafeFinish
  <2>5. CASE CommitFailure(w)
    <3> DEFINE ft == result[w]
               new == FailedDelivery(dlv[d], ft)
    <3>1. ft \in FailureTypes /\ ft # None /\ loaded[w] = dlv[d]
      BY <1>0, <2>5, EngineAssumption
      DEF CommitFailure, TypesInv, ReplayTypeOK, TypeOK, Prepared, Results
    <3>2. /\ new \in DeliveryRow
          /\ new.status \in {"dead", "retrying"}
          /\ new.failure_type = ft
          /\ new.delivered_at = dlv[d].delivered_at
          /\ new.status = "dead" <=>
               ft = Permanent \/ new.retry_count > MaxRetries[ft]
      BY <1>0, <3>1, FailedDeliveryRow
    <3>3. Updated(dlv[d], dlv[d], new) = new
      BY <1>0, <3>2, UpdatedCurrent
    <3>4. /\ Store(d, new) /\ UNCHANGED <<tasks, lost>>
          /\ IF new.status = "dead"
               THEN dlq' = [dlq EXCEPT ![d] = @ + 1] /\ EndTask(w)
               ELSE Expire(w) /\ UNCHANGED <<dlq, job>>
      BY <2>5, <3>1, <3>3 DEF CommitFailure, MoveToDLQ
    <3> HIDE DEF new
    <3>5. Sound(new)
      BY <1>0, <3>1, <3>2 DEF Sound, Exhausted
    <3>6. CASE new.status = "dead"
      BY <3>2, <3>4, <3>5, <3>6, SafeFinish
    <3>7. CASE new.status = "retrying"
      BY <3>2, <3>4, <3>5, <3>7, SafeWrite
    <3> QED BY <3>2, <3>6, <3>7
  <2> QED BY <1>2, <2>1, <2>2, <2>3, <2>4, <2>5 DEF TaskStep
<1>3. CASE SendRefused(w)
  <2>1. CASE handler[w]
    BY <1>3, <2>1, SafeEnd DEF SendRefused
  <2>2. CASE ~handler[w]
    BY <1>1, <1>3, <2>2 DEF SendRefused, LogAttempt
  <2> QED BY <2>1, <2>2
<1>4. CASE WorkerDies(w)
  BY <1>4, SafeEnd DEF WorkerDies
<1> QED BY <1>2, <1>3, <1>4

\* A worker that takes the delivery's one task has the delivery to itself,
\* unless it overtakes a replay.
LEMMA TakeSafe ==
  ASSUME TypesInv, NEW w \in Workers, NEW e \in Deliveries, WorkerTakes(w, e),
         NEW d \in Deliveries, mishaps'[d] = {}, mishaps[d] = {}, Safe(d)
  PROVE  Safe(d)'
<1>1. /\ job[w] = None
      /\ tasks[e] > 0 /\ tasks' = [tasks EXCEPT ![e] = @ - 1]
      /\ job' = [job EXCEPT ![w] = e]
      /\ loaded' = [loaded EXCEPT ![w] = dlv[e]]
      /\ UNCHANGED <<dlv, dlq, lost, qpc, held, resent, revived>>
  BY DEF WorkerTakes, Take, TypesInv, Busy
<1>2. /\ tasks \in [Deliveries -> Nat] /\ d # None
      /\ job \in [Workers -> Deliveries \cup {None}]
      /\ loaded \in [Workers -> DeliveryRow \cup {None}]
  BY EngineAssumption DEF TypesInv, ReplayTypeOK, TypeOK
<1>3. CASE d # e
  <2>1. \A v \in Workers : /\ job'[v] = d <=> job[v] = d
                           /\ job[v] = d => loaded'[v] = loaded[v]
    BY <1>1, <1>2, <1>3
  <2> QED BY <1>1, <1>2, <1>3, <2>1, SafeFrame DEF Revives, UnderWay, Over
<1>4. CASE d = e
  <2>1. ~Uncommitted(d)
    BY <1>4 DEF WorkerTakes, Mishap
  <2>2. Untouched(d)
    BY <1>1, <1>4, <2>1 DEF Safe, SoleReplay, Untouched, Uncommitted
  <2>3. /\ tasks[d] = 1 /\ ~Terminal(d) /\ d \notin lost
        /\ \A v \in Workers : job[v] # d
    BY <1>1, <1>2, <1>4, <2>2 DEF Safe, AtRest, Sole, Holds
  <2>4. /\ tasks'[d] = 0 /\ job'[w] = d /\ loaded'[w] = dlv[d]
        /\ \A v \in Workers : job'[v] = d => v = w
    BY <1>1, <1>2, <1>4, <2>3
  <2>5. ~Terminal(d)' /\ Untouched(d)'
    BY <1>1, <2>2, <2>3 DEF Terminal, Untouched, Revives, UnderWay, Over
  <2>6. Sole(d)' /\ SoleReplay(d)' /\ AtRest(d)'
    BY <1>1, <2>3, <2>4, <2>5 DEF Sole, SoleReplay, AtRest, Untouched, Holds
  <2> QED BY <1>1, <2>4, <2>5, <2>6 DEF Safe, Sound, Exhausted
<1> QED BY <1>3, <1>4

\* A dead delivery revived as loaded waits as if it were new.
LEMMA RevivedSound ==
  ASSUME NEW row \in DeliveryRow, row.status = "dead", Sound(row)
  PROVE  Revive(row, row).status = "retrying" /\ Sound(Revive(row, row))
  BY DEF Revive, Sound, DeliveryRow

\* A request's step on a delivery that it alone revives, or begins to.
LEMMA ReplayingSafe ==
  ASSUME TypesInv, Unsent, Requests, NEW q \in Replays, Replaying(q),
         NEW d \in Deliveries, mishaps'[d] = {}, Safe(d)
  PROVE  Safe(d)'
<1> USE DEF Step
<1>1. RequestTypes /\ dlv[d] \in DeliveryRow /\ dlv[d] # None
  BY EngineAssumption DEF TypesInv, ReplayTypeOK, TypeOK, RequestTypes
<1>2. /\ UNCHANGED <<dlq, pc, job, loaded, lost>>
      /\ \A p \in Replays : p # q => /\ qpc'[p] = qpc[p] /\ held'[p] = held[p]
                                     /\ resent'[p] = resent[p]
  BY <1>1
  DEF Replaying, LoadLetter, CommitLetter, SendLetter, LoadEvent, Requeue,
      CommitEvent, CutShort, vars, enginevars, RequestTypes
<1>3. \A p \in Replays : p # q => (Revives(p, d)' <=> Revives(p, d))
  BY <1>2 DEF Revives, UnderWay, Over
\* A request that has nothing to do with d.
<1>4. ASSUME ~Revives(q, d), ~Revives(q, d)',
             dlv'[d] = dlv[d], tasks'[d] = tasks[d], revived'[d] = revived[d]
      PROVE  Safe(d)'
  <2>1. \A p \in Replays : /\ Revives(p, d)' <=> Revives(p, d)
                           /\ Revives(p, d) =>
                                /\ qpc'[p] = qpc[p] /\ held'[p][d] = held[p][d]
                                /\ d \in resent'[p] <=> d \in resent[p]
    BY <1>2, <1>3, <1>4
  <2> QED BY <1>2, <1>4, <2>1, SafeFrame
\* A request that loads d, dead and at rest.
<1>5. ASSUME DeadAtRest(d), qpc[q] = "new", qpc'[q] \in {"write", "requeue"},
             held'[q][d] = dlv[d], UNCHANGED <<dlv, tasks, resent, revived>>
      PROVE  Safe(d)'
  <2>1. Carriers(d) = tasks[d] + Cardinality(Holders(d))
    BY DEF Carriers, Holders
  <2>2. tasks[d] = 0 /\ Cardinality(Holders(d)) = 0
    BY <1>1, <1>5, <2>1, Finite DEF DeadAtRest, RequestTypes
  <2>3. Holders(d) = {}
    BY <2>2, Finite, FS_EmptySet
  <2>4. Sole(d)'
    BY <1>2, <2>3 DEF Sole, Holders, Holds
  <2>5. dlv[d].status = "dead" /\ Untouched(d)
    BY <1>5 DEF DeadAtRest, Untouched, Revives
  <2>6. d \notin resent[q]
    BY <1>5 DEF Unsent
  <2>7. SoleReplay(d)'
    BY <1>3, <1>5, <2>2, <2>5, <2>6 DEF SoleReplay, Untouched
  <2>8. Revives(q, d)'
    BY <1>1, <1>5 DEF Revives, UnderWay, Over
  <2>9. AtRest(d)'
    BY <2>8 DEF AtRest, Untouched
  <2>10. d \notin lost'
    BY <1>2, <2>5 DEF Safe, Terminal
  <2> QED
    BY <1>2, <1>5, <2>4, <2>7, <2>9, <2>10 DEF Safe, Sound, Exhausted
\* The request that revives d.
<1>6. Revives(q, d) =>
        /\ \A v \in Workers : ~Holds(v, d)
        /\ d \notin lost
        /\ \A p \in Replays : Revives(p, d) => p = q
        /\ tasks[d] = IF qpc[q] = "requeue" /\ d \in resent[q] THEN 1 ELSE 0
        /\ IF qpc[q] = "send"
             THEN dlv[d].status = "retrying"
             ELSE dlv[d].status = "dead" /\ held[q][d] = dlv[d]
  BY DEF Safe, Sole, SoleReplay, Untouched
<1>7. ASSUME Revives(q, d), SoleReplay(d)', AtRest(d)', Sound(dlv[d])',
             dlq[d] = revived'[d] + IF dlv'[d].status = "dead" THEN 1 ELSE 0
      PROVE  Safe(d)'
  <2>1. Sole(d)' /\ d \notin lost'
    BY <1>2, <1>6, <1>7 DEF Sole, Holds
  <2> QED BY <1>2, <1>7, <2>1 DEF Safe
\* It lets d go, with its task or dead.
<1>8. ASSUME Revives(q, d), qpc'[q] \in {"done", "failed"}, Sound(dlv[d])',
             \/ tasks'[d] = 1 /\ ~Terminal(d)'
             \/ tasks'[d] = 0 /\ Terminal(d)',
             dlq[d] = revived'[d] + IF dlv'[d].status = "dead" THEN 1 ELSE 0
      PROVE  Safe(d)'
  <2>1. Untouched(d)'
    BY <1>3, <1>6, <1>8 DEF Untouched, Revives, UnderWay
  <2>2. SoleReplay(d)' /\ AtRest(d)'
    BY <1>8, <2>1 DEF SoleReplay, AtRest, Untouched
  <2> QED BY <1>7, <1>8, <2>2
<1>9. Revives(q, d) /\ qpc[q] # "send" =>
        /\ Revive(dlv[d], held[q][d]).status = "retrying"
        /\ Sound(Revive(dlv[d], held[q][d]))
  BY <1>1, <1>6, RevivedSound DEF Safe
<1>10. ASSUME NEW D, NEW m, Mishap(D, m), d \in D
       PROVE  FALSE
  BY <1>10 DEF Mishap
<1>11. ASSUME NEW e \in Deliveries, LoadLetter(q, e)
       PROVE  Safe(d)'
  <2>1. /\ qpc[q] = "new" /\ qpc' = [qpc EXCEPT ![q] = "write"]
        /\ held' = [held EXCEPT ![q][e] = dlv[e]]
        /\ UNCHANGED <<dlv, tasks, resent, revived>>
    BY <1>11 DEF LoadLetter, vars, enginevars
  <2>2. qpc'[q] = "write" /\ held'[q] = [held[q] EXCEPT ![e] = dlv[e]]
    BY <1>1, <2>1 DEF RequestTypes
  <2>3. CASE d = e
    <3>1. DeadAtRest(d)
      BY <1>10, <1>11, <2>3 DEF LoadLetter
    <3>2. held'[q][d] = dlv[d]
      BY <1>1, <2>2, <2>3 DEF RequestTypes
    <3> QED BY <1>5, <2>1, <2>2, <3>1, <3>2
  <2>4. CASE d # e
    <3>1. held'[q][d] = None
      BY <1>1, <2>1, <2>2, <2>4 DEF RequestTypes, Requests, Over
    <3> QED BY <1>4, <2>1, <3>1 DEF Revives, UnderWay, Over
  <2> QED BY <2>3, <2>4
<1>12. ASSUME NEW e, LoadEvent(q, e)
       PROVE  Safe(d)'
  <2>1. /\ qpc[q] = "new" /\ qpc'[q] = "requeue"
        /\ UNCHANGED <<dlv, tasks, resent, revived>>
        /\ held'[q][d] = IF EventOf[d] = e /\ dlv[d].status = "dead"
                           THEN dlv[d] ELSE None
    BY <1>1, <1>12 DEF LoadEvent, vars, enginevars, RequestTypes
  <2>2. CASE EventOf[d] = e /\ dlv[d].status = "dead"
    <3>1. DeadAtRest(d)
      BY <1>10, <1>12, <2>2 DEF LoadEvent
    <3> QED BY <1>5, <2>1, <2>2, <3>1
  <2>3. CASE ~(EventOf[d] = e /\ dlv[d].status = "dead")
    BY <1>4, <2>1, <2>3 DEF Revives, UnderWay, Over
  <2> QED BY <2>2, <2>3
<1>13. CASE CommitLetter(q)
  <2>1. PICK e \in Over(q) : /\ Store(e, Revive(dlv[e], held[q][e]))
                             /\ revived' = [revived EXCEPT ![e] = @ + 1]
    BY <1>13 DEF CommitLetter
  <2>2. /\ qpc[q] = "write" /\ qpc'[q] = "send" /\ UNCHANGED <<tasks, held, resent>>
        /\ \A x \in Over(q) : x = e
    BY <1>1, <1>13, <2>1 DEF CommitLetter, RequestTypes, Requests
  <2>3. CASE d = e
    <3>1. Revives(q, d) /\ Revives(q, d)'
      BY <2>1, <2>2, <2>3 DEF Revives, UnderWay, Over
    <3>2. dlv'[d] = Revive(dlv[d], held[q][d]) /\ revived'[d] = revived[d] + 1
      BY <1>1, <2>1, <2>3 DEF Store, RequestTypes
    <3>3. SoleReplay(d)'
      BY <1>3, <1>6, <1>9, <2>2, <3>1, <3>2 DEF SoleReplay
    <3>4. AtRest(d)'
      BY <3>1 DEF AtRest, Untouched
    <3>5. Sound(dlv[d])' /\ dlv'[d].status = "retrying" /\ dlv[d].status = "dead"
      BY <1>6, <1>9, <2>2, <3>1, <3>2 DEF Sound, Exhausted
    <3>6. revived[d] \in Nat
      BY <1>1 DEF RequestTypes
    <3> QED BY <1>6, <1>7, <3>1, <3>2, <3>3, <3>4, <3>5, <3>6 DEF Safe
  <2>4. CASE d # e
    BY <1>1, <1>4, <2>1, <2>2, <2>4 DEF Revives, Over, Store, RequestTypes
  <2> QED BY <2>3, <2>4
<1>14. CASE SendLetter(q)
  <2>1. PICK e \in Over(q) : tasks' = [tasks EXCEPT ![e] = @ + 1]
    BY <1>14 DEF SendLetter, SendTask
  <2>2. /\ qpc[q] = "send" /\ qpc'[q] = "done" /\ UNCHANGED <<dlv, held, revived>>
        /\ \A x \in Over(q) : x = e
    BY <1>1, <1>14, <2>1 DEF SendLetter, RequestTypes, Requests
  <2>3. CASE d = e
    <3>1. Revives(q, d) /\ tasks'[d] = tasks[d] + 1
      BY <1>1, <2>1, <2>2, <2>3 DEF Revives, UnderWay, RequestTypes
    <3>2. tasks'[d] = 1 /\ ~Terminal(d)'
      BY <1>6, <2>2, <3>1 DEF Terminal
    <3>3. Sound(dlv[d])'
      BY <2>2 DEF Safe, Sound, Exhausted
    <3> QED BY <1>8, <2>2, <3>1, <3>2, <3>3 DEF Safe
  <2>4. CASE d # e
    BY <1>1, <1>4, <2>1, <2>2, <2>4 DEF Revives, Over, RequestTypes
  <2> QED BY <2>3, <2>4
<1>15. CASE Requeue(q)
  <2>1. PICK e \in Over(q) \ resent[q] :
          /\ tasks' = [tasks EXCEPT ![e] = @ + 1]
          /\ resent' = [resent EXCEPT ![q] = @ \cup {e}]
    BY <1>15 DEF Requeue, SendTask
  <2>2. qpc[q] = "requeue" /\ UNCHANGED <<dlv, qpc, held, revived>>
    BY <1>15 DEF Requeue
  <2>3. Revives(q, d)' <=> Revives(q, d)
    BY <2>2 DEF Revives, UnderWay, Over
  <2>4. CASE d = e
    <3>1. Revives(q, d) /\ tasks'[d] = tasks[d] + 1 /\ d \in resent'[q]
      BY <1>1, <2>1, <2>2, <2>4 DEF Revives, UnderWay, RequestTypes
    <3>2. tasks'[d] = 1
      BY <1>6, <2>1, <2>4, <3>1
    <3>3. SoleReplay(d)'
      BY <1>3, <1>6, <2>2, <2>3, <3>1, <3>2 DEF SoleReplay
    <3>4. AtRest(d)' /\ Sound(dlv[d])'
      BY <2>2, <2>3, <3>1 DEF AtRest, Untouched, Safe, Sound, Exhausted
    <3> QED BY <1>7, <2>2, <3>1, <3>3, <3>4 DEF Safe
  <2>5. CASE d # e
    <3>1. tasks'[d] = tasks[d] /\ (d \in resent'[q] <=> d \in resent[q])
      BY <1>1, <2>1, <2>5 DEF RequestTypes
    <3>2. \A p \in Replays : /\ Revives(p, d)' <=> Revives(p, d)
                             /\ d \in resent'[p] <=> d \in resent[p]
      BY <1>2, <1>3, <2>3, <3>1
    <3> QED BY <1>2, <2>2, <3>1, <3>2, SafeFrame
  <2> QED BY <2>4, <2>5
<1>16. CASE CommitEvent(q)
  <2>1. /\ qpc[q] = "requeue" /\ qpc'[q] = "done" /\ Over(q) \subseteq resent[q]
        /\ UNCHANGED tasks
        /\ dlv'[d] = IF d \in Over(q) THEN Revive(dlv[d], held[q][d]) ELSE dlv[d]
        /\ revived'[d] = revived[d] + IF d \in Over(q) THEN 1 ELSE 0
    BY <1>1, <1>16 DEF CommitEvent, RequestTypes
  <2>2. revived[d] \in Nat
    BY <1>1 DEF RequestTypes
  <2>3. CASE d \in Over(q)
    <3>1. Revives(q, d) /\ d \in resent[q]
      BY <2>1, <2>3 DEF Revives, UnderWay
    <3>2. tasks'[d] = 1 /\ dlv[d].status = "dead"
      BY <1>6, <2>1, <3>1
    <3>3. dlv'[d].status = "retrying" /\ Sound(dlv[d])' /\ ~Terminal(d)'
      BY <1>9, <2>1, <2>3, <3>1 DEF Terminal, Sound, Exhausted
    <3> QED BY <1>8, <2>1, <2>2, <2>3, <3>1, <3>2, <3>3 DEF Safe
  <2>4. CASE d \notin Over(q)
    BY <1>4, <2>1, <2>2, <2>4 DEF Revives, UnderWay
  <2> QED BY <2>3, <2>4
<1>17. CASE CutShort(q)
  <2>1. /\ qpc'[q] = "failed" /\ UNCHANGED <<dlv, tasks, held, resent, revived>>
    BY <1>1, <1>17 DEF CutShort, vars, enginevars, RequestTypes
  <2>2. CASE Revives(q, d)
    <3>1. IF qpc[q] = "send" THEN d \notin Over(q) ELSE d \notin resent[q]
      BY <1>10, <1>17 DEF CutShort
    <3>2. qpc[q] # "send" /\ tasks[d] = 0 /\ dlv[d].status = "dead"
      BY <1>6, <2>2, <3>1 DEF Revives
    <3>3. Terminal(d)' /\ Sound(dlv[d])'
      BY <2>1, <3>2 DEF Terminal, Safe, Sound, Exhausted
    <3> QED BY <1>8, <2>1, <2>2, <3>2, <3>3 DEF Safe
  <2>3. CASE ~Revives(q, d)
    BY <1>4, <2>1, <2>3 DEF Revives, UnderWay
  <2> QED BY <2>2, <2>3
<1> QED
  BY <1>11, <1>12, <1>13, <1>14, <1>15, <1>16, <1>17 DEF Replaying

LEMMA SafeInitially == ReplayInit => SafeInv
<1> SUFFICES ASSUME ReplayInit PROVE SafeInv
  OBVIOUS
<1>1. TypesInv /\ CountInv /\ Requests
  BY TypesInitially, CountInitially
  DEF ReplayInit, Requests, Over
<1>2. ASSUME NEW d \in Deliveries PROVE Safe(d)
  <2>1. /\ dlv[d].status = "pending" /\ dlv[d].delivered_at = None
        /\ tasks[d] = 1 /\ dlq[d] = 0 /\ revived[d] = 0 /\ lost = {}
        /\ \A w \in Workers : job[w] # d
    BY EngineAssumption DEF ReplayInit, Init, NewDelivery
  <2>2. Untouched(d)
    BY DEF ReplayInit, Untouched, Revives, UnderWay
  <2>3. Sole(d) /\ SoleReplay(d) /\ AtRest(d)
    BY <2>1, <2>2 DEF Sole, Holds, SoleReplay, Untouched, AtRest, Terminal
  <2> QED BY <2>1, <2>3 DEF Safe, Sound
<1> QED BY <1>1, <1>2 DEF SafeInv

\* No mishap is ever forgotten.
LEMMA MishapsStay ==
  ASSUME TypesInv, [ReplayNext]_allvars, NEW d \in Deliveries, mishaps'[d] = {}
  PROVE  mishaps[d] = {}
<1>1. \A D, m : Mishap(D, m) => mishaps[d] = {}
  BY DEF Mishap
<1>2. UNCHANGED mishaps => mishaps[d] = {}
  OBVIOUS
<1> QED
  BY <1>1, <1>2
  DEF ReplayNext, WorkerTakes, Replaying, LoadLetter, CommitLetter, SendLetter,
      LoadEvent, Requeue, CommitEvent, CutShort, replayvars, allvars

LEMMA SafeStep == SafeInv /\ [ReplayNext]_allvars => SafeInv'
<1> SUFFICES ASSUME SafeInv, [ReplayNext]_allvars PROVE SafeInv'
  OBVIOUS
<1>1. TypesInv' /\ CountInv' /\ Requests'
  BY TypesStep, CountStep, RequestsKeep DEF SafeInv, CountInv
<1> SUFFICES ASSUME NEW d \in Deliveries, mishaps'[d] = {}
             PROVE  Safe(d)'
  BY <1>1 DEF SafeInv
<1>3. mishaps[d] = {}
  BY MishapsStay DEF SafeInv
<1>4. Safe(d)
  BY <1>3 DEF SafeInv
<1>5. ASSUME UNCHANGED <<dlv, dlq, tasks, job, loaded, lost, replayvars>>
      PROVE  Safe(d)'
  <2>1. UNCHANGED <<qpc, held, resent, revived>>
    BY <1>5 DEF replayvars
  <2> QED BY <1>4, <1>5, <2>1, SafeFrame DEF Revives, UnderWay, Over
<1>6. ASSUME NEW w \in Workers, NEW e \in Deliveries, WorkerTakes(w, e)
      PROVE  Safe(d)'
  BY <1>3, <1>4, <1>6, TakeSafe DEF SafeInv
<1>7. ASSUME NEW w \in Workers, UNCHANGED replayvars,
             TaskStep(w) \/ SendRefused(w) \/ WorkerDies(w)
      PROVE  Safe(d)'
  <2>1. CASE job[w] = d
    BY <1>4, <1>7, <2>1, WorkSafe DEF SafeInv
  <2>2. CASE job[w] # d
    <3>1. UNCHANGED <<qpc, held, resent, revived>>
      BY <1>7 DEF replayvars
    <3> QED
      BY <1>4, <1>7, <2>2, <3>1, OthersRest, SafeFrame
      DEF SafeInv, Revives, UnderWay, Over
  <2> QED BY <2>1, <2>2
<1>8. ASSUME NEW q \in Replays, Replaying(q)
      PROVE  Safe(d)'
  BY <1>4, <1>8, ReplayingSafe DEF SafeInv, CountInv
<1>9. (TimePasses /\ UNCHANGED replayvars) \/ UNCHANGED allvars => Safe(d)'
  BY <1>5 DEF TimePasses, enginevars, allvars, vars
<1> QED BY <1>6, <1>7, <1>8, <1>9 DEF ReplayNext

\* A delivery replayed only when dead and at rest, by requests that complete
\* and commit before their task is taken, lives as if it were new: it has one
\* carrier as long as it waits, a dead letter for each of its deaths, and its
\* failures counted and limited from its last revival on.
THEOREM ProperReplaysStaySafe == ReplaySpec => []ProperReplaysAreSafe
<1>1. SafeInv => ProperReplaysAreSafe
  <2> SUFFICES ASSUME SafeInv, NEW d \in Deliveries, mishaps[d] = {}
               PROVE  ProperReplaysAreSafe!(d)!2
    BY DEF ProperReplaysAreSafe
  <2>1. Safe(d) /\ Requests
    BY DEF SafeInv
  <2>2. /\ tasks[d] \in Nat /\ Carriers(d) = tasks[d] + Cardinality(Holders(d))
        /\ Cardinality(Holders(d)) \in Nat
    BY Finite DEF SafeInv, CountInv, CountTypes, Carriers, Holders
  <2>3. Untouched(d) => ~Uncommitted(d) /\ ~AboutToSend(d)
    BY <2>1 DEF Untouched, Revives, UnderWay, Over, Requests, Uncommitted,
                AboutToSend
  <2>4. CASE \E w \in Workers : Holds(w, d)
    <3>1. PICK w \in Workers : Holds(w, d)
      BY <2>4
    <3>2. Holders(d) = {w}
      BY <2>1, <3>1 DEF Safe, Sole, Holders
    <3>3. Cardinality(Holders(d)) = 1
      BY <3>2, FS_Singleton
    <3>4. ~Terminal(d) /\ d \notin lost /\ tasks[d] = 0 /\ Untouched(d)
      BY <2>1, <3>1 DEF Safe, Sole
    <3>5. Carriers(d) = IF (Terminal(d) /\ ~Uncommitted(d)) \/ AboutToSend(d)
                            \/ d \in lost
                          THEN 0 ELSE 1
      BY <2>2, <2>3, <3>3, <3>4
    <3> QED BY <2>1, <3>5 DEF Safe, Sound
  <2>5. CASE ~\E w \in Workers : Holds(w, d)
    <3>1. Holders(d) = {}
      BY <2>5 DEF Holders
    <3>2. Carriers(d) = tasks[d]
      BY <2>2, <3>1, FS_EmptySet
    <3>3. CASE Untouched(d)
      <4>1. \/ (Terminal(d) \/ d \in lost) /\ tasks[d] = 0
            \/ ~Terminal(d) /\ d \notin lost /\ tasks[d] = 1
        BY <2>1, <2>5, <3>3 DEF Safe, AtRest
      <4>2. Carriers(d) = IF (Terminal(d) /\ ~Uncommitted(d)) \/ AboutToSend(d)
                              \/ d \in lost
                            THEN 0 ELSE 1
        BY <2>3, <3>2, <3>3, <4>1
      <4> QED BY <2>1, <4>2 DEF Safe, Sound
    <3>4. CASE ~Untouched(d)
      <4>1. PICK q \in Replays : Revives(q, d)
        BY <3>4 DEF Untouched
      <4>2. /\ \A p \in Replays : Revives(p, d) => p = q
            /\ tasks[d] = IF qpc[q] = "requeue" /\ d \in resent[q] THEN 1 ELSE 0
            /\ IF qpc[q] = "send" THEN dlv[d].status = "retrying"
                                  ELSE dlv[d].status = "dead"
            /\ d \notin lost
        BY <2>1, <3>4, <4>1 DEF Safe, SoleReplay
      <4>3. Uncommitted(d) <=> qpc[q] = "requeue" /\ d \in resent[q]
        BY <2>1, <4>2 DEF Uncommitted, Requests, Revives, UnderWay
      <4>4. AboutToSend(d) <=> qpc[q] = "send"
        BY <4>1, <4>2 DEF AboutToSend, Revives, UnderWay
      <4>5. Carriers(d) = IF (Terminal(d) /\ ~Uncommitted(d)) \/ AboutToSend(d)
                              \/ d \in lost
                            THEN 0 ELSE 1
        BY <3>2, <4>2, <4>3, <4>4 DEF Terminal
      <4> QED BY <2>1, <4>5 DEF Safe, Sound
    <3> QED BY <3>3, <3>4
  <2> QED BY <2>4, <2>5
<1> QED BY <1>1, SafeInitially, SafeStep, PTL DEF ReplaySpec

-----------------------------------------------------------------------------
(* Each life of a delivery, from its creation or a revival on. *)

Fate(d) == IF Terminal(d) THEN dlv[d].status ELSE "waiting"

\* The engine's contract, for one delivery.
Life(d) == INSTANCE DeliveryContract
  WITH Deliveries <- {d},
       fate       <- [x \in {d} |-> Fate(x)],
       failures   <- [x \in {d} |-> dlv[x].retry_count],
       letters    <- [x \in {d} |-> dlq[x]]

LivesOn(d) == [Life(d)!Next]_(Life(d)!vars) /\ revived'[d] = revived[d]

\* A dead delivery waits again, as if no attempt had failed; its letter stays.
Revival(d) ==
  /\ Fate(d) = "dead" /\ Fate(d)' = "waiting" /\ dlv'[d].retry_count = 0
  /\ dlq'[d] = dlq[d] /\ revived'[d] = revived[d] + 1

\* A step of the contract, in terms of d alone.
Persists(d) ==
  /\ Fate(d)' = Fate(d) /\ dlq'[d] = dlq[d]
  /\ dlv'[d].retry_count = dlv[d].retry_count

Arrives(d) ==
  /\ Fate(d) = "waiting" /\ Fate(d)' = "delivered" /\ dlq'[d] = dlq[d]
  /\ dlv'[d].retry_count = dlv[d].retry_count

Fails(d, ft) ==
  /\ Fate(d) = "waiting"
  /\ dlv'[d].retry_count = dlv[d].retry_count + 1
  /\ IF ft # Permanent /\ dlv[d].retry_count < MaxRetries[ft]
       THEN Fate(d)' = "waiting" /\ dlq'[d] = dlq[d]
       ELSE Fate(d)' = "dead" /\ dlq'[d] = dlq[d] + 1

LEMMA LifeSteps ==
  ASSUME NEW d \in Deliveries,
         Persists(d) \/ Arrives(d) \/ \E ft \in FailureTypes : Fails(d, ft)
  PROVE  [Life(d)!Next]_(Life(d)!vars)
<1> DEFINE fate == [x \in {d} |-> Fate(x)]
           failures == [x \in {d} |-> dlv[x].retry_count]
           letters == [x \in {d} |-> dlq[x]]
<1>1. CASE Persists(d)
  <2>1. fate' = fate
    BY <1>1 DEF Persists
  <2>2. failures' = failures
    BY <1>1 DEF Persists
  <2>3. letters' = letters
    BY <1>1 DEF Persists
  <2> QED BY <2>1, <2>2, <2>3 DEF Life!vars
<1>2. CASE Arrives(d)
  <2>1. fate' = [fate EXCEPT ![d] = "delivered"]
    BY <1>2 DEF Arrives
  <2>2. failures' = failures
    BY <1>2 DEF Arrives
  <2>3. letters' = letters
    BY <1>2 DEF Arrives
  <2>4. fate[d] = "waiting"
    BY <1>2 DEF Arrives
  <2> QED BY <2>1, <2>2, <2>3, <2>4 DEF Life!Next, Life!Deliver
<1>3. ASSUME NEW ft \in FailureTypes, Fails(d, ft)
      PROVE  Life(d)!Next
  <2>1. failures' = [failures EXCEPT ![d] = failures[d] + 1]
    BY <1>3 DEF Fails
  <2>2. fate[d] = "waiting" /\ failures[d] = dlv[d].retry_count
    BY <1>3 DEF Fails
  <2>3. CASE ft # Permanent /\ dlv[d].retry_count < MaxRetries[ft]
    <3>1. fate' = fate
      BY <1>3, <2>3 DEF Fails
    <3>2. letters' = letters
      BY <1>3, <2>3 DEF Fails
    <3>3. Life(d)!Retry(d, ft)
      BY <2>1, <2>2, <2>3, <3>1, <3>2 DEF Life!Retry, Life!Tolerated
    <3> QED BY <3>3 DEF Life!Next
  <2>4. CASE ~(ft # Permanent /\ dlv[d].retry_count < MaxRetries[ft])
    <3>1. fate' = [fate EXCEPT ![d] = "dead"]
      BY <1>3, <2>4 DEF Fails
    <3>2. letters' = [letters EXCEPT ![d] = letters[d] + 1]
      BY <1>3, <2>4 DEF Fails
    <3>3. Life(d)!Die(d, ft)
      BY <2>1, <2>2, <2>4, <3>1, <3>2 DEF Life!Die, Life!Tolerated
    <3> QED BY <3>3 DEF Life!Next
  <2> QED BY <2>3, <2>4
<1> QED BY <1>1, <1>2, <1>3

\* What a worker does to a delivery that it has to itself.
LEMMA WorkLives ==
  ASSUME TypesInv, NEW w \in Workers,
         TaskStep(w) \/ SendRefused(w) \/ WorkerDies(w),
         NEW d \in Deliveries, job[w] = d, Safe(d)
  PROVE  Persists(d) \/ Arrives(d) \/ \E ft \in FailureTypes : Fails(d, ft)
<1>0. /\ dlv \in [Deliveries -> DeliveryRow] /\ dlq \in [Deliveries -> Nat]
      /\ dlv[d] \in DeliveryRow /\ Fate(d) = "waiting"
      /\ dlv[d].delivered_at = None /\ dlv[d].retry_count \in Nat
      /\ loaded[w] # None => loaded[w] = dlv[d]
  <2>1. /\ dlv \in [Deliveries -> DeliveryRow] /\ dlq \in [Deliveries -> Nat]
        /\ dlv[d] \in DeliveryRow
    BY DEF TypesInv, ReplayTypeOK, TypeOK
  <2>2. dlv[d].retry_count \in Nat
    BY <2>1 DEF DeliveryRow
  <2>3. /\ ~Terminal(d) /\ dlv[d].delivered_at = None
        /\ loaded[w] # None => loaded[w] = dlv[d]
    BY DEF Safe, Sole, Holds, Terminal, Sound
  <2> QED BY <2>1, <2>2, <2>3 DEF Fate
<1>1. ASSUME UNCHANGED <<dlv, dlq>>
      PROVE  Persists(d)
  BY <1>1 DEF Persists, Fate, Terminal
<1>2. CASE Postpone(w) \/ MarkCircuitOpen(w)
  <2> DEFINE row == WaitingForCircuit(dlv[d])
  <2>1. /\ row \in DeliveryRow /\ row.status = "circuit_open"
        /\ row.retry_count = dlv[d].retry_count
        /\ row.delivered_at = None
    BY <1>0, WaitingRow
  <2>2. Updated(dlv[d], dlv[d], row) = row
    BY <1>0, <2>1, UpdatedCurrent
  <2>3. MarkCircuitOpen(w) => loaded[w] # None
    BY DEF MarkCircuitOpen, TypesInv, Prepared
  <2>4. dlv'[d] = row /\ UNCHANGED dlq
    BY <1>0, <1>2, <2>2, <2>3 DEF Postpone, MarkCircuitOpen, Store
  <2> HIDE DEF row
  <2> QED BY <1>0, <2>1, <2>4 DEF Persists, Fate, Terminal
<1>3. CASE Succeed(w)
  <2> DEFINE row == DeliveredRow(dlv[d])
  <2>1. row.status = "delivered" /\ row.retry_count = dlv[d].retry_count
    BY <1>0, DoneRow
  <2>2. dlv'[d] = row /\ UNCHANGED dlq
    BY <1>0, <1>3 DEF Succeed, Store
  <2> HIDE DEF row
  <2> QED BY <1>0, <2>1, <2>2 DEF Arrives, Fate, Terminal
<1>4. CASE CommitFailure(w)
  <2> DEFINE ft == result[w]
             new == FailedDelivery(dlv[d], ft)
  <2>1. ft \in FailureTypes /\ ft # None /\ loaded[w] = dlv[d]
    BY <1>0, <1>4, EngineAssumption
    DEF CommitFailure, TypesInv, ReplayTypeOK, TypeOK, Prepared, Results
  <2>2. /\ new \in DeliveryRow
        /\ new.status \in {"dead", "retrying"}
        /\ new.retry_count = dlv[d].retry_count + 1
        /\ new.delivered_at = dlv[d].delivered_at
        /\ new.status = "dead" <=>
             ft = Permanent \/ new.retry_count > MaxRetries[ft]
    BY <1>0, <2>1, FailedDeliveryRow
  <2>3. Updated(dlv[d], dlv[d], new) = new
    BY <1>0, <2>2, UpdatedCurrent
  <2>4. /\ dlv'[d] = new
        /\ IF new.status = "dead" THEN dlq'[d] = dlq[d] + 1 ELSE dlq'[d] = dlq[d]
    BY <1>0, <1>4, <2>1, <2>3 DEF CommitFailure, MoveToDLQ, Store
  <2>5. MaxRetries[ft] \in Nat
    BY <2>1, EngineAssumption
  <2> HIDE DEF new
  <2>6. new.status = "dead" <=>
          ~(ft # Permanent /\ dlv[d].retry_count < MaxRetries[ft])
    BY <1>0, <2>2, <2>5
  <2>7. Fails(d, ft)
    BY <1>0, <2>2, <2>4, <2>6 DEF Fails, Fate, Terminal
  <2> QED BY <2>1, <2>7
<1>5. \/ UNCHANGED <<dlv, dlq>> \/ Postpone(w) \/ MarkCircuitOpen(w)
      \/ Succeed(w) \/ CommitFailure(w)
  BY DEF TaskStep, CheckCircuit, InsertFailed, Post, LockCircuit, Fail,
         LoadDelivery, Schedule, Send, SendRefused, WorkerDies, enginevars
<1> QED BY <1>1, <1>2, <1>3, <1>4, <1>5

\* What a request does to a delivery that it alone revives, or to any other.
LEMMA ReplayLives ==
  ASSUME TypesInv, Requests, NEW q \in Replays, Replaying(q),
         NEW d \in Deliveries, Safe(d)
  PROVE  (Persists(d) /\ revived'[d] = revived[d]) \/ Revival(d)
<1>1. RequestTypes /\ dlv[d] \in DeliveryRow
  BY DEF TypesInv, ReplayTypeOK, TypeOK, RequestTypes
<1>2. UNCHANGED dlq
  BY DEF Replaying, LoadLetter, CommitLetter, SendLetter, LoadEvent, Requeue,
         CommitEvent, CutShort, vars, enginevars
<1>3. ASSUME dlv'[d] = dlv[d], revived'[d] = revived[d]
      PROVE  Persists(d) /\ revived'[d] = revived[d]
  BY <1>2, <1>3 DEF Persists, Fate, Terminal
<1>4. ASSUME Revives(q, d), qpc[q] # "send",
             dlv'[d] = Revive(dlv[d], held[q][d]), revived'[d] = revived[d] + 1
      PROVE  Revival(d)
  <2>1. dlv[d].status = "dead" /\ held[q][d] = dlv[d]
    BY <1>4 DEF Safe, SoleReplay
  <2>2. dlv'[d].status = "retrying" /\ dlv'[d].retry_count = 0
    BY <1>1, <1>4, <2>1 DEF Revive, DeliveryRow
  <2> QED BY <1>2, <1>4, <2>1, <2>2 DEF Revival, Fate, Terminal
<1>5. CASE CommitLetter(q)
  <2>1. PICK e \in Over(q) : /\ Store(e, Revive(dlv[e], held[q][e]))
                             /\ revived' = [revived EXCEPT ![e] = @ + 1]
    BY <1>5 DEF CommitLetter
  <2>2. CASE d = e
    <3>1. Revives(q, d) /\ qpc[q] # "send"
      BY <1>5, <2>1, <2>2 DEF CommitLetter, Revives, UnderWay
    <3>2. dlv'[d] = Revive(dlv[d], held[q][d]) /\ revived'[d] = revived[d] + 1
      BY <1>1, <2>1, <2>2 DEF Store, RequestTypes
    <3> QED BY <1>4, <3>1, <3>2
  <2>3. CASE d # e
    BY <1>1, <1>3, <2>1, <2>3 DEF Store, RequestTypes
  <2> QED BY <2>2, <2>3
<1>6. CASE CommitEvent(q)
  <2>1. /\ qpc[q] = "requeue"
        /\ dlv'[d] = IF d \in Over(q) THEN Revive(dlv[d], held[q][d]) ELSE dlv[d]
        /\ revived'[d] = revived[d] + IF d \in Over(q) THEN 1 ELSE 0
        /\ revived[d] \in Nat
    BY <1>1, <1>6 DEF CommitEvent, RequestTypes
  <2>2. CASE d \in Over(q)
    BY <1>4, <2>1, <2>2 DEF Revives, UnderWay
  <2>3. CASE d \notin Over(q)
    BY <1>3, <2>1, <2>3
  <2> QED BY <2>2, <2>3
<1>7. CASE UNCHANGED <<dlv, revived>>
  BY <1>3, <1>7
<1> QED
  BY <1>5, <1>6, <1>7
  DEF Replaying, LoadLetter, SendLetter, LoadEvent, Requeue, CutShort, vars,
      enginevars

\* One step of a delivery whose replays have all been proper so far.
LEMMA LivesStep ==
  ASSUME SafeInv, [ReplayNext]_allvars, NEW d \in Deliveries, mishaps'[d] = {}
  PROVE  LivesOn(d) \/ Revival(d)
<1>1. Safe(d)
  BY MishapsStay DEF SafeInv
<1>2. ASSUME Persists(d), revived'[d] = revived[d]
      PROVE  LivesOn(d)
  BY <1>2, LifeSteps DEF LivesOn
<1>3. ASSUME UNCHANGED <<dlv, dlq, revived>>
      PROVE  LivesOn(d)
  BY <1>2, <1>3 DEF Persists, Fate, Terminal
<1>4. ASSUME NEW w \in Workers, UNCHANGED replayvars,
             TaskStep(w) \/ SendRefused(w) \/ WorkerDies(w)
      PROVE  LivesOn(d)
  <2>1. CASE job[w] = d
    BY <1>1, <1>4, <2>1, WorkLives, LifeSteps DEF SafeInv, LivesOn, replayvars
  <2>2. CASE job[w] # d
    BY <1>2, <1>4, <2>2, OthersRest
    DEF SafeInv, Persists, Fate, Terminal, replayvars
  <2> QED BY <2>1, <2>2
<1>5. ASSUME NEW q \in Replays, Replaying(q)
      PROVE  LivesOn(d) \/ Revival(d)
  BY <1>1, <1>2, <1>5, ReplayLives DEF SafeInv
<1>6. \/ \E w \in Workers, e \in Deliveries : WorkerTakes(w, e)
      \/ (TimePasses /\ UNCHANGED replayvars) \/ UNCHANGED allvars
      => UNCHANGED <<dlv, dlq, revived>>
  BY DEF WorkerTakes, Take, TimePasses, enginevars, replayvars, vars, allvars
<1> QED BY <1>3, <1>4, <1>5, <1>6 DEF ReplayNext

\* A delivery whose replays have all been proper lives, however they interleave
\* with the workers, one life after the other: each is a behaviour of the
\* engine's contract (failures counted one by one while it waits, one death, one
\* dead letter more), and only a replay of its death begins the next, with no
\* failure counted.
THEOREM ProperReplaysImplementContract ==
  ReplaySpec =>
    [][\A d \in Deliveries : mishaps'[d] = {} => LivesOn(d) \/ Revival(d)]_allvars
<1>1. SafeInv /\ [ReplayNext]_allvars =>
        [\A d \in Deliveries : mishaps'[d] = {} => LivesOn(d) \/ Revival(d)]_allvars
  BY LivesStep
<1> QED BY <1>1, SafeInitially, SafeStep, PTL DEF ReplaySpec

-----------------------------------------------------------------------------
(* How the attempts of a delivery that was replayed are numbered. *)

AfterPost == {"record", "fail", "failed"}

\* The attempts logged are the failures counted, but for those of an earlier
\* life as long as none has failed in this one.
InStep(d) ==
  logged[d] = dlv[d].retry_count \/ (dlv[d].retry_count = 0 /\ revived[d] > 0)

\* Between its request and the failure's commit a delivery is one attempt ahead.
Numbered(d) ==
  \/ Terminal(d) \/ d \in lost
  \/ IF \E w \in Workers : Holds(w, d) /\ pc[w] \in AfterPost
       THEN logged[d] = dlv[d].retry_count + 1
       ELSE InStep(d)

NumberInv == SafeInv /\ \A d \in Deliveries : mishaps[d] = {} => Numbered(d)

\* The next number, or a new life's first.
NextNumber(d) ==
  /\ logged'[d] = dlv[d].retry_count + 1
  /\ logged'[d] = logged[d] + 1 \/ (dlv[d].retry_count = 0 /\ revived[d] > 0)

\* An attempt gets the next number, and nothing else uses a number up.
Numbers(d) ==
  IF \E w \in Workers : Attempted(w, d) THEN NextNumber(d)
                                        ELSE logged'[d] = logged[d]

LEMMA NumbersFrame ==
  ASSUME NEW d \in Deliveries, Numbered(d), logged'[d] = logged[d],
         Terminal(d) => Terminal(d)', d \in lost => d \in lost',
         dlv'[d].retry_count = dlv[d].retry_count, revived'[d] = revived[d],
         (\E w \in Workers : Holds(w, d)' /\ pc'[w] \in AfterPost)
           <=> \E w \in Workers : Holds(w, d) /\ pc[w] \in AfterPost
  PROVE  Numbered(d)'
BY DEF Numbered, InStep, Holds

\* What a worker logs of the delivery it has to itself.
LEMMA WorkNumbers ==
  ASSUME TypesInv, NEW w \in Workers, UNCHANGED replayvars,
         TaskStep(w) \/ SendRefused(w) \/ WorkerDies(w),
         NEW d \in Deliveries, job[w] = d, Safe(d), Numbered(d)
  PROVE  Numbered(d)' /\ Numbers(d)
<1>0. /\ dlv \in [Deliveries -> DeliveryRow] /\ logged \in [Deliveries -> Nat]
      /\ pc \in [Workers -> EnginePC]
      /\ job \in [Workers -> Deliveries \cup {None}] /\ d # None
      /\ dlv[d] \in DeliveryRow /\ dlv[d].retry_count \in Nat
  BY EngineAssumption DEF TypesInv, ReplayTypeOK, TypeOK, DeliveryRow
<1>1. /\ ~Terminal(d) /\ d \notin lost
      /\ loaded[w] # None => loaded[w] = dlv[d]
      /\ \A v \in Workers : job[v] = d => v = w
      /\ revived'[d] = revived[d]
  BY DEF Safe, Sole, Holds, replayvars
<1>2. IF pc[w] \in AfterPost THEN logged[d] = dlv[d].retry_count + 1
                             ELSE InStep(d)
  BY <1>1 DEF Numbered, Holds
<1>3. ASSUME NEW p \in EnginePC, pc' = [pc EXCEPT ![w] = p],
             job' = job \/ (job' = [job EXCEPT ![w] = None] /\ p \notin AfterPost)
      PROVE  (\E v \in Workers : Holds(v, d)' /\ pc'[v] \in AfterPost)
               <=> p \in AfterPost
  BY <1>0, <1>1, <1>3 DEF Holds
<1>4. ASSUME NEW p \in EnginePC, pc' = [pc EXCEPT ![w] = p],
             p = "record" => pc[w] = "record"
      PROVE  ~\E v \in Workers : Attempted(v, d)
  BY <1>0, <1>4 DEF Attempted
\* It goes on, and logs nothing.
<1>5. ASSUME NEW p \in EnginePC, pc' = [pc EXCEPT ![w] = p],
             job' = job \/ (job' = [job EXCEPT ![w] = None] /\ p \notin AfterPost),
             p \in AfterPost <=> pc[w] \in AfterPost,
             p = "record" => pc[w] = "record",
             dlv'[d].retry_count = dlv[d].retry_count, UNCHANGED logged
      PROVE  Numbered(d)' /\ Numbers(d)
  <2>1. Numbered(d)'
    BY <1>1, <1>2, <1>3, <1>5 DEF Numbered, InStep
  <2> QED BY <1>4, <1>5, <2>1 DEF Numbers
\* It has posted its request.
<1>6. ASSUME LogAttempt(w), pc[w] \notin AfterPost,
             pc' = [pc EXCEPT ![w] = "record"], UNCHANGED <<dlv, job>>
      PROVE  Numbered(d)' /\ Numbers(d)
  <2>1. logged'[d] = dlv[d].retry_count + 1
    BY <1>0, <1>1, <1>6 DEF LogAttempt
  <2>2. \E v \in Workers : Holds(v, d)' /\ pc'[v] \in AfterPost
    BY <1>3, <1>6 DEF AfterPost, EnginePC
  <2>3. Attempted(w, d)
    BY <1>0, <1>6 DEF Attempted, Holds, AfterPost
  <2> QED BY <1>2, <1>6, <2>1, <2>2, <2>3 DEF Numbered, Numbers, NextNumber, InStep
<1>7. CASE \/ CheckCircuit(w) \/ LockCircuit(w) \/ Fail(w) \/ LoadDelivery(w)
           \/ Schedule(w)
  <2>1. PICK p \in EnginePC : /\ pc' = [pc EXCEPT ![w] = p]
                              /\ p \in AfterPost <=> pc[w] \in AfterPost
                              /\ p = "record" => pc[w] = "record"
    BY <1>0, <1>7
    DEF CheckCircuit, LockCircuit, Fail, LoadDelivery, Schedule, Become,
        enginevars, EnginePC, AfterPost
  <2>2. UNCHANGED <<dlv, logged, job>>
    BY <1>7 DEF CheckCircuit, LockCircuit, Fail, LoadDelivery, Schedule, enginevars
  <2> QED BY <1>5, <2>1, <2>2
<1>8. CASE Send(w)
  BY <1>5, <1>8 DEF Send, EndTask, Become, EnginePC, AfterPost
<1>9. CASE Postpone(w) \/ MarkCircuitOpen(w)
  <2> DEFINE row == WaitingForCircuit(dlv[d])
  <2>1. /\ row \in DeliveryRow /\ row.retry_count = dlv[d].retry_count
        /\ row.delivered_at = None
    BY <1>0, <1>1, WaitingRow DEF Safe, Sound, Terminal
  <2>2. Updated(dlv[d], dlv[d], row) = row
    BY <1>0, <1>1, <2>1, UpdatedCurrent DEF Safe, Sound, Terminal
  <2>3. MarkCircuitOpen(w) => loaded[w] # None
    BY DEF MarkCircuitOpen, TypesInv, Prepared
  <2>4. /\ dlv'[d] = row /\ UNCHANGED <<logged, job>>
        /\ pc' = [pc EXCEPT ![w] = "send"] /\ pc[w] \in {"check", "mark"}
    BY <1>0, <1>1, <1>9, <2>2, <2>3 DEF Postpone, MarkCircuitOpen, Store, Become
  <2> HIDE DEF row
  <2> QED BY <1>5, <2>1, <2>4 DEF EnginePC, AfterPost
<1>10. CASE Post(w) \/ (SendRefused(w) /\ ~handler[w])
  BY <1>6, <1>10 DEF Post, SendRefused, Become, AfterPost
<1>11. CASE Succeed(w)
  <2>1. DeliveredRow(dlv[d]).status = "delivered"
    BY <1>0, DoneRow
  <2>2. dlv'[d] = DeliveredRow(dlv[d]) /\ UNCHANGED logged
    BY <1>0, <1>11 DEF Succeed, Store
  <2>3. ~\E v \in Workers : Attempted(v, d)
    BY <1>4, <1>11 DEF Succeed, EndTask, Become, EnginePC
  <2> QED BY <2>1, <2>2, <2>3 DEF Numbered, Terminal, Numbers
<1>12. CASE CommitFailure(w)
  <2> DEFINE new == FailedDelivery(dlv[d], result[w])
  <2>1. result[w] \in FailureTypes /\ loaded[w] = dlv[d]
    BY <1>1, <1>12, EngineAssumption
    DEF CommitFailure, TypesInv, ReplayTypeOK, TypeOK, Prepared, Results
  <2>2. /\ new \in DeliveryRow /\ new.status \in {"dead", "retrying"}
        /\ new.retry_count = dlv[d].retry_count + 1
        /\ new.delivered_at = dlv[d].delivered_at
    BY <1>0, <2>1, FailedDeliveryRow
  <2>3. Updated(dlv[d], dlv[d], new) = new
    BY <1>0, <2>2, UpdatedCurrent
  <2>4. /\ dlv'[d] = new /\ UNCHANGED logged /\ pc[w] = "failed"
        /\ IF new.status = "dead"
             THEN pc' = [pc EXCEPT ![w] = "idle"]
             ELSE pc' = [pc EXCEPT ![w] = "schedule"] /\ UNCHANGED job
    BY <1>0, <1>12, <2>1, <2>3 DEF CommitFailure, EndTask, Store, Become
  <2> HIDE DEF new
  <2>5. CASE new.status = "dead"
    BY <1>4, <2>4, <2>5 DEF Numbered, Terminal, Numbers, EnginePC
  <2>6. CASE new.status # "dead"
    <3>1. ~\E v \in Workers : Holds(v, d)' /\ pc'[v] \in AfterPost
      BY <1>3, <2>4, <2>6 DEF EnginePC, AfterPost
    <3>2. ~\E v \in Workers : Attempted(v, d)
      BY <1>4, <2>4, <2>6 DEF EnginePC
    <3> QED BY <1>2, <2>2, <2>4, <3>1, <3>2 DEF Numbered, Numbers, InStep, AfterPost
  <2> QED BY <2>5, <2>6
<1>13. CASE InsertFailed(w) \/ WorkerDies(w) \/ (SendRefused(w) /\ handler[w])
  <2>1. Numbered(d)' /\ UNCHANGED logged
    BY <1>13 DEF InsertFailed, WorkerDies, SendRefused, Numbered
  <2>2. pc' = [pc EXCEPT ![w] = "idle"]
    BY <1>13 DEF InsertFailed, WorkerDies, SendRefused, EndTask, Become
  <2> QED BY <1>4, <2>1, <2>2 DEF Numbers, EnginePC
<1> QED
  BY <1>7, <1>8, <1>9, <1>10, <1>11, <1>12, <1>13 DEF TaskStep

\* What a worker logs is logged of the delivery it has.
LEMMA OthersNumbers ==
  ASSUME TypesInv, NEW w \in Workers, UNCHANGED replayvars,
         TaskStep(w) \/ SendRefused(w) \/ WorkerDies(w),
         NEW d \in Deliveries, job[w] # d, Numbered(d)
  PROVE  Numbered(d)' /\ Numbers(d)
<1>1. logged'[d] = logged[d]
  BY DEF TaskStep, CheckCircuit, InsertFailed, Postpone, Post, LockCircuit,
         Succeed, Fail, LoadDelivery, CommitFailure, Schedule, MarkCircuitOpen,
         Send, SendRefused, WorkerDies, LogAttempt, enginevars, TypesInv,
         ReplayTypeOK, TypeOK
<1>2. /\ dlv'[d] = dlv[d] /\ (d \in lost' <=> d \in lost)
      /\ \A v \in Workers : job'[v] = d <=> job[v] = d
  BY OthersRest
<1>3. \A v \in Workers : job[v] = d => pc'[v] = pc[v]
  BY OthersKeep DEF TypesInv, ReplayTypeOK
<1>4. \A v \in Workers : ~Attempted(v, d)
  BY <1>3 DEF Attempted, Holds
<1> QED
  BY <1>1, <1>2, <1>3, <1>4, NumbersFrame
  DEF Terminal, Holds, Numbers, replayvars

LEMMA NumbersStep ==
  ASSUME SafeInv, [ReplayNext]_allvars, NEW d \in Deliveries, mishaps'[d] = {},
         Numbered(d)
  PROVE  Numbered(d)' /\ Numbers(d)
<1>1. mishaps[d] = {} /\ Safe(d) /\ TypesInv /\ Requests
  BY MishapsStay DEF SafeInv
<1>2. ASSUME UNCHANGED <<dlv, logged, lost, revived, pc, job>>
      PROVE  Numbered(d)' /\ Numbers(d)
  <2>1. \A v \in Workers : ~Attempted(v, d)
    BY <1>2 DEF Attempted
  <2> QED BY <1>2, <2>1, NumbersFrame DEF Terminal, Holds, Numbers
<1>3. ASSUME NEW w \in Workers, NEW e \in Deliveries, WorkerTakes(w, e)
      PROVE  Numbered(d)' /\ Numbers(d)
  <2>1. /\ job[w] = None /\ d # None /\ pc[w] = "idle"
        /\ job' = [job EXCEPT ![w] = e] /\ pc' = [pc EXCEPT ![w] = "check"]
        /\ UNCHANGED <<dlv, logged, lost, revived>>
    BY <1>1, <1>3, EngineAssumption
    DEF WorkerTakes, Take, Become, TypesInv, Busy
  <2>2. \A v \in Workers : Holds(v, d)' /\ pc'[v] \in AfterPost
                             <=> Holds(v, d) /\ pc[v] \in AfterPost
    BY <1>1, <2>1 DEF Holds, AfterPost, TypesInv, ReplayTypeOK, TypeOK
  <2>3. \A v \in Workers : ~Attempted(v, d)
    BY <1>1, <2>1 DEF Attempted, TypesInv, ReplayTypeOK, TypeOK
  <2> QED BY <2>1, <2>2, <2>3, NumbersFrame DEF Terminal, Numbers
<1>4. ASSUME NEW w \in Workers, UNCHANGED replayvars,
             TaskStep(w) \/ SendRefused(w) \/ WorkerDies(w)
      PROVE  Numbered(d)' /\ Numbers(d)
  BY <1>1, <1>4, WorkNumbers, OthersNumbers
<1>5. ASSUME NEW q \in Replays, Replaying(q)
      PROVE  Numbered(d)' /\ Numbers(d)
  <2>1. UNCHANGED <<logged, lost, pc, job>>
    BY <1>5
    DEF Replaying, LoadLetter, CommitLetter, SendLetter, LoadEvent, Requeue,
        CommitEvent, CutShort, vars, enginevars
  <2> \A v \in Workers : ~Attempted(v, d)
    BY <2>1 DEF Attempted
  <2> Numbers(d)
    BY <2>1 DEF Numbers
  <2>2. CASE Persists(d) /\ revived'[d] = revived[d]
    <3>1. Terminal(d) => Terminal(d)'
      BY <2>2 DEF Persists, Fate, Terminal
    <3> QED BY <2>1, <2>2, <3>1, NumbersFrame DEF Persists, Holds
  <2>3. CASE Revival(d)
    <3>1. Terminal(d)
      BY <2>3 DEF Revival, Fate
    <3>2. ~\E w \in Workers : Holds(w, d)' /\ pc'[w] \in AfterPost
      BY <1>1, <2>1, <3>1 DEF Safe, Sole, Holds
    <3>3. dlv'[d].retry_count = 0 /\ revived'[d] > 0
      BY <1>1, <2>3 DEF Revival, TypesInv, ReplayTypeOK
    <3> QED BY <2>1, <3>2, <3>3 DEF Numbered, InStep
  <2> QED BY <1>1, <1>5, <2>2, <2>3, ReplayLives
<1>6. (TimePasses /\ UNCHANGED replayvars) \/ UNCHANGED allvars
      => Numbered(d)' /\ Numbers(d)
  BY <1>2 DEF TimePasses, enginevars, replayvars, vars, allvars
<1> QED BY <1>3, <1>4, <1>5, <1>6 DEF ReplayNext

\* log_attempt: every attempt of a delivery whose replays have all been proper is
\* logged under the next number, after the failures of its present life, and no
\* number is used otherwise; only the first attempt after a replay goes back, to
\* number 1.
THEOREM ProperReplaysNumberAttempts ==
  ReplaySpec =>
    [][\A d \in Deliveries : mishaps'[d] = {} => Numbers(d)]_allvars
<1>1. ReplayInit => NumberInv
  BY SafeInitially
  DEF NumberInv, ReplayInit, Init, NewDelivery, Numbered, InStep, AfterPost
<1>2. NumberInv /\ [ReplayNext]_allvars => NumberInv'
  BY NumbersStep, MishapsStay, SafeStep DEF NumberInv, SafeInv
<1>3. NumberInv /\ [ReplayNext]_allvars =>
        [\A d \in Deliveries : mishaps'[d] = {} => Numbers(d)]_allvars
  BY NumbersStep, MishapsStay DEF NumberInv, SafeInv
<1> QED BY <1>1, <1>2, <1>3, PTL DEF ReplaySpec

=============================================================================
