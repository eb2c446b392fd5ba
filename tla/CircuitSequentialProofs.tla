----------------------- MODULE CircuitSequentialProofs -----------------------
(***************************************************************************)
(* With one worker, crashes and all, the breaker of CircuitHealth           *)
(* implements CircuitContract, for any number of tenants, any positive      *)
(* threshold, any cooldown and any latencies.                               *)
(*                                                                          *)
(* What one worker brings, and overlapping calls take away (the runs that   *)
(* violate OneProbe, HalfOpenAfterCooldown and StaysOpenUntilProbed), is    *)
(* that a decision still holds when it is acted on: Decided.  The same is   *)
(* proved of WebhookEngine with one worker, whose steps are the breaker's.  *)
(***************************************************************************)
EXTENDS MCCircuitSequential, CircuitHealthProofs, WebhookEngineProofs

OneWorker == \A v, w \in Workers : v = w

\* Every tenant is served by the first row made for the URL.
OneRow == \A q, r \in Existing : q = r

\* What the worker saw of the row still is so.
Decided ==
  \A w \in Workers :
    /\ cpc[w] # "poisoned"
    /\ cpc[w] = "creating" => Existing = {}
    /\ cpc[w] = "half_opening" =>
         rows[tgt[w]].state = "open" /\ CooledDown(rows[tgt[w]])
    /\ cpc[w] \in {"sending", "probing"} =>
         \A r \in Existing : rows[r].state # "open"
    /\ cpc[w] = "ok" => rows[tgt[w]].state # "open"

SequentialInv == OneWorker /\ CircuitInv /\ OneRow /\ Decided

-----------------------------------------------------------------------------
(* The one row. *)

LEMMA RowOf ==
  ASSUME OneRow, NEW t \in Tenants, rows[t] # None
  PROVE  Row = rows[t]
BY DEF Row, OneRow, Existing

\* The row made or written back is the one row.
LEMMA Written ==
  ASSUME OneRow, rows \in [Tenants -> CircuitRow \cup {None}], NEW t \in Tenants,
         rows[t] # None \/ Existing = {}, NEW d, d # None,
         rows' = [rows EXCEPT ![t] = d]
  PROVE  Row' = d /\ OneRow' /\ \A r \in Existing' : rows'[r] = d
<1>1. \A r \in Tenants : r # t => rows'[r] = None
  BY DEF OneRow, Existing
<1>2. rows'[t] = d
  OBVIOUS
<1> QED BY <1>1, <1>2 DEF Row, OneRow, Existing

\* A step of the worker that leaves the row alone.
LEMMA RowStays ==
  ASSUME SequentialInv, CircuitInv', NEW w \in Workers, NEW p, NEW t,
         UNCHANGED <<rows, now>>, GoTo(w, p, t), p # "poisoned",
         p = "creating" => Existing = {},
         p = "half_opening" => rows[t].state = "open" /\ CooledDown(rows[t]),
         p \in {"sending", "probing"} => \A r \in Existing : rows[r].state # "open",
         p = "ok" => rows[t].state # "open"
  PROVE  SequentialInv' /\ UNCHANGED Circuit!vars
<1>1. OneRow' /\ Existing' = Existing
  BY DEF SequentialInv, OneRow, Existing
<1>2. \A v \in Workers : cpc'[v] = p /\ tgt'[v] = t
  BY DEF SequentialInv, OneWorker, CircuitInv, CircuitTypeOK, GoTo
<1>3. Decided'
  BY <1>1, <1>2 DEF Decided, CooledDown
<1>4. UNCHANGED Circuit!vars
  BY DEF Row, Existing, Circuit!vars
<1> QED BY <1>1, <1>3, <1>4 DEF SequentialInv, OneWorker

\* A step of the worker that makes the row or writes it back.
LEMMA RowWritten ==
  ASSUME SequentialInv, CircuitInv', NEW w \in Workers, NEW p, NEW t \in Tenants,
         NEW d \in CircuitRow, NEW u,
         rows[t] # None \/ Existing = {}, rows' = [rows EXCEPT ![t] = d],
         GoTo(w, p, u), p \in {"idle", "created", "probing"},
         p = "probing" => d.state # "open"
  PROVE  SequentialInv' /\ Row' = d
<1>1. d # None
  BY CircuitAssumption
<1>2. Row' = d /\ OneRow' /\ \A r \in Existing' : rows'[r] = d
  BY <1>1, Written DEF SequentialInv, CircuitInv, CircuitTypeOK
<1>3. \A v \in Workers : cpc'[v] = p
  BY DEF SequentialInv, OneWorker, CircuitInv, CircuitTypeOK, GoTo
<1>4. Decided'
  BY <1>2, <1>3 DEF Decided
<1> QED BY <1>2, <1>4 DEF SequentialInv, OneWorker

-----------------------------------------------------------------------------
(* One step for each action: it keeps the invariant, and is a step of the   *)
(* contract or leaves what the contract sees.                               *)

Sound == SequentialInv' /\ [Circuit!Next]_(Circuit!vars)

LEMMA SeqDecide ==
  ASSUME SequentialInv, CircuitInv', NEW w \in Workers, NEW r \in Tenants,
         Decide(w, r)
  PROVE  Sound
<1>1. \A q \in Existing : rows[q] = rows[r]
  BY DEF Decide, SequentialInv, OneRow, Existing
<1>2. UNCHANGED <<rows, now>> /\ rows[r] # None
  BY DEF Decide
<1>3. CASE rows[r].state = "closed" /\ GoTo(w, "sending", None)
  BY <1>1, <1>2, <1>3, RowStays DEF Sound
<1>4. CASE rows[r].state = "half_open" /\ GoTo(w, "probing", None)
  BY <1>1, <1>2, <1>4, RowStays DEF Sound
<1>5. CASE rows[r].state = "open" /\ CooledDown(rows[r]) /\ GoTo(w, "half_opening", r)
  BY <1>2, <1>5, RowStays DEF Sound
<1>6. CASE GoTo(w, "blocked", None)
  BY <1>2, <1>6, RowStays DEF Sound
<1> QED BY <1>3, <1>4, <1>5, <1>6 DEF Decide

LEMMA SeqLookUpMissing ==
  ASSUME SequentialInv, CircuitInv', NEW w \in Workers, NEW t \in Tenants,
         LookUpMissing(w, t)
  PROVE  Sound
BY RowStays DEF LookUpMissing, Sound

\* The INSERT shows the contract what it already assumed.
LEMMA SeqInsert ==
  ASSUME SequentialInv, CircuitInv', NEW w \in Workers, InsertCircuit(w)
  PROVE  Sound
<1>1. tgt[w] \in Tenants /\ Existing = {}
  BY DEF InsertCircuit, At, SequentialInv, Decided, CircuitInv, Targeting
<1>2. /\ rows' = [rows EXCEPT ![tgt[w]] = NewCircuit]
      /\ GoTo(w, "created", tgt[w]) /\ now' = now
  BY <1>1 DEF InsertCircuit, Existing
<1>3. SequentialInv' /\ Row' = NewCircuit
  BY <1>1, <1>2, NewRow, RowWritten
<1>4. Row = NewCircuit
  BY <1>1 DEF Row
<1>5. UNCHANGED Circuit!vars
  BY <1>2, <1>3, <1>4 DEF Circuit!vars
<1> QED BY <1>3, <1>5 DEF Sound

\* The write of half_open: the cooldown that was over when the row was read
\* still is, and the row is still open.
LEMMA SeqHalfOpen ==
  ASSUME SequentialInv, CircuitInv', NEW w \in Workers, HalfOpen(w)
  PROVE  Sound
<1> DEFINE t == tgt[w]
           c == rows[t]
           d == [c EXCEPT !.state = "half_open"]
<1>1. /\ t \in Tenants /\ c # None /\ c \in CircuitRow /\ now \in Nat
      /\ c.state = "open" /\ CooledDown(c)
  BY DEF HalfOpen, At, SequentialInv, Decided, CircuitInv, CircuitTypeOK, Targeting,
         HasRow
<1>2. /\ d \in CircuitRow /\ d.state = "half_open"
      /\ d.failure_count = c.failure_count /\ d.opened_at = c.opened_at
  BY <1>1 DEF CircuitRow
<1>3. Row = c
  BY <1>1, RowOf DEF SequentialInv
<1>4. rows' = [rows EXCEPT ![t] = d] /\ GoTo(w, "probing", None) /\ now' = now
  BY DEF HalfOpen
<1>5. c.opened_at \in Nat /\ now >= c.opened_at + Cooldown
  BY <1>1, CircuitAssumption DEF CooledDown, CircuitRow
<1> HIDE DEF c, d
<1>6. SequentialInv' /\ Row' = d
  BY <1>1, <1>2, <1>4, RowWritten DEF c
<1>7. Circuit!HalfOpen
  BY <1>1, <1>2, <1>3, <1>4, <1>5, <1>6 DEF Circuit!HalfOpen
<1> QED BY <1>6, <1>7 DEF Sound, Circuit!Next

\* A success is recorded only of a request that the circuit let through.
LEMMA SeqLock ==
  ASSUME SequentialInv, CircuitInv', NEW w \in Workers, NEW ok \in BOOLEAN,
         Lock(w, ok)
  PROVE  Sound
<1>1. PICK r \in Existing : GoTo(w, IF ok THEN "ok" ELSE "failed", r)
  BY DEF Lock
<1>2. UNCHANGED <<rows, now>>
  BY DEF Lock
<1>3. ok => rows[r].state # "open"
  BY DEF Lock, At, SequentialInv, Decided
<1> QED BY <1>1, <1>2, <1>3, RowStays DEF Sound

LEMMA SeqSuccess ==
  ASSUME SequentialInv, CircuitInv', NEW w \in Workers, RecordSuccess(w)
  PROVE  Sound
<1> DEFINE t == tgt[w]
           c == rows[t]
           d == Succeeded(c)
<1>1. /\ t \in Tenants /\ c # None /\ c \in CircuitRow /\ snap[w] = c
      /\ c.state # "open"
  BY LoadedRow DEF RecordSuccess, At, SequentialInv, Decided
<1>2. d \in CircuitRow /\ d.state = "closed" /\ d.failure_count = 0 /\ d.opened_at = None
  BY <1>1, CircuitAssumption DEF CircuitRow, Succeeded
<1>3. Row = c
  BY <1>1, RowOf DEF SequentialInv
<1>4. rows' = [rows EXCEPT ![t] = d] /\ GoTo(w, "idle", None) /\ now' = now
  BY <1>1, <1>2, FlushCurrent DEF RecordSuccess
<1> HIDE DEF c, d
<1>5. SequentialInv' /\ Row' = d
  BY <1>1, <1>2, <1>4, RowWritten DEF c
<1>6. Circuit!Succeed
  BY <1>1, <1>2, <1>3, <1>4, <1>5 DEF Circuit!Succeed
<1> QED BY <1>5, <1>6 DEF Sound, Circuit!Next

\* The failure that opens is the one that reaches the threshold exactly,
\* because a closed circuit has seen fewer and each of them was counted.
LEMMA SeqFailure ==
  ASSUME SequentialInv, CircuitInv', NEW w \in Workers, RecordFailure(w)
  PROVE  Sound
<1>1. CASE snap[w].state = "open"
  BY <1>1, RowStays DEF RecordFailure, Sound
<1>2. CASE snap[w].state # "open"
  <2> DEFINE t == tgt[w]
             c == rows[t]
             d == Failed(c, now)
             n == c.failure_count
  <2>1. /\ t \in Tenants /\ c # None /\ c \in CircuitRow /\ snap[w] = c
        /\ c.state # "open" /\ now \in Nat
    BY <1>2, LoadedRow DEF RecordFailure, At, SequentialInv, CircuitInv, CircuitTypeOK
  <2>2. /\ n \in Nat /\ Threshold \in Nat
        /\ c.state \in {"closed", "half_open"}
        /\ c.state = "closed" => n < Threshold
    BY <2>1, CircuitAssumption
    DEF SequentialInv, CircuitInv, RowsSound, NoLostFailure, ThresholdIsExact, CircuitRow
  <2>3. Row = c
    BY <2>1, RowOf DEF SequentialInv
  <2>4. d \in CircuitRow
    BY <2>1, FailedRow
  <2>5. /\ rows' = [rows EXCEPT ![t] = d] /\ GoTo(w, "idle", None)
        /\ now' = now
    BY <1>2, <2>1, <2>4, FlushCurrent DEF RecordFailure
  <2>6. SequentialInv' /\ Row' = d
    <3> HIDE DEF c, d
    <3> QED BY <2>1, <2>4, <2>5, RowWritten DEF c
  <2>7. CASE c.state = "closed" /\ n + 1 < Threshold
    <3>1. d.state = c.state /\ d.failure_count = n + 1 /\ d.opened_at = c.opened_at
      BY <2>1, <2>2, <2>7 DEF Failed
    <3> HIDE DEF c, d, n
    <3>2. Circuit!Tolerate
      BY <2>3, <2>5, <2>6, <2>7, <3>1 DEF Circuit!Tolerate, n
    <3> QED BY <2>6, <3>2 DEF Sound, Circuit!Next
  <2>8. CASE c.state = "half_open" \/ n + 1 = Threshold
    <3>1. d.state = "open" /\ d.failure_count = n + 1 /\ d.opened_at = now
      BY <2>1, <2>2, <2>8 DEF Failed
    <3> HIDE DEF c, d, n
    <3>2. Circuit!Open
      BY <2>2, <2>3, <2>5, <2>6, <2>8, <3>1 DEF Circuit!Open, n
    <3> QED BY <2>6, <3>2 DEF Sound, Circuit!Next
  <2> QED BY <2>2, <2>7, <2>8
<1> QED BY <1>1, <1>2

LEMMA SeqLeave ==
  ASSUME SequentialInv, CircuitInv', NEW w \in Workers, Leave(w) \/ Raise(w) \/ Crash(w)
  PROVE  Sound
BY RowStays DEF Leave, Raise, Crash, Sound

\* A cooldown that is over stays over.
LEMMA SeqTick ==
  ASSUME SequentialInv, CircuitInv', Tick
  PROVE  Sound
<1>1. now \in Nat /\ now' = now + 1 /\ UNCHANGED <<rows, cpc, tgt>>
  BY DEF Tick, SequentialInv, CircuitInv, CircuitTypeOK
<1>2. OneRow' /\ Existing' = Existing /\ Row' = Row
  BY <1>1 DEF SequentialInv, OneRow, Existing, Row
<1>3. ASSUME NEW w \in Workers, cpc[w] = "half_opening"
      PROVE  CooledDown(rows[tgt[w]])'
  <2>1. rows[tgt[w]] \in CircuitRow /\ CooledDown(rows[tgt[w]])
    BY <1>3 DEF SequentialInv, Decided, CircuitInv, CircuitTypeOK, Targeting, HasRow
  <2> QED BY <1>1, <2>1, CircuitAssumption DEF CooledDown, CircuitRow
<1>4. Decided'
  BY <1>1, <1>2, <1>3 DEF SequentialInv, Decided
<1>5. Circuit!Pass
  BY <1>1, <1>2 DEF Circuit!Pass
<1> QED BY <1>2, <1>4, <1>5 DEF Sound, SequentialInv, OneWorker, Circuit!Next

LEMMA SeqStep ==
  ASSUME SequentialInv, CircuitInv', [CircuitNext]_cbvars
  PROVE  Sound
<1>1. CASE UNCHANGED cbvars
  <2>1. UNCHANGED Row /\ UNCHANGED Existing
    BY <1>1 DEF cbvars, Row, Existing
  <2>2. UNCHANGED Circuit!vars
    BY <1>1, <2>1 DEF cbvars, Circuit!vars
  <2>3. OneRow' /\ Decided'
    BY <1>1, <2>1 DEF cbvars, SequentialInv, OneRow, Decided, CooledDown
  <2> QED BY <2>2, <2>3 DEF Sound, SequentialInv, OneWorker
<1>2. ASSUME NEW w \in Workers, CircuitStep(w)
      PROVE  Sound
  <2>1. CASE ReadCreated(w)
    <3>1. tgt[w] \in Tenants
      BY <2>1 DEF ReadCreated, At, SequentialInv, CircuitInv, Targeting, HasRow
    <3> QED BY <2>1, <3>1, SeqDecide DEF ReadCreated
  <2> QED
    BY <1>2, <2>1, SeqDecide, SeqLookUpMissing, SeqInsert, SeqHalfOpen, SeqLock,
       SeqSuccess, SeqFailure, SeqLeave
    DEF CircuitStep, LookUp
<1> QED BY <1>1, <1>2, SeqTick DEF CircuitNext

\* One worker at a time walks the documented state machine: it opens at the
\* failure that reaches the threshold and at no other, probes only after the
\* cooldown, and leaves half_open by the probe's result, whatever requests
\* raise, crash or wait in between.
THEOREM OneWorkerKeepsContract == OneWorker /\ HealthSpec => SequentialContract
<1>1. OneWorker /\ HealthInit => SequentialInv /\ Circuit!Init
  <2> SUFFICES ASSUME OneWorker, HealthInit
               PROVE  SequentialInv /\ Circuit!Init
    OBVIOUS
  <2>1. CircuitInv /\ Existing = {} /\ \A w \in Workers : cpc[w] = "idle"
    BY InitInv DEF HealthInit, CircuitInit, CircuitAtRest, Existing
  <2>2. Row = NewCircuit /\ now = 0
    BY <2>1 DEF Row, HealthInit, CircuitInit, CircuitAtRest
  <2> QED
    BY <2>1, <2>2 DEF SequentialInv, OneRow, Decided, NewCircuit, Circuit!Init
<1>2. SequentialInv /\ [HealthNext]_healthvars
        => SequentialInv' /\ [Circuit!Next]_(Circuit!vars)
  <2> SUFFICES ASSUME SequentialInv, [HealthNext]_healthvars
               PROVE  Sound
    BY DEF Sound
  <2>1. [CircuitNext]_cbvars
    BY DEF HealthNext, CountedStep, CircuitNext, CircuitStep, healthvars
  <2>2. CircuitInv'
    BY <2>1, StepInv DEF SequentialInv
  <2> QED BY <2>1, <2>2, SeqStep
<1> QED
  BY <1>1, <1>2, PTL DEF HealthSpec, SequentialContract, Circuit!Spec

\* The same of the engine: with one worker thread its tasks, retries and faults,
\* for any number of deliveries and tenants of the URL, walk the documented state
\* machine, whether the circuit's first row is already there or not.
THEOREM OneWorkerEngineKeepsContract == OneWorker /\ Spec => SequentialContract
<1>1. OneWorker /\ Init => SequentialInv /\ Circuit!Init
  <2> SUFFICES ASSUME OneWorker, Init
               PROVE  SequentialInv /\ Circuit!Init
    OBVIOUS
  <2>1. CircuitInv /\ \A w \in Workers : cpc[w] = "idle"
    BY EngineInit DEF EngineInv, Init, CircuitAtRest
  <2>2. OneRow /\ \A r \in Existing : rows[r] = NewCircuit
    BY DEF OneRow, Init, Existing
  <2>3. Row = NewCircuit
    BY <2>2 DEF Row, Existing
  <2> QED
    BY <2>1, <2>2, <2>3
    DEF SequentialInv, Decided, NewCircuit, Circuit!Init, Init, CircuitAtRest
<1>2. EngineInv /\ SequentialInv /\ [Next]_vars
        => SequentialInv' /\ [Circuit!Next]_(Circuit!vars)
  <2> SUFFICES ASSUME EngineInv, SequentialInv, [Next]_vars
               PROVE  Sound
    BY DEF Sound
  <2>1. [CircuitNext]_cbvars
    BY EngineCircuit DEF EngineInv, Carrying, Busy
  <2>2. CircuitInv'
    BY <2>1, StepInv DEF SequentialInv
  <2> QED BY <2>1, <2>2, SeqStep
<1> QED
  BY <1>1, <1>2, EngineInvariant, PTL DEF Spec, SequentialContract, Circuit!Spec

=============================================================================
