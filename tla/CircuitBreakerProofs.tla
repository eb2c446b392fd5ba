------------------------ MODULE CircuitBreakerProofs ------------------------
(***************************************************************************)
(* Theorems of CircuitBreaker, for any number of workers and tenants, any   *)
(* positive threshold and any cooldown.                                     *)
(*                                                                          *)
(* None of the safety properties is inductive alone: that no failure is     *)
(* lost needs the loaded row to be the current one (Loaded), which needs    *)
(* the row lock to exclude the other writers (LockOwners), the unlocked     *)
(* half_open writer among them.                                             *)
(***************************************************************************)
EXTENDS CircuitBreaker, TLAPS

HasRow == {"created", "half_opening", "ok", "failed", "holding"}
HasLock == {"ok", "failed", "holding"}

Targeting ==
  \A w \in Workers :
    /\ cpc[w] \in HasRow \cup {"creating"} => tgt[w] \in Tenants
    /\ cpc[w] \in HasRow => rows[tgt[w]] # None

LockOwners ==
  \A r \in Tenants, w \in Workers :
    lock[r] = w <=> cpc[w] \in HasLock /\ tgt[w] = r

Loaded ==
  \A w \in Workers : cpc[w] \in HasLock => snap[w] = rows[tgt[w]]

FreshStreak == \A r \in Tenants : rows[r] = None => streak[r] = 0

\* The three safety properties and FreshStreak: what holds of each row.
RowsSound ==
  FreshStreak /\ NoLostFailure /\ ThresholdIsExact /\ OpenIsStamped

CircuitInv ==
  /\ CircuitTypeOK
  /\ Targeting
  /\ LockOwners
  /\ Loaded
  /\ RowsSound

-----------------------------------------------------------------------------
(* Lemmas about the row operators. *)

\* A row written back over the row it was loaded from is the new row
\* (the ORM's column-wise UPDATE, under the lock).
LEMMA FlushCurrent ==
  ASSUME NEW c \in CircuitRow, NEW d \in CircuitRow
  PROVE  Flush(c, c, d) = d
  BY DEF Flush, CircuitRow

\* record_failure: the row it writes is a row, counts one failure more, opens
\* with the time, and stays closed only below the threshold.
LEMMA FailedRow ==
  ASSUME NEW c \in CircuitRow, NEW t \in Nat, c.state # "open"
  PROVE  /\ Failed(c, t) \in CircuitRow
         /\ Failed(c, t).failure_count = c.failure_count + 1
         /\ Failed(c, t).state = "open" => Failed(c, t).opened_at = t
         /\ Failed(c, t).state = "closed"
              => Failed(c, t).failure_count < Threshold
  BY CircuitAssumption DEF Failed, CircuitRow

\* record_success: the row it writes is a closed row without failures.
LEMMA SucceededRow ==
  ASSUME NEW c \in CircuitRow
  PROVE  /\ Succeeded(c) \in CircuitRow
         /\ Succeeded(c).failure_count = 0
         /\ Succeeded(c).state = "closed"
  BY CircuitAssumption DEF Succeeded, CircuitRow

LEMMA NewRow ==
  /\ NewCircuit \in CircuitRow
  /\ NewCircuit.failure_count = 0
  /\ NewCircuit.state = "closed"
  BY CircuitAssumption DEF NewCircuit, CircuitRow
-----------------------------------------------------------------------------
(* The invariant is inductive: one step for each action, and under it one   *)
(* for each conjunct the action can disturb.                                *)

LEMMA InitInv == CircuitInit => CircuitInv
  BY CircuitAssumption
  DEF CircuitInit, CircuitAtRest, CircuitInv, CircuitTypeOK, Targeting, LockOwners, Loaded,
      RowsSound, FreshStreak, NoLostFailure, ThresholdIsExact, OpenIsStamped,
      CircuitPC, HasRow, HasLock

\* Steps of w that only move it between places where it holds neither a lock
\* nor a loaded row.
LEMMA MoveInv ==
  ASSUME CircuitInv, NEW w \in Workers,
         cpc[w] \notin HasLock,
         NEW pc \in CircuitPC \ HasLock, NEW t \in Tenants \cup {None},
         pc = "creating" => t \in Tenants,
         pc \in HasRow => t \in Tenants /\ rows[t] # None,
         GoTo(w, pc, t),
         UNCHANGED <<rows, lock, now, snap, streak>>
  PROVE  CircuitInv'
<1>1. CircuitTypeOK'
  BY DEF CircuitInv, CircuitTypeOK, GoTo
<1>2. Targeting'
  BY DEF CircuitInv, CircuitTypeOK, Targeting, GoTo, HasRow
<1>3. LockOwners'
  BY DEF CircuitInv, CircuitTypeOK, LockOwners, GoTo, HasLock
<1>4. Loaded'
  BY DEF CircuitInv, CircuitTypeOK, Loaded, GoTo, HasLock
<1>5. RowsSound'
  BY DEF CircuitInv, RowsSound, FreshStreak, NoLostFailure, ThresholdIsExact,
         OpenIsStamped
<1> QED BY <1>1, <1>2, <1>3, <1>4, <1>5 DEF CircuitInv

LEMMA DecideInv ==
  ASSUME CircuitInv, NEW w \in Workers, cpc[w] \notin HasLock,
         NEW r \in Tenants, Decide(w, r)
  PROVE  CircuitInv'
<1> USE DEF Decide
<1>1. CASE GoTo(w, "sending", None)
  BY <1>1, MoveInv DEF CircuitPC, HasLock, HasRow
<1>2. CASE GoTo(w, "probing", None)
  BY <1>2, MoveInv DEF CircuitPC, HasLock, HasRow
<1>3. CASE GoTo(w, "half_opening", r)
  BY <1>3, MoveInv DEF CircuitPC, HasLock, HasRow
<1>4. CASE GoTo(w, "blocked", None)
  BY <1>4, MoveInv DEF CircuitPC, HasLock, HasRow
<1> QED BY <1>1, <1>2, <1>3, <1>4

\* The end of a transaction that changes no row, its lock released.
LEMMA EndInv ==
  ASSUME CircuitInv, NEW w \in Workers,
         EndTransaction(w), GoTo(w, "idle", None),
         UNCHANGED <<rows, now, streak>>
  PROVE  CircuitInv'
<1>1. CircuitTypeOK'
  BY DEF CircuitInv, CircuitTypeOK, GoTo, EndTransaction, CircuitPC
<1>2. Targeting'
  BY DEF CircuitInv, CircuitTypeOK, Targeting, GoTo, HasRow
<1>3. LockOwners'
  <2> SUFFICES ASSUME NEW r \in Tenants, NEW v \in Workers
               PROVE  lock'[r] = v <=> cpc'[v] \in HasLock /\ tgt'[v] = r
    BY DEF LockOwners
  <2>1. lock[r] = v <=> cpc[v] \in HasLock /\ tgt[v] = r
    BY DEF CircuitInv, LockOwners
  <2> QED
    BY <2>1, CircuitAssumption
    DEF CircuitInv, CircuitTypeOK, GoTo, EndTransaction, HasLock
<1>4. Loaded'
  BY DEF CircuitInv, CircuitTypeOK, Loaded, GoTo, EndTransaction, HasLock
<1>5. RowsSound'
  BY DEF CircuitInv, RowsSound, FreshStreak, NoLostFailure, ThresholdIsExact,
         OpenIsStamped
<1> QED BY <1>1, <1>2, <1>3, <1>4, <1>5 DEF CircuitInv

LEMMA InsertInv ==
  ASSUME CircuitInv, NEW w \in Workers, InsertCircuit(w)
  PROVE  CircuitInv'
<1> DEFINE t == tgt[w]
<1>0. t \in Tenants /\ cpc[w] \notin HasLock
  BY DEF CircuitInv, Targeting, InsertCircuit, At, HasLock
<1>1. CASE rows[t] # None
  <2>1. GoTo(w, "poisoned", None) /\ UNCHANGED <<rows, lock, now, snap, streak>>
    BY <1>1 DEF InsertCircuit
  <2> QED BY <1>0, <2>1, MoveInv DEF CircuitPC, HasLock, HasRow
<1>2. CASE rows[t] = None
  <2>1. /\ rows' = [rows EXCEPT ![t] = NewCircuit]
        /\ GoTo(w, "created", t)
        /\ UNCHANGED <<lock, now, snap, streak>>
    BY <1>2 DEF InsertCircuit
  <2>2. CircuitTypeOK'
    BY <1>0, <2>1, NewRow DEF CircuitInv, CircuitTypeOK, GoTo, CircuitPC
  <2>3. Targeting'
    BY <1>0, <2>1, NewRow, CircuitAssumption
    DEF CircuitInv, CircuitTypeOK, Targeting, GoTo, HasRow
  <2>4. LockOwners'
    BY <1>0, <2>1 DEF CircuitInv, CircuitTypeOK, LockOwners, GoTo, HasLock
  <2>5. Loaded'
    BY <1>0, <1>2, <2>1
    DEF CircuitInv, CircuitTypeOK, Loaded, Targeting, GoTo, HasLock, HasRow
  <2>6. streak[t] = 0
    BY <1>0, <1>2 DEF CircuitInv, RowsSound, FreshStreak
  <2>7. RowsSound'
    BY <1>0, <2>1, <2>6, NewRow, CircuitAssumption
    DEF CircuitInv, CircuitTypeOK, RowsSound, FreshStreak, NoLostFailure,
        ThresholdIsExact, OpenIsStamped
  <2> QED BY <2>2, <2>3, <2>4, <2>5, <2>7 DEF CircuitInv
<1> QED BY <1>1, <1>2

\* The write of half_open leaves failure_count and opened_at as they are, and
\* no worker has the row locked.
LEMMA HalfOpenInv ==
  ASSUME CircuitInv, NEW w \in Workers, HalfOpen(w)
  PROVE  CircuitInv'
<1> DEFINE t == tgt[w]
           c == [rows[t] EXCEPT !.state = "half_open"]
<1>1. /\ t \in Tenants /\ rows[t] # None /\ lock[t] = None
      /\ cpc[w] = "half_opening"
  BY DEF CircuitInv, Targeting, HalfOpen, At, HasRow
<1>2. rows[t] \in CircuitRow
  BY <1>1 DEF CircuitInv, CircuitTypeOK
<1>3. /\ c \in CircuitRow /\ c.state = "half_open" /\ c # None
      /\ c.failure_count = rows[t].failure_count
  BY <1>2, CircuitAssumption DEF CircuitRow
<1>4. /\ rows' = [rows EXCEPT ![t] = c]
      /\ GoTo(w, "probing", None)
      /\ UNCHANGED <<lock, now, snap, streak>>
  BY DEF HalfOpen
<1>5. CircuitTypeOK'
  BY <1>1, <1>3, <1>4 DEF CircuitInv, CircuitTypeOK, GoTo, CircuitPC
<1>6. Targeting'
  BY <1>1, <1>3, <1>4 DEF CircuitInv, CircuitTypeOK, Targeting, GoTo, HasRow
<1>7. LockOwners'
  BY <1>1, <1>4 DEF CircuitInv, CircuitTypeOK, LockOwners, GoTo, HasLock
<1>8. Loaded'
  <2> SUFFICES ASSUME NEW v \in Workers, cpc'[v] \in HasLock
               PROVE  snap'[v] = rows'[tgt'[v]]
    BY DEF Loaded
  <2>1. v # w /\ cpc[v] \in HasLock /\ tgt'[v] = tgt[v]
    BY <1>4 DEF CircuitInv, CircuitTypeOK, GoTo, HasLock
  <2>2. tgt[v] \in Tenants /\ lock[tgt[v]] = v /\ snap[v] = rows[tgt[v]]
    BY <2>1 DEF CircuitInv, Targeting, LockOwners, Loaded, HasLock, HasRow
  <2>3. tgt[v] # t
    BY <1>1, <2>2, CircuitAssumption
  <2> QED BY <1>1, <1>4, <2>1, <2>2, <2>3 DEF CircuitInv, CircuitTypeOK
<1>9. RowsSound'
  BY <1>1, <1>3, <1>4
  DEF CircuitInv, CircuitTypeOK, RowsSound, FreshStreak, NoLostFailure,
      ThresholdIsExact, OpenIsStamped
<1> QED BY <1>5, <1>6, <1>7, <1>8, <1>9 DEF CircuitInv

LEMMA LockInv ==
  ASSUME CircuitInv, NEW w \in Workers, NEW ok \in BOOLEAN, Lock(w, ok)
  PROVE  CircuitInv'
<1>1. PICK r \in Existing : /\ lock[r] = None
                            /\ lock' = [lock EXCEPT ![r] = w]
                            /\ snap' = [snap EXCEPT ![w] = rows[r]]
                            /\ GoTo(w, IF ok THEN "ok" ELSE "failed", r)
  BY DEF Lock
<1>2. /\ r \in Tenants /\ rows[r] # None /\ rows[r] \in CircuitRow
      /\ UNCHANGED <<rows, now, streak>>
  BY <1>1 DEF Existing, Lock, CircuitInv, CircuitTypeOK
<1>3. cpc[w] \notin HasLock
  BY DEF Lock, At, HasLock
<1>4. CircuitTypeOK'
  BY <1>1, <1>2 DEF CircuitInv, CircuitTypeOK, GoTo, CircuitPC
<1>5. Targeting'
  BY <1>1, <1>2 DEF CircuitInv, CircuitTypeOK, Targeting, GoTo, HasRow
<1>6. LockOwners'
  <2> SUFFICES ASSUME NEW q \in Tenants, NEW v \in Workers
               PROVE  lock'[q] = v <=> cpc'[v] \in HasLock /\ tgt'[v] = q
    BY DEF LockOwners
  <2>1. lock[q] = v <=> cpc[v] \in HasLock /\ tgt[v] = q
    BY DEF CircuitInv, LockOwners
  <2> QED
    BY <1>1, <1>2, <1>3, <2>1, CircuitAssumption
    DEF CircuitInv, CircuitTypeOK, GoTo, HasLock
<1>7. Loaded'
  BY <1>1, <1>2 DEF CircuitInv, CircuitTypeOK, Loaded, GoTo
<1>8. RowsSound'
  BY <1>2 DEF CircuitInv, RowsSound, FreshStreak, NoLostFailure,
              ThresholdIsExact, OpenIsStamped
<1> QED BY <1>4, <1>5, <1>6, <1>7, <1>8 DEF CircuitInv

\* A commit of row d with streak n under the lock of w, d being sound.
LEMMA CommitInv ==
  ASSUME CircuitInv, NEW w \in Workers, cpc[w] \in {"ok", "failed"},
         NEW d \in CircuitRow, NEW n \in Nat,
         d.failure_count = n,
         d.state = "closed" => n < Threshold,
         d.state = "open" => /\ d.opened_at # None
                             /\ d.opened_at <= now
                             /\ n > 0,
         rows' = [rows EXCEPT ![tgt[w]] = d],
         streak' = [streak EXCEPT ![tgt[w]] = n],
         EndTransaction(w), GoTo(w, "idle", None), UNCHANGED now
  PROVE  CircuitInv'
<1> DEFINE t == tgt[w]
<1>1. t \in Tenants /\ rows[t] # None /\ lock[t] = w /\ d # None
  BY CircuitAssumption
  DEF CircuitInv, Targeting, LockOwners, HasRow, HasLock
<1>2. CircuitTypeOK'
  BY <1>1 DEF CircuitInv, CircuitTypeOK, GoTo, EndTransaction, CircuitPC
<1>3. Targeting'
  BY <1>1 DEF CircuitInv, CircuitTypeOK, Targeting, GoTo, HasRow
<1>4. LockOwners'
  <2> SUFFICES ASSUME NEW q \in Tenants, NEW v \in Workers
               PROVE  lock'[q] = v <=> cpc'[v] \in HasLock /\ tgt'[v] = q
    BY DEF LockOwners
  <2>1. lock[q] = v <=> cpc[v] \in HasLock /\ tgt[v] = q
    BY DEF CircuitInv, LockOwners
  <2> QED
    BY <2>1, CircuitAssumption
    DEF CircuitInv, CircuitTypeOK, GoTo, EndTransaction, HasLock
<1>5. Loaded'
  <2> SUFFICES ASSUME NEW v \in Workers, cpc'[v] \in HasLock
               PROVE  snap'[v] = rows'[tgt'[v]]
    BY DEF Loaded
  <2>1. /\ v # w /\ cpc[v] \in HasLock
        /\ tgt'[v] = tgt[v] /\ snap'[v] = snap[v]
    BY DEF CircuitInv, CircuitTypeOK, GoTo, EndTransaction, HasLock
  <2>2. tgt[v] \in Tenants /\ lock[tgt[v]] = v /\ snap[v] = rows[tgt[v]]
    BY <2>1 DEF CircuitInv, Targeting, LockOwners, Loaded, HasLock, HasRow
  <2> QED BY <1>1, <2>1, <2>2 DEF CircuitInv, CircuitTypeOK
<1>6. RowsSound'
  BY <1>1 DEF CircuitInv, CircuitTypeOK, RowsSound, FreshStreak, NoLostFailure,
              ThresholdIsExact, OpenIsStamped
<1> QED BY <1>2, <1>3, <1>4, <1>5, <1>6 DEF CircuitInv

\* Under its lock a worker holds the current row.
LEMMA LoadedRow ==
  ASSUME CircuitInv, NEW w \in Workers, cpc[w] \in {"ok", "failed"}
  PROVE  /\ tgt[w] \in Tenants
         /\ rows[tgt[w]] # None
         /\ snap[w] = rows[tgt[w]]
         /\ snap[w] \in CircuitRow
  BY DEF CircuitInv, CircuitTypeOK, Targeting, Loaded, HasRow, HasLock

LEMMA RecordSuccessInv ==
  ASSUME CircuitInv, NEW w \in Workers, RecordSuccess(w)
  PROVE  CircuitInv'
<1> DEFINE d == Succeeded(snap[w])
<1>1. cpc[w] \in {"ok", "failed"}
  BY DEF RecordSuccess, At
<1>2. /\ d \in CircuitRow /\ d.failure_count = 0 /\ d.state = "closed"
      /\ Flush(rows[tgt[w]], snap[w], d) = d
  BY <1>1, LoadedRow, SucceededRow, FlushCurrent
<1>3. /\ rows' = [rows EXCEPT ![tgt[w]] = d]
      /\ streak' = [streak EXCEPT ![tgt[w]] = 0]
      /\ EndTransaction(w) /\ GoTo(w, "idle", None) /\ UNCHANGED now
  BY <1>2 DEF RecordSuccess
<1>4. 0 < Threshold /\ 0 \in Nat
  BY CircuitAssumption
<1> HIDE DEF d
<1> QED BY <1>1, <1>2, <1>3, <1>4, CommitInv

LEMMA RecordFailureInv ==
  ASSUME CircuitInv, NEW w \in Workers, RecordFailure(w)
  PROVE  CircuitInv'
<1> DEFINE t == tgt[w]
           n == streak[t] + 1
           d == Failed(snap[w], now)
<1>1. cpc[w] = "failed"
  BY DEF RecordFailure, At
<1>2. CASE snap[w].state = "open"
  <2>1. GoTo(w, "holding", t) /\ UNCHANGED <<rows, lock, now, snap, streak>>
    BY <1>2 DEF RecordFailure
  <2>2. t \in Tenants /\ rows[t] # None
    BY <1>1, LoadedRow
  <2>3. CircuitTypeOK'
    BY <2>1, <2>2 DEF CircuitInv, CircuitTypeOK, GoTo, CircuitPC
  <2>4. Targeting' /\ LockOwners' /\ Loaded'
    BY <1>1, <2>1, <2>2
    DEF CircuitInv, CircuitTypeOK, Targeting, LockOwners, Loaded, GoTo,
        HasLock, HasRow
  <2>5. RowsSound'
    BY <2>1 DEF CircuitInv, RowsSound, FreshStreak, NoLostFailure,
                ThresholdIsExact, OpenIsStamped
  <2> QED BY <2>3, <2>4, <2>5 DEF CircuitInv
<1>3. CASE snap[w].state # "open"
  <2>1. /\ t \in Tenants /\ rows[t] # None
        /\ snap[w] = rows[t] /\ snap[w] \in CircuitRow
    BY <1>1, LoadedRow
  <2>2. streak[t] \in Nat /\ now \in Nat /\ snap[w].failure_count = streak[t]
    BY <2>1 DEF CircuitInv, CircuitTypeOK, RowsSound, NoLostFailure
  <2>3. /\ d \in CircuitRow
        /\ d.failure_count = n
        /\ d.state = "open" => d.opened_at = now
        /\ d.state = "closed" => n < Threshold
    BY <1>3, <2>1, <2>2, FailedRow
  <2>4. Flush(rows[t], snap[w], d) = d
    BY <2>1, <2>3, FlushCurrent
  <2>5. /\ rows' = [rows EXCEPT ![t] = d]
        /\ streak' = [streak EXCEPT ![t] = n]
        /\ EndTransaction(w) /\ GoTo(w, "idle", None) /\ UNCHANGED now
    BY <1>3, <2>4 DEF RecordFailure
  <2>6. /\ n \in Nat /\ n > 0
        /\ d.state = "open" => d.opened_at # None /\ d.opened_at <= now
    BY <2>2, <2>3, CircuitAssumption
  <2> HIDE DEF d, n
  <2> QED BY <1>1, <2>3, <2>5, <2>6, CommitInv
<1> QED BY <1>2, <1>3

LEMMA StepInv == CircuitInv /\ [CircuitNext]_cbvars => CircuitInv'
<1> SUFFICES ASSUME CircuitInv, [CircuitNext]_cbvars
             PROVE  CircuitInv'
  OBVIOUS
<1>1. CASE Tick
  BY <1>1 DEF Tick, CircuitInv, CircuitTypeOK, Targeting, LockOwners, Loaded,
              RowsSound, FreshStreak, NoLostFailure, ThresholdIsExact,
              OpenIsStamped, CircuitRow
<1>2. ASSUME NEW w \in Workers, CircuitStep(w)
      PROVE  CircuitInv'
  <2>1. CASE LookUp(w)
    BY <2>1, DecideInv DEF LookUp, At, HasLock
  <2>2. ASSUME NEW t \in Tenants, LookUpMissing(w, t)
        PROVE  CircuitInv'
    BY <2>2, MoveInv DEF LookUpMissing, At, HasLock, HasRow, CircuitPC
  <2>3. CASE InsertCircuit(w)
    BY <2>3, InsertInv
  <2>4. CASE ReadCreated(w)
    <3>1. tgt[w] \in Tenants /\ cpc[w] \notin HasLock
      BY <2>4 DEF ReadCreated, At, CircuitInv, Targeting, HasLock, HasRow
    <3> QED BY <2>4, <3>1, DecideInv DEF ReadCreated
  <2>5. CASE HalfOpen(w)
    BY <2>5, HalfOpenInv
  <2>6. ASSUME NEW ok \in BOOLEAN, Lock(w, ok)
        PROVE  CircuitInv'
    BY <2>6, LockInv
  <2>7. CASE RecordSuccess(w)
    BY <2>7, RecordSuccessInv
  <2>8. CASE RecordFailure(w)
    BY <2>8, RecordFailureInv
  <2>9. CASE Leave(w)
    BY <2>9, EndInv DEF Leave
  <2>10. CASE Raise(w)
    BY <2>10, MoveInv DEF Raise, At, HasLock, HasRow, CircuitPC
  <2>11. CASE Crash(w)
    BY <2>11, EndInv DEF Crash
  <2> QED
    BY <1>2, <2>1, <2>2, <2>3, <2>4, <2>5, <2>6, <2>7, <2>8, <2>9, <2>10, <2>11
    DEF CircuitStep
<1>3. CASE UNCHANGED cbvars
  BY <1>3 DEF cbvars, CircuitInv, CircuitTypeOK, Targeting, LockOwners, Loaded,
              RowsSound, FreshStreak, NoLostFailure, ThresholdIsExact,
              OpenIsStamped
<1> QED BY <1>1, <1>2, <1>3 DEF CircuitNext

-----------------------------------------------------------------------------
(* The theorems. *)

\* The inductive invariant holds in every reachable state of the breaker.
THEOREM CircuitInvariant == CircuitSpec => []CircuitInv
  BY InitInv, StepInv, PTL DEF CircuitSpec

\* Every variable keeps its type.
THEOREM CircuitTypeCorrect == CircuitSpec => []CircuitTypeOK
  BY CircuitInvariant, PTL DEF CircuitInv

\* failure_count is the number of failures since the last success, for any
\* number of workers failing at once (record_failure, record_success).
THEOREM FailuresAreCounted == CircuitSpec => []NoLostFailure
<1>1. CircuitInv => NoLostFailure
  BY DEF CircuitInv, RowsSound
<1> QED BY <1>1, CircuitInvariant, PTL

\* A circuit that lets every request through has seen fewer failures in a row
\* than its threshold (record_failure).
THEOREM ThresholdHolds == CircuitSpec => []ThresholdIsExact
<1>1. CircuitInv => ThresholdIsExact
  BY DEF CircuitInv, RowsSound
<1> QED BY <1>1, CircuitInvariant, PTL

\* An open circuit knows when it opened: the branch of should_allow_request
\* that would block an endpoint for ever is never taken.
THEOREM OpenCircuitsEnd == CircuitSpec => []OpenIsStamped
<1>1. CircuitInv => OpenIsStamped
  BY DEF CircuitInv, RowsSound
<1> QED BY <1>1, CircuitInvariant, PTL

\* The row a worker works on is the committed one until its own commit
\* (SELECT FOR UPDATE), half_open writes included.
THEOREM LockProtectsRow == CircuitSpec => []LockedRowIsCurrent
<1>1. CircuitInv => LockedRowIsCurrent
  BY DEF CircuitInv, LockedRowIsCurrent, Loaded, LockOwners, Targeting, HasLock,
         HasRow
<1> QED BY <1>1, CircuitInvariant, PTL

-----------------------------------------------------------------------------
(* What any number of workers make of the documented state machine. *)

\* What a step may do to an existing row: as in CircuitContract, except that
\* half_open may be written over any row and a success may close any.
Transition(r) ==
  LET c == rows[r]
      d == rows'[r]
  IN  \/ d = c
      \/ d = [c EXCEPT !.state = "half_open"]
      \/ d = NewCircuit
      \/ /\ c.state = "closed" /\ c.failure_count + 1 < Threshold
         /\ d = [c EXCEPT !.failure_count = c.failure_count + 1]
      \/ /\ \/ c.state = "half_open"
            \/ c.state = "closed" /\ c.failure_count + 1 = Threshold
         /\ d = [state |-> "open", failure_count |-> c.failure_count + 1,
                 opened_at |-> now]

\* record_failure writes one of the last two.
LEMMA FailureTransition ==
  ASSUME CircuitInv, NEW w \in Workers, RecordFailure(w), NEW r \in Tenants,
         rows'[r] # rows[r]
  PROVE  Transition(r)
<1> DEFINE c == rows[r]
           d == Failed(c, now)
<1>1. /\ r = tgt[w] /\ snap[w] = c /\ c \in CircuitRow /\ c.state # "open"
      /\ c # None /\ rows'[r] = Flush(c, c, d)
  <2>1. cpc[w] = "failed" /\ snap[w].state # "open"
    BY DEF RecordFailure, At
  <2>2. tgt[w] \in Tenants /\ snap[w] = rows[tgt[w]] /\ snap[w] \in CircuitRow
        /\ rows[tgt[w]] # None
    BY <2>1, LoadedRow
  <2>3. rows' = [rows EXCEPT ![tgt[w]] = Flush(rows[tgt[w]], snap[w], Failed(snap[w], now))]
    BY <2>1 DEF RecordFailure
  <2>4. r = tgt[w]
    BY <2>3 DEF CircuitInv, CircuitTypeOK
  <2> QED BY <2>1, <2>2, <2>3, <2>4 DEF CircuitInv, CircuitTypeOK
<1>2. /\ c.failure_count \in Nat /\ Threshold \in Nat /\ now \in Nat
      /\ c.state = "closed" => c.failure_count < Threshold
  BY <1>1, CircuitAssumption
  DEF CircuitInv, CircuitTypeOK, CircuitRow, RowsSound, NoLostFailure, ThresholdIsExact
<1>3. rows'[r] = d
  BY <1>1, <1>2, FailedRow, FlushCurrent
<1>4. CASE c.state = "closed" /\ c.failure_count + 1 < Threshold
  BY <1>1, <1>2, <1>3, <1>4 DEF Transition, Failed, CircuitRow
<1>5. CASE c.state = "half_open" \/ c.failure_count + 1 = Threshold
  <2>1. c.state \in {"closed", "half_open"}
    BY <1>1 DEF CircuitRow
  <2>2. d = [state |-> "open", failure_count |-> c.failure_count + 1, opened_at |-> now]
    BY <1>2, <1>5 DEF Failed
  <2> QED BY <1>3, <1>5, <2>1, <2>2 DEF Transition
<1> QED BY <1>1, <1>2, <1>4, <1>5 DEF CircuitRow

LEMMA RowTransition ==
  ASSUME CircuitInv, [CircuitNext]_cbvars, NEW r \in Tenants, rows[r] # None
  PROVE  Transition(r)
<1>1. CASE rows'[r] = rows[r]
  BY <1>1 DEF Transition
<1>2. ASSUME NEW w \in Workers, InsertCircuit(w)
      PROVE  rows'[r] = rows[r]
  BY <1>2 DEF InsertCircuit, CircuitInv, CircuitTypeOK
<1>3. ASSUME NEW w \in Workers, HalfOpen(w)
      PROVE  Transition(r)
  BY <1>3 DEF HalfOpen, Transition, CircuitInv, CircuitTypeOK
<1>4. ASSUME NEW w \in Workers, RecordSuccess(w)
      PROVE  Transition(r)
  <2>1. tgt[w] \in Tenants /\ snap[w] = rows[tgt[w]] /\ snap[w] \in CircuitRow
    BY <1>4, LoadedRow DEF RecordSuccess, At
  <2>2. Succeeded(snap[w]) = NewCircuit /\ NewCircuit \in CircuitRow
    <3> DEFINE d == Succeeded(snap[w])
    <3>1. d \in CircuitRow /\ d.opened_at = None
      BY <2>1, SucceededRow DEF Succeeded, CircuitRow
    <3>2. d.state = "closed" /\ d.failure_count = 0
      BY <2>1, SucceededRow
    <3> HIDE DEF d
    <3>3. d = NewCircuit
      BY <3>1, <3>2 DEF NewCircuit, CircuitRow
    <3> QED BY <3>3, NewRow DEF d
  <2>3. rows' = [rows EXCEPT ![tgt[w]] = NewCircuit]
    BY <1>4, <2>1, <2>2, FlushCurrent DEF RecordSuccess
  <2> QED BY <2>1, <2>3 DEF Transition, CircuitInv, CircuitTypeOK
<1>5. ASSUME NEW w \in Workers, RecordFailure(w)
      PROVE  Transition(r)
  BY <1>1, <1>5, FailureTransition
<1>6. \/ rows' = rows
      \/ \E w \in Workers : \/ InsertCircuit(w) \/ HalfOpen(w)
                           \/ RecordSuccess(w) \/ RecordFailure(w)
  BY DEF CircuitNext, CircuitStep, Tick, LookUp, LookUpMissing, ReadCreated, Decide,
         Lock, Leave, Raise, Crash, cbvars
<1> QED BY <1>1, <1>2, <1>3, <1>4, <1>5, <1>6

\* However many workers share a circuit, its rows keep to the documented state
\* machine in all but two guards: a failure counts one, opens exactly at the
\* threshold or from half_open, stamps the opening with the time, and does
\* nothing to an open row; no row loses a part of what another worker wrote.
\* The two are that half_open needs an open row that has cooled down and that
\* a success does not close an open one (should_allow_request 74-75,
\* record_success 152).
THEOREM ManyWorkersTransitions ==
  CircuitSpec => [][\A r \in Tenants : rows[r] # None => Transition(r)]_cbvars
<1>1. CircuitInv /\ [CircuitNext]_cbvars =>
        [\A r \in Tenants : rows[r] # None => Transition(r)]_cbvars
  BY RowTransition
<1> QED BY <1>1, CircuitInvariant, PTL DEF CircuitSpec

=============================================================================
