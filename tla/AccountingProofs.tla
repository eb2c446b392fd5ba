--------------------------- MODULE AccountingProofs ---------------------------
(***************************************************************************)
(* Theorems of Accounting, for any number of workers, tenants and           *)
(* deliveries, any latencies and any bound on what is counted.              *)
(*                                                                          *)
(* Every step is a step of the engine, and it counts in the circuit's       *)
(* statistics as CircuitHealth does: the invariants of both hold.  The      *)
(* counters add to them that a session's stale copy is never ahead of what  *)
(* was counted (Copies).  Where a task is in the service and where it is in *)
(* the engine go together (Aligned), and rows of circuits are locked before *)
(* rows of tenants (InOrder).  The retry policy the failed tasks turn to    *)
(* keeps its documented table, line by line, and limits the attempts.       *)
(***************************************************************************)
EXTENDS MCAccounting, WebhookEngineProofs, CircuitHealthProofs

Aligned ==
  \A w \in Workers :
    /\ cpc[w] \in {"creating", "created", "half_opening", "blocked", "poisoned"}
         => pc[w] = "check"
    /\ cpc[w] \in {"sending", "probing"} => pc[w] \in {"check", "record"}
    /\ cpc[w] \in {"raised", "ok", "failed"} => pc[w] = "record"
    /\ cpc[w] = "holding" => pc[w] \in {"fail", "failed"}

Columns == {"attempts", "retries"}

Copies ==
  \A w \in Workers : session[w] \in {"attempt", "retry"} =>
    \A c \in Columns : tenant[w][c] <= counted[Its(w)][c]

\* Who has locked a tenant's row has locked its circuit's before.
InOrder == \A w \in Workers : "tenant" \in flush[w] => "circuit" \in flush[w]

UsageInv == UsageTypeOK /\ Copies /\ CountersNotOverstated

AccountingInv == EngineInv /\ HealthInv /\ Aligned /\ UsageInv

LEMMA AccountingInitially == AccountingInit => AccountingInv
<1> SUFFICES ASSUME AccountingInit PROVE AccountingInv
  OBVIOUS
<1>1. EngineInv /\ CircuitInv
  BY EngineInit DEF AccountingInit, EngineInv
<1>2. HealthInv
  BY <1>1, HealthInitially DEF AccountingInit, Init, CircuitAtRest
<1>3. Aligned
  BY DEF AccountingInit, Init, CircuitAtRest, Aligned
<1>4. UsageTypeOK /\ Copies
  BY DEF AccountingInit, UsageTypeOK, Copies, Usage, Zero
<1>5. CountersNotOverstated
  BY DEF AccountingInit, CountersNotOverstated, Zero
<1>6. QED
  BY <1>1, <1>2, <1>3, <1>4, <1>5 DEF AccountingInv, UsageInv
-----------------------------------------------------------------------------
(* The engine's part. *)

LEMMA AccountedIsEngine ==
  ASSUME NEW w \in Workers, AccountedStep(w)
  PROVE  TaskStep(w) \/ WorkerDies(w) \/ UNCHANGED vars
BY DEF AccountedStep, ReadTenant, ReadForRetry, LockRow, AskCircuit, RecordAnswer, CommitRetry, EndQuietly,
       TaskStep

LEMMA EnginePart ==
  ASSUME [AccountingNext]_allvars
  PROVE  [Next]_vars
<1>1. ASSUME NEW w \in Workers, AccountedStep(w)
      PROVE  [Next]_vars
  BY <1>1, AccountedIsEngine DEF Next
<1>2. QED
  BY <1>1 DEF AccountingNext, allvars, Next

LEMMA EngineKeeps ==
  ASSUME AccountingInv, [AccountingNext]_allvars
  PROVE  EngineInv'
BY EnginePart, EngineStep DEF AccountingInv
-----------------------------------------------------------------------------
(* Where a task is. *)

\* Of one worker.
AlignedAt(c, p) ==
  /\ c \in {"creating", "created", "half_opening", "blocked", "poisoned"}
       => p = "check"
  /\ c \in {"sending", "probing"} => p \in {"check", "record"}
  /\ c \in {"raised", "ok", "failed"} => p = "record"
  /\ c = "holding" => p \in {"fail", "failed"}

LEMMA OneMoves ==
  ASSUME Aligned, NEW w \in Workers, AlignedAt(cpc'[w], pc'[w]),
         \A v \in Workers : v # w => cpc'[v] = cpc[v] /\ pc'[v] = pc[v]
  PROVE  Aligned'
BY DEF Aligned, AlignedAt

LEMMA EngineAligned ==
  ASSUME AccountingInv, NEW w \in Workers, TaskStep(w) \/ WorkerDies(w)
  PROVE  Aligned'
<1>1. /\ cpc \in [Workers -> CircuitPC] /\ pc \in [Workers -> EnginePC]
      /\ tgt \in [Workers -> Tenants \cup {None}]
  BY DEF AccountingInv, EngineInv, TypeOK, CircuitTypeOK
<1>2. \A v \in Workers : v # w => cpc'[v] = cpc[v] /\ pc'[v] = pc[v]
  <2>1. \A v \in Workers : v # w => cpc'[v] = cpc[v]
    BY OthersStay DEF AccountingInv, EngineInv, Carrying, Busy
  <2>2. \A v \in Workers : v # w => pc'[v] = pc[v]
    BY <1>1
       DEF TaskStep, WorkerDies, CheckCircuit, InsertFailed, Postpone, Post,
           LockCircuit, Succeed, Fail, LoadDelivery, CommitFailure, Schedule,
           MarkCircuitOpen, Send, EndTask, Become, enginevars
  <2>3. QED
    BY <2>1, <2>2
<1>3. AlignedAt(cpc[w], pc[w])
  BY DEF AccountingInv, Aligned, AlignedAt
<1> USE <1>1 DEF AlignedAt, Become, EndTask, GoTo, At
<1>4. CASE CheckCircuit(w)
  <2>1. pc'[w] = "check"
    BY <1>4 DEF CheckCircuit
  <2>2. cpc'[w] \in {"creating", "created", "half_opening", "blocked",
                     "poisoned", "sending", "probing"}
    BY <1>4 DEF CheckCircuit, LookUp, LookUpMissing, InsertCircuit, ReadCreated,
                HalfOpen, Decide
  <2>3. QED
    BY <1>2, <2>1, <2>2, OneMoves DEF AccountingInv
<1>5. CASE \/ InsertFailed(w) \/ Postpone(w) \/ Succeed(w)
           \/ (WorkerDies(w) /\ Crash(w))
  <2>1. cpc'[w] = "idle"
    BY <1>5 DEF InsertFailed, Postpone, Succeed, Leave, RecordSuccess, Crash
  <2>2. QED
    BY <1>2, <2>1, OneMoves DEF AccountingInv
<1>6. CASE Post(w)
  <2>1. pc'[w] = "record" /\ cpc'[w] \in {"sending", "probing"}
    BY <1>6 DEF Post, cbvars
  <2>2. QED
    BY <1>2, <2>1, OneMoves DEF AccountingInv
<1>7. CASE LockCircuit(w)
  <2>1. pc'[w] = "record" /\ cpc'[w] \in {"ok", "failed"}
    BY <1>7 DEF LockCircuit, Lock, enginevars
  <2>2. QED
    BY <1>2, <2>1, OneMoves DEF AccountingInv
<1>8. CASE Fail(w)
  <2>1. pc'[w] = "fail" /\ cpc'[w] \in {"holding", "idle"}
    BY <1>8 DEF Fail, RecordFailure
  <2>2. QED
    BY <1>2, <2>1, OneMoves DEF AccountingInv
<1>9. CASE LoadDelivery(w)
  <2>1. /\ \/ pc[w] = "record" /\ pc'[w] = "record"
           \/ pc[w] = "fail" /\ pc'[w] = "failed"
        /\ cpc'[w] = cpc[w]
    BY <1>9 DEF LoadDelivery, cbvars
  <2>2. QED
    BY <1>2, <1>3, <2>1, OneMoves DEF AccountingInv
<1>10. CASE CommitFailure(w) \/ (WorkerDies(w) /\ At(w, "idle") /\ UNCHANGED cbvars)
  <2>1. cpc'[w] = "idle"
    BY <1>10 DEF CommitFailure, Leave, cbvars
  <2>2. QED
    BY <1>2, <2>1, OneMoves DEF AccountingInv
<1>11. CASE Schedule(w) \/ MarkCircuitOpen(w) \/ Send(w)
  <2>1. pc[w] \in {"schedule", "mark", "send"} /\ cpc'[w] = cpc[w]
    BY <1>11 DEF Schedule, MarkCircuitOpen, Send, cbvars
  <2>2. cpc'[w] = "idle"
    BY <1>3, <2>1 DEF CircuitPC
  <2>3. QED
    BY <1>2, <2>2, OneMoves DEF AccountingInv
<1>12. QED
  BY <1>4, <1>5, <1>6, <1>7, <1>8, <1>9, <1>10, <1>11 DEF TaskStep, WorkerDies

LEMMA AlignedKeeps ==
  ASSUME AccountingInv, [AccountingNext]_allvars
  PROVE  Aligned'
<1>1. /\ cpc \in [Workers -> CircuitPC] /\ pc \in [Workers -> EnginePC]
  BY DEF AccountingInv, EngineInv, TypeOK, CircuitTypeOK
<1>2. CASE UNCHANGED <<pc, cpc>>
  BY <1>2 DEF AccountingInv, Aligned
<1>3. ASSUME NEW w \in Workers, AccountedStep(w)
      PROVE  Aligned'
  BY <1>2, <1>3, AccountedIsEngine, EngineAligned
     DEF vars, cbvars, enginevars
<1>5. ASSUME NEW w \in Workers, NEW d \in Deliveries, Take(w, d)
      PROVE  Aligned'
  <2>1. /\ pc' = [pc EXCEPT ![w] = "check"] /\ cpc' = cpc /\ pc[w] = "idle"
    BY <1>5 DEF Take, Become, cbvars
  <2>2. cpc[w] = "idle"
    BY <1>1, <2>1 DEF AccountingInv, Aligned, CircuitPC
  <2>3. QED
    BY <1>1, <2>1, <2>2, OneMoves DEF AccountingInv, AlignedAt
<1>6. CASE TimePasses \/ UNCHANGED allvars
  BY <1>2, <1>6 DEF TimePasses, Tick, enginevars, allvars, vars, cbvars
<1>7. QED
  BY <1>3, <1>5, <1>6 DEF AccountingNext
-----------------------------------------------------------------------------
(* The statistics' part. *)

LEMMA HealthPart ==
  ASSUME AccountingInv, [AccountingNext]_allvars
  PROVE  [HealthNext]_healthvars \/ \E w \in Workers : ForgetsNothing(w)
<1>1. ASSUME NEW w \in Workers, CheckCircuit(w), UNCHANGED statvars
      PROVE  CountedStep(w)
  <2>1. TenantOf[job[w]] \in Tenants
    BY <1>1, Holder, EngineAssumption DEF CheckCircuit, AccountingInv
  <2>2. QED
    BY <1>1, <2>1 DEF CheckCircuit, CountedStep
<1>2. ASSUME NEW w \in Workers, RecordAnswer(w)
      PROVE  CountedStep(w)
  BY <1>2 DEF RecordAnswer, LockCircuit, Succeed, Fail, CountedStep
<1>3. ASSUME NEW w \in Workers, UNCHANGED cbvars, ForgetStats(w),
             At(w, "idle") \/ pc[w] = "send"
      PROVE  ForgetsNothing(w)
  BY <1>3 DEF ForgetsNothing, cbvars, At, Recording, AccountingInv, Aligned
<1>4. ASSUME NEW w \in Workers, CommitRetry(w) \/ EndQuietly(w)
      PROVE  CountedStep(w) \/ ForgetsNothing(w)
  BY <1>3, <1>4
     DEF CommitRetry, EndQuietly, Postpone, CommitFailure, InsertFailed, Send,
         WorkerDies, CountedStep
<1>5. ASSUME NEW w \in Workers, AccountedStep(w)
      PROVE  \/ CountedStep(w) \/ ForgetsNothing(w)
             \/ UNCHANGED healthvars
  BY <1>1, <1>2, <1>4, <1>5
     DEF AccountedStep, AskCircuit, ReadTenant, ReadForRetry, LockRow, Post, LoadDelivery, Schedule, MarkCircuitOpen,
         healthvars, vars
<1>6. QED
  BY <1>5
     DEF AccountingNext, HealthNext, Take, TimePasses, allvars, vars, healthvars

LEMMA HealthKeeps ==
  ASSUME AccountingInv, [AccountingNext]_allvars
  PROVE  HealthInv'
<1>1. CircuitInv'
  BY EngineKeeps DEF EngineInv
<1>2. QED
  BY <1>1, HealthPart, HealthStep DEF AccountingInv
-----------------------------------------------------------------------------
(* The counters' part. *)

LEMMA UsageTypes ==
  ASSUME UsageInv
  PROVE  \A t \in Tenants : \A c \in Columns :
           /\ usage[t][c] \in Nat /\ counted[t][c] \in Nat
           /\ usage[t][c] <= counted[t][c]
           /\ counted[t][c] > 0 => usage[t][c] > 0
BY DEF UsageInv, UsageTypeOK, Usage, Columns, CountersNotOverstated

\* A session's copy of the tenant's row is one it has read.
LEMMA CopyRead ==
  ASSUME EngineInv, UsageInv, NEW w \in Workers,
         session[w] \in {"attempt", "retry"}
  PROVE  /\ Its(w) \in Tenants /\ pc[w] # "idle"
         /\ tenant[w] \in Usage
         /\ \A c \in Columns : /\ tenant[w][c] \in Nat
                               /\ tenant[w][c] <= counted[Its(w)][c]
<1>1. pc[w] # "idle" /\ tenant[w] # None
  BY DEF UsageInv, UsageTypeOK
<1>2. Its(w) \in Tenants
  BY <1>1, Holder, EngineAssumption DEF Its
<1>3. tenant[w] \in Usage
  BY <1>1 DEF UsageInv, UsageTypeOK
<1>4. QED
  BY <1>1, <1>2, <1>3 DEF UsageInv, Copies, Usage, Columns

\* A commit adds to the columns it changed, from a copy that may be stale.
LEMMA CommitCounts ==
  ASSUME EngineInv, UsageInv, NEW w \in Workers, NEW retry \in BOOLEAN,
         session[w] \in {"attempt", "retry"}, CommitUsage(w, retry)
  PROVE  /\ usage' \in [Tenants -> Usage] /\ counted' \in [Tenants -> Usage]
         /\ CountersNotOverstated'
         /\ \A t \in Tenants : \A c \in Columns : counted[t][c] <= counted'[t][c]
<1> DEFINE t == Its(w)
           a == IF session[w] = "attempt" THEN 1 ELSE 0
           b == IF retry THEN 1 ELSE 0
           new == Written(w, retry)
<1>1. /\ t \in Tenants /\ tenant[w] \in Usage
      /\ tenant[w].attempts \in Nat /\ tenant[w].attempts <= counted[t].attempts
      /\ tenant[w].retries \in Nat /\ tenant[w].retries <= counted[t].retries
  BY CopyRead DEF Columns
<1>2. /\ usage[t].attempts \in Nat /\ counted[t].attempts \in Nat
      /\ usage[t].retries \in Nat /\ counted[t].retries \in Nat
      /\ usage[t].attempts <= counted[t].attempts
      /\ usage[t].retries <= counted[t].retries
      /\ counted[t].attempts > 0 => usage[t].attempts > 0
      /\ counted[t].retries > 0 => usage[t].retries > 0
  BY <1>1, UsageTypes DEF Columns
<1>3. usage \in [Tenants -> Usage] /\ counted \in [Tenants -> Usage]
  BY DEF UsageInv, UsageTypeOK
<1>4. usage' = [usage EXCEPT ![t] = new]
  BY DEF CommitUsage
<1>5. counted' = [counted EXCEPT ![t] = [attempts |-> @.attempts + a,
                                         retries |-> @.retries + b]]
  <2>1. counted[t] \in Usage
    BY <1>1, <1>3
  <2>2. [[counted[t] EXCEPT !.attempts = counted[t].attempts + a]
           EXCEPT !.retries = counted[t].retries + b]
          = [attempts |-> counted[t].attempts + a,
             retries  |-> counted[t].retries + b]
    <3> DEFINE x == counted[t]
               y == [x EXCEPT !.attempts = x.attempts + a]
    <3>1. /\ y \in [attempts : {x.attempts + a}, retries : {x.retries}]
          /\ y.retries = x.retries
      BY <2>1 DEF Usage
    <3>2. [y EXCEPT !.retries = x.retries + b]
            = [attempts |-> x.attempts + a, retries |-> x.retries + b]
      <4> HIDE DEF y
      <4>1. QED
        BY <3>1
    <3>3. QED
      BY <3>2
  <2>3. QED
    BY <1>1, <1>3, <2>2 DEF CommitUsage
<1>6. /\ new \in Usage
      /\ new.attempts = IF a = 1 THEN tenant[w].attempts + 1 ELSE usage[t].attempts
      /\ new.retries = IF b = 1 THEN tenant[w].retries + 1 ELSE usage[t].retries
  BY <1>1, <1>2 DEF Written, Usage
<1>7. usage'[t] = new /\ counted'[t] = [attempts |-> counted[t].attempts + a,
                                        retries |-> counted[t].retries + b]
  BY <1>1, <1>3, <1>4, <1>5
<1>8. \A u \in Tenants : u # t => usage'[u] = usage[u] /\ counted'[u] = counted[u]
  BY <1>3, <1>4, <1>5
<1> HIDE DEF t, new
<1>9. usage' \in [Tenants -> Usage] /\ counted' \in [Tenants -> Usage]
  <2>1. [attempts |-> counted[t].attempts + a, retries |-> counted[t].retries + b]
          \in Usage
    BY <1>2 DEF Usage
  <2>2. QED
    BY <1>3, <1>4, <1>5, <1>6, <2>1
<1>10. /\ new.attempts <= counted'[t].attempts
       /\ new.retries <= counted'[t].retries
       /\ counted'[t].attempts > 0 => new.attempts > 0
       /\ counted'[t].retries > 0 => new.retries > 0
       /\ counted[t].attempts <= counted'[t].attempts
       /\ counted[t].retries <= counted'[t].retries
  BY <1>1, <1>2, <1>6, <1>7
<1>11. CountersNotOverstated'
  BY <1>7, <1>8, <1>10, UsageTypes DEF CountersNotOverstated, Columns
<1>12. \A u \in Tenants : \A c \in Columns : counted[u][c] <= counted'[u][c]
  BY <1>8, <1>10, UsageTypes DEF Columns
<1>13. QED
  BY <1>9, <1>11, <1>12

\* A step of w that keeps what w has read and written so far.
LEMMA UsageStays ==
  ASSUME UsageInv, EngineInv, UNCHANGED usagevars,
         \A v \in Workers :
           /\ session[v] # "unread" => pc'[v] # "idle" /\ job'[v] = job[v]
           /\ flush[v] # {} => cpc'[v] = "half_opening"
  PROVE  UsageInv'
<1>1. UsageTypeOK'
  BY DEF UsageInv, UsageTypeOK, usagevars, At
<1>2. Copies'
  BY DEF UsageInv, Copies, usagevars, Its
<1>3. CountersNotOverstated'
  BY DEF UsageInv, CountersNotOverstated, usagevars
<1>4. QED
  BY <1>1, <1>2, <1>3 DEF UsageInv

\* A step of w that commits, or ends the task: what w has read is expired.
LEMMA UsageRests ==
  ASSUME UsageInv, EngineInv, NEW w \in Workers, NEW s \in {"unread", "clean"},
         Rest(w, s), s = "clean" => pc'[w] # "idle",
         \/ UNCHANGED <<usage, counted>>
         \/ /\ session[w] \in {"attempt", "retry"}
            /\ \E retry \in BOOLEAN : CommitUsage(w, retry),
         \A v \in Workers : v # w =>
           pc'[v] = pc[v] /\ job'[v] = job[v] /\ cpc'[v] = cpc[v]
  PROVE  UsageInv'
<1>1. /\ usage' \in [Tenants -> Usage] /\ counted' \in [Tenants -> Usage]
      /\ CountersNotOverstated'
      /\ \A t \in Tenants : \A c \in Columns : counted[t][c] <= counted'[t][c]
  <2>1. CASE UNCHANGED <<usage, counted>>
    BY <2>1, UsageTypes DEF UsageInv, UsageTypeOK, CountersNotOverstated
  <2>2. QED
    BY <2>1, CommitCounts
<1>2. UsageTypeOK'
  BY <1>1 DEF Rest, UsageInv, UsageTypeOK, At
<1>3. Copies'
  <2> SUFFICES ASSUME NEW v \in Workers, session'[v] \in {"attempt", "retry"},
                      NEW c \in Columns
               PROVE  tenant'[v][c] <= counted'[Its(v)'][c]
    BY DEF Copies
  <2>1. /\ v # w /\ session[v] = session'[v] /\ tenant'[v] = tenant[v]
        /\ Its(v)' = Its(v)
    BY DEF Rest, UsageInv, UsageTypeOK, Its
  <2>2. /\ Its(v) \in Tenants /\ tenant[v][c] \in Nat
        /\ tenant[v][c] <= counted[Its(v)][c]
    BY <2>1, CopyRead
  <2>3. counted[Its(v)][c] \in Nat /\ counted'[Its(v)][c] \in Nat
    BY <1>1, <2>2 DEF UsageInv, UsageTypeOK, Usage, Columns
  <2>4. QED
    BY <1>1, <2>1, <2>2, <2>3
<1>4. QED
  BY <1>1, <1>2, <1>3 DEF UsageInv

LEMMA AccountedUsage ==
  ASSUME AccountingInv, NEW w \in Workers, AccountedStep(w)
  PROVE  UsageInv'
<1>1. EngineInv /\ UsageInv
  BY DEF AccountingInv
<1>2. /\ cpc \in [Workers -> CircuitPC] /\ pc \in [Workers -> EnginePC]
      /\ job \in [Workers -> Deliveries \cup {None}]
  BY <1>1 DEF EngineInv, TypeOK, CircuitTypeOK
<1>3. \A v \in Workers :
        /\ session[v] # "unread" => pc[v] # "idle"
        /\ flush[v] # {} => At(v, "half_opening") /\ session[v] = "attempt"
  BY <1>1 DEF UsageInv, UsageTypeOK
<1>4. \A v \in Workers : v # w =>
        pc'[v] = pc[v] /\ job'[v] = job[v] /\ cpc'[v] = cpc[v]
  <2>1. CASE UNCHANGED vars
    BY <2>1 DEF vars, cbvars, enginevars
  <2>2. CASE TaskStep(w) \/ WorkerDies(w)
    <3>1. \A v \in Workers : v # w => cpc'[v] = cpc[v]
      BY <1>1, <2>2, OthersStay DEF EngineInv, Carrying, Busy
    <3>2. \A v \in Workers : v # w => pc'[v] = pc[v] /\ job'[v] = job[v]
      BY <1>2, <2>2
         DEF TaskStep, WorkerDies, CheckCircuit, InsertFailed, Postpone, Post,
             LockCircuit, Succeed, Fail, LoadDelivery, CommitFailure, Schedule,
             MarkCircuitOpen, Send, EndTask, Become, enginevars
    <3>3. QED
      BY <3>1, <3>2
  <2>3. QED
    BY <2>1, <2>2, AccountedIsEngine
\* A step after which w is where its unfinished flush, if any, must be.
<1>5. ASSUME UNCHANGED usagevars, pc'[w] # "idle", job'[w] = job[w],
             cpc'[w] = "half_opening" \/ flush[w] = {}
      PROVE  UsageInv'
  BY <1>1, <1>3, <1>4, <1>5, UsageStays DEF At
<1>6. ASSUME FlushAttempt(w), pc'[w] # "idle", job'[w] = job[w],
             session[w] = "attempt" \/ flush[w] = {}
      PROVE  UsageInv'
  <2>1. CASE session[w] = "attempt"
    BY <1>1, <1>4, <1>6, <2>1, UsageRests DEF FlushAttempt
  <2>2. CASE session[w] # "attempt"
    BY <1>5, <1>6, <2>2 DEF FlushAttempt
  <2>3. QED
    BY <2>1, <2>2
<1>7. CASE ReadTenant(w) \/ ReadForRetry(w)
  <2>1. /\ pc[w] # "idle" /\ UNCHANGED vars /\ UNCHANGED <<usage, flush, counted>>
        /\ flush[w] = {}
        /\ \E s \in {"attempt", "retry"} : session' = [session EXCEPT ![w] = s]
        /\ tenant' = [tenant EXCEPT ![w] = usage[Its(w)]]
    BY <1>3, <1>7 DEF ReadTenant, ReadForRetry, At
  <2>2. Its(w) \in Tenants /\ usage[Its(w)] \in Usage
    BY <1>1, <2>1, Holder, EngineAssumption DEF Its, UsageInv, UsageTypeOK
  <2>3. usage[Its(w)] # None
    BY <2>2, AccountingAssumption
  <2>4. UsageTypeOK'
    BY <1>1, <1>3, <2>1, <2>2, <2>3
       DEF UsageInv, UsageTypeOK, vars, cbvars, enginevars, At
  <2>5. Copies' /\ CountersNotOverstated'
    BY <1>1, <2>1, <2>2, UsageTypes
       DEF UsageInv, UsageTypeOK, Copies, CountersNotOverstated, Its, vars,
           enginevars
  <2>6. QED
    BY <2>4, <2>5 DEF UsageInv
<1>8. CASE LockRow(w)
  <2>1. /\ UNCHANGED vars /\ UNCHANGED <<usage, session, tenant, counted>>
        /\ At(w, "half_opening") /\ session[w] = "attempt"
        /\ \E f \in SUBSET SharedRows : flush' = [flush EXCEPT ![w] = f]
    BY <1>8 DEF LockRow, SharedRows
  <2>2. UsageTypeOK'
    BY <1>1, <1>3, <2>1
       DEF UsageInv, UsageTypeOK, vars, cbvars, enginevars, At
  <2>3. Copies' /\ CountersNotOverstated'
    BY <1>1, <2>1
       DEF UsageInv, Copies, CountersNotOverstated, Its, vars, enginevars
  <2>4. QED
    BY <2>2, <2>3 DEF UsageInv
<1>9. CASE AskCircuit(w)
  <2>1. /\ pc'[w] # "idle" /\ job'[w] = job[w]
        /\ flush[w] = {} \/ At(w, "half_opening")
    BY <1>3, <1>9 DEF AskCircuit, CheckCircuit
  <2>2. CASE At(w, "half_opening") \/ (At(w, "creating") /\ cpc'[w] = "created")
    BY <1>3, <1>6, <1>9, <2>1, <2>2 DEF AskCircuit
  <2>3. CASE ~(At(w, "half_opening") \/ (At(w, "creating") /\ cpc'[w] = "created"))
    BY <1>5, <1>9, <2>1, <2>3 DEF AskCircuit
  <2>4. QED
    BY <2>2, <2>3
\* Outside the circuit check no flush is unfinished.
<1>10. pc[w] # "check" \/ ~At(w, "half_opening") => flush[w] = {}
  BY <1>1, <1>3 DEF AccountingInv, Aligned, At, UsageInv, UsageTypeOK
<1>11. CASE RecordAnswer(w)
  <2>1. pc[w] = "record"
    BY <1>11 DEF RecordAnswer, LockCircuit, Succeed, Fail
  <2>2. CASE Succeed(w) /\ ForgetTenant(w)
    BY <1>1, <1>4, <2>2, UsageRests DEF ForgetTenant
  <2>3. CASE (LockCircuit(w) \/ Fail(w)) /\ UNCHANGED usagevars
    <3>1. pc'[w] # "idle" /\ job'[w] = job[w]
      BY <1>2, <2>1, <2>3 DEF LockCircuit, Fail, enginevars, Become
    <3>2. QED
      BY <1>5, <1>10, <2>1, <2>3, <3>1
  <2>4. QED
    BY <1>11, <2>2, <2>3 DEF RecordAnswer
<1>12. CASE CommitRetry(w)
  <2>1. pc'[w] # "idle"
    BY <1>2, <1>12 DEF CommitRetry, Postpone, Become
  <2>2. QED
    BY <1>1, <1>4, <1>12, <2>1, UsageRests DEF CommitRetry
<1>13. CASE EndQuietly(w)
  BY <1>1, <1>4, <1>13, UsageRests DEF EndQuietly, ForgetTenant
<1>14. CASE Post(w) /\ FlushAttempt(w)
  <2>1. pc'[w] # "idle" /\ job'[w] = job[w] /\ flush[w] = {}
    BY <1>2, <1>10, <1>14 DEF Post, Become, At
  <2>2. QED
    BY <1>6, <1>14, <2>1
<1>15. CASE /\ LoadDelivery(w) \/ Schedule(w) \/ MarkCircuitOpen(w)
            /\ UNCHANGED usagevars
  <2>1. /\ pc[w] \in {"record", "fail", "schedule", "mark"}
        /\ pc'[w] # "idle" /\ job'[w] = job[w]
    BY <1>2, <1>15 DEF LoadDelivery, Schedule, MarkCircuitOpen, Become
  <2>2. QED
    BY <1>5, <1>10, <1>15, <2>1
<1>16. QED
  BY <1>7, <1>8, <1>9, <1>11, <1>12, <1>13, <1>14, <1>15 DEF AccountedStep

LEMMA UsageKeeps ==
  ASSUME AccountingInv, [AccountingNext]_allvars
  PROVE  UsageInv'
<1>1. EngineInv /\ UsageInv
  BY DEF AccountingInv
<1>2. /\ cpc \in [Workers -> CircuitPC] /\ pc \in [Workers -> EnginePC]
      /\ job \in [Workers -> Deliveries \cup {None}]
      /\ tgt \in [Workers -> Tenants \cup {None}]
  BY <1>1 DEF EngineInv, TypeOK, CircuitTypeOK
<1>3. \A v \in Workers :
        /\ session[v] # "unread" => pc[v] # "idle"
        /\ flush[v] # {} => cpc[v] = "half_opening"
  BY <1>1 DEF UsageInv, UsageTypeOK, At
<1>5. ASSUME NEW w \in Workers, NEW d \in Deliveries, Take(w, d),
             UNCHANGED usagevars
      PROVE  UsageInv'
  BY <1>1, <1>2, <1>3, <1>5, UsageStays DEF Take, Become, cbvars
<1>6. CASE (TimePasses /\ UNCHANGED usagevars) \/ UNCHANGED allvars
  BY <1>1, <1>3, <1>6, UsageStays
     DEF TimePasses, Tick, allvars, vars, cbvars, enginevars
<1>7. QED
  BY <1>5, <1>6, AccountedUsage DEF AccountingNext
-----------------------------------------------------------------------------
(* What follows of every behaviour. *)

LEMMA AccountingInvariant == AccountingSpec => []AccountingInv
<1>1. AccountingInv /\ [AccountingNext]_allvars => AccountingInv'
  BY EngineKeeps, AlignedKeeps, HealthKeeps, UsageKeeps DEF AccountingInv
<1>2. QED
  BY <1>1, AccountingInitially, PTL DEF AccountingSpec

\* The counters, sessions and flushes keep their types, with the engine's and
\* the statistics': a session owes the tenant's row something only while its
\* task runs, and a flush is unfinished only where the circuit turns half-open.
THEOREM AccountingTypeCorrect == AccountingSpec => []AccountingTypeOK
<1>1. AccountingInv => AccountingTypeOK
  BY DEF AccountingInv, AccountingTypeOK, EngineInv, HealthInv, UsageInv
<1>2. QED
  BY <1>1, AccountingInvariant, PTL

\* The tenant's counters never claim an attempt or a retry that was not made,
\* however many tasks add to stale copies of them, and never fall back to zero.
THEOREM CountersHold == AccountingSpec => []CountersNotOverstated
<1>1. AccountingInv => CountersNotOverstated
  BY DEF AccountingInv, UsageInv
<1>2. QED
  BY <1>1, AccountingInvariant, PTL

\* The statistics stay exact and the health current while the engine's tasks
\* record them, refusals and deaths included.
THEOREM StatisticsHold == AccountingSpec => [](StatisticsExact /\ HealthIsCurrent)
<1>1. AccountingInv => StatisticsExact /\ HealthIsCurrent
  BY DEF AccountingInv, HealthInv
<1>2. QED
  BY <1>1, AccountingInvariant, PTL

\* No failed delivery makes the circuit of its endpoint healthier, whatever
\* else the engine's tasks record, lose or roll back beside it.
THEOREM FailedTasksNeverHeal == AccountingSpec => FailureNeverHeals
<1> DEFINE Heals == \E r \in Tenants :
             tally'[r].bad > tally[r].bad /\ Recovery(stats[r].health, stats'[r].health)
<1>1. AccountingInit => Unused
  BY DEF AccountingInit, StatsInit, NewStatistics, Unused
<1>2. ASSUME AccountingInv, Unused, [AccountingNext]_allvars
      PROVE  Unused' /\ ~Heals
  <2>1. CASE [HealthNext]_healthvars
    BY <1>2, <2>1, UnusedStep, FailureWorsens DEF AccountingInv
  <2>2. ASSUME NEW w \in Workers, ForgetsNothing(w)
        PROVE  Unused' /\ ~Heals
    <3>1. UNCHANGED stats /\ UNCHANGED tally
      BY <2>2 DEF ForgetsNothing, ForgetStats
    <3> QED BY <1>2, <3>1 DEF Unused, Recovery
  <2> QED BY <1>2, <2>1, <2>2, HealthPart
<1>3. AccountingInv /\ Unused /\ [AccountingNext]_allvars =>
        /\ Unused'
        /\ [\A r \in Tenants :
              tally'[r].bad > tally[r].bad
                => ~Recovery(stats[r].health, stats'[r].health)]_healthvars
  BY <1>2
<1> QED
  BY <1>1, <1>3, AccountingInvariant, PTL DEF AccountingSpec, FailureNeverHeals

LEMMA OrderKept ==
  ASSUME AccountingInv, InOrder, [AccountingNext]_allvars
  PROVE  InOrder'
<1>1. ASSUME NEW w \in Workers, NEW f \in {{}, {"circuit"}, SharedRows},
             flush' = [flush EXCEPT ![w] = f]
      PROVE  InOrder'
  BY <1>1 DEF InOrder, SharedRows, AccountingInv, UsageInv, UsageTypeOK
<1>2. CASE UNCHANGED flush
  BY <1>2 DEF InOrder
<1>3. ASSUME NEW w \in Workers, NEW s, Rest(w, s)
      PROVE  InOrder'
  BY <1>1, <1>3 DEF Rest
<1>4. ASSUME NEW w \in Workers, AccountedStep(w)
      PROVE  InOrder'
  BY <1>1, <1>2, <1>3, <1>4
     DEF AccountedStep, ReadTenant, ReadForRetry, LockRow, AskCircuit,
         RecordAnswer, CommitRetry, EndQuietly, FlushAttempt, ForgetTenant,
         usagevars
<1>5. QED
  BY <1>2, <1>4 DEF AccountingNext, allvars, usagevars

\* Who has locked a tenant's row waits for no row.
LEMMA TenantIsLast ==
  ASSUME AccountingInv, InOrder, NEW u \in Workers, "tenant" \in flush[u],
         NEW x \in Workers
  PROVE  ~WaitsFor(u, x)
<1>1. At(u, "half_opening") /\ session[u] = "attempt" /\ "circuit" \in flush[u]
  BY DEF AccountingInv, UsageInv, UsageTypeOK, InOrder
<1>2. QED
  BY <1>1 DEF WaitsFor, NeedsCircuit, NeedsTenant

\* Who has locked the circuit's row that a half-open commit is to write waits for
\* no circuit's row itself.
LEMMA CircuitIsFirst ==
  ASSUME AccountingInv, NEW v \in Workers, NEW u \in Workers,
         NeedsCircuit(v), HoldsCircuit(u, tgt[v])
  PROVE  ~NeedsCircuit(u)
<1>1. tgt[v] \in Tenants
  BY DEF NeedsCircuit, AccountingInv, EngineInv, CircuitInv, Targeting, HasRow, At
<1>2. CASE lock[tgt[v]] = u
  BY <1>1, <1>2
     DEF NeedsCircuit, AccountingInv, EngineInv, CircuitInv, LockOwners, HasLock, At
<1>3. QED
  BY <1>2 DEF HoldsCircuit, NeedsCircuit

\* However many tasks turn circuits half-open while others still have the lock
\* of an open one, no circle of them waits for each other's rows.
THEOREM LocksNeverCycle == AccountingSpec => []NoLockCycle
<1>1. AccountingInit => InOrder
  BY DEF AccountingInit, InOrder
<1>2. AccountingInv /\ InOrder => NoLockCycle
  <2> SUFFICES ASSUME AccountingInv, InOrder,
                      NEW S \in SUBSET Workers, S # {},
                      \A v \in S : \E u \in S : WaitsFor(v, u)
               PROVE  FALSE
    BY DEF NoLockCycle
  <2>1. PICK v \in S : TRUE
    OBVIOUS
  <2>2. \A u \in S : "tenant" \notin flush[u]
    <3> SUFFICES ASSUME NEW u \in S, "tenant" \in flush[u] PROVE FALSE
      OBVIOUS
    <3>1. PICK x \in S : WaitsFor(u, x)
      OBVIOUS
    <3>2. u \in Workers /\ x \in Workers
      OBVIOUS
    <3> QED BY <3>1, <3>2, TenantIsLast
  <2>3. \A x \in S : /\ NeedsCircuit(x)
                     /\ \E u \in S : HoldsCircuit(u, tgt[x])
    BY <2>2 DEF WaitsFor, HoldsTenant
  <2>4. PICK u \in S : HoldsCircuit(u, tgt[v])
    BY <2>3
  <2>5. v \in Workers /\ u \in Workers
    OBVIOUS
  <2>6. NeedsCircuit(v) /\ NeedsCircuit(u)
    BY <2>3
  <2>7. QED
    BY <2>4, <2>5, <2>6, CircuitIsFirst
<1>3. QED
  BY <1>1, <1>2, OrderKept, AccountingInvariant, PTL DEF AccountingSpec

\* The counters and their locks change nothing the engine does: what is proved
\* of the engine holds of it with them.
THEOREM AccountingImplementsEngine == AccountingSpec => EngineStillHolds
<1>1. AccountingInit => Init
  BY DEF AccountingInit
<1>2. [AccountingNext]_allvars => [Next]_vars
  BY EnginePart
<1>3. QED
  BY <1>1, <1>2, PTL DEF AccountingSpec, EngineStillHolds

-----------------------------------------------------------------------------
(* The retry policy, of RetryPolicy. *)

\* classify, for the failures that the README's table names.
LEMMA Classes ==
  ASSUME NEW f \in Failures
  PROVE  /\ Classify(f) \in FailureType
         /\ f.status >= 500 => Classify(f) = "TRANSIENT"
         /\ f.status = 429 => Classify(f) = "RATE_LIMITED"
         /\ f.text = {"timeout"} => Classify(f) = "TIMEOUT"
         /\ f.text = {"name or service not known"} => Classify(f) = "DNS_ERROR"
         /\ f.text = {"connection refused"} => Classify(f) = "CONNECTION_REFUSED"
<1>1. /\ f.status \in 0..599
      /\ f.status # 0 => f.text = {}
  BY DEF Failures
<1>2. Classify(f) \in FailureType
  BY <1>1 DEF Classify, ClassifyStatus, ClassifyError, FailureType
<1>3. f.status >= 500 => Classify(f) = "TRANSIENT"
  BY <1>1 DEF Classify, ClassifyStatus
<1>4. f.status = 429 => Classify(f) = "RATE_LIMITED"
  BY <1>1 DEF Classify, ClassifyStatus
<1>5. /\ ClassifyError({"timeout"}) = "TIMEOUT"
      /\ ClassifyError({"name or service not known"}) = "DNS_ERROR"
      /\ ClassifyError({"connection refused"}) = "CONNECTION_REFUSED"
  BY DEF ClassifyError
<1>6. f.text = {"timeout"} => Classify(f) = "TIMEOUT"
  BY <1>1, <1>5 DEF Classify
<1>7. f.text = {"name or service not known"} => Classify(f) = "DNS_ERROR"
  BY <1>1, <1>5 DEF Classify
<1>8. f.text = {"connection refused"} => Classify(f) = "CONNECTION_REFUSED"
  BY <1>1, <1>5 DEF Classify
<1> QED BY <1>2, <1>3, <1>4, <1>6, <1>7, <1>8, Zenon

\* is_retryable, max_retries and get_delay, for each type.
LEMMA Limited ==
  /\ MaxRetriesOf("PERMANENT") = 0 /\ ~IsRetryable("PERMANENT")
  /\ MaxRetriesOf("RATE_LIMITED") = 10 /\ IsRetryable("RATE_LIMITED")
  /\ \A ft \in {"TRANSIENT", "TIMEOUT", "DNS_ERROR", "CONNECTION_REFUSED"} :
       MaxRetriesOf(ft) = 5 /\ IsRetryable(ft)
  BY DEF MaxRetriesOf, IsRetryable

LEMMA Delays ==
  /\ \A n : GetDelay("TIMEOUT", n) = Exactly(2 * n)
  /\ \A n : GetDelay("DNS_ERROR", n) = Exactly(5 * n)
  /\ \A n : GetDelay("RATE_LIMITED", n) = Exactly(60 * n)
  /\ \A ft \in {"TRANSIENT", "CONNECTION_REFUSED"} : \A n :
       GetDelay(ft, n) = [least |-> 2 ^ n, most |-> 2 ^ n + 1]
  BY DEF GetDelay, Exponential

\* The powers that the retries allowed can reach.
LEMMA Powers ==
  ASSUME NEW n \in 1..4
  PROVE  2 ^ n + 1 <= 2 ^ (n + 1)
<1>1. 2 ^ 1 = 2 /\ 2 ^ 2 = 4 /\ 2 ^ 3 = 8 /\ 2 ^ 4 = 16 /\ 2 ^ 5 = 32
  OBVIOUS
<1>2. CASE n = 1
  BY <1>1, <1>2
<1>3. CASE n = 2
  BY <1>1, <1>3
<1>4. CASE n = 3
  BY <1>1, <1>4
<1>5. CASE n = 4
  BY <1>1, <1>5
<1> QED BY <1>2, <1>3, <1>4, <1>5

\* The documented failures that are of type ft are retried as ft is.
LEMMA LineKept ==
  ASSUME NEW line, NEW ft, \A f \in line.of : Classify(f) = ft,
         MaxRetriesOf(ft) = line.retries, IsRetryable(ft) <=> line.retries > 0,
         \A n \in DOMAIN line.delay : GetDelay(ft, n) = line.delay[n]
  PROVE  TableKept!(line)
  BY Zenon

LEMMA TableIsKept == TableKept
<1> SUFFICES ASSUME NEW line \in Documented
             PROVE  TableKept!(line)
  BY DEF TableKept
<1> DEFINE Doubling == [n \in 1..5 |-> [least |-> 2 ^ n, most |-> 2 ^ n + 1]]
<1>1. CASE line = [of |-> {f \in Failures : f.status \in {400, 401, 403, 404}},
                   retries |-> 0, delay |-> [n \in {} |-> Exactly(0)]]
  <2>1. \A f \in line.of : Classify(f) = "PERMANENT"
    <3> SUFFICES ASSUME NEW f \in line.of PROVE Classify(f) = "PERMANENT"
      OBVIOUS
    <3>1. f.status \in {400, 401, 403, 404}
      BY <1>1
    <3> QED BY <3>1 DEF Classify, ClassifyStatus
  <2>2. /\ MaxRetriesOf("PERMANENT") = line.retries
        /\ IsRetryable("PERMANENT") <=> line.retries > 0
    BY <1>1, Limited
  <2>3. \A n \in DOMAIN line.delay : GetDelay("PERMANENT", n) = line.delay[n]
    BY <1>1, Delays
  <2> QED BY <2>1, <2>2, <2>3, LineKept
<1>2. CASE line = [of |-> {f \in Failures : f.status >= 500},
                   retries |-> 5, delay |-> Doubling]
  <2>1. \A f \in line.of : Classify(f) = "TRANSIENT"
    BY <1>2, Classes
  <2>2. /\ MaxRetriesOf("TRANSIENT") = line.retries
        /\ IsRetryable("TRANSIENT") <=> line.retries > 0
    BY <1>2, Limited
  <2>3. \A n \in DOMAIN line.delay : GetDelay("TRANSIENT", n) = line.delay[n]
    BY <1>2, Delays
  <2> QED BY <2>1, <2>2, <2>3, LineKept
<1>3. CASE line = [of |-> {f \in Failures : f.status = 429},
                   retries |-> 10, delay |-> [n \in 1..10 |-> Exactly(60 * n)]]
  <2>1. \A f \in line.of : Classify(f) = "RATE_LIMITED"
    BY <1>3, Classes
  <2>2. /\ MaxRetriesOf("RATE_LIMITED") = line.retries
        /\ IsRetryable("RATE_LIMITED") <=> line.retries > 0
    BY <1>3, Limited
  <2>3. \A n \in DOMAIN line.delay : GetDelay("RATE_LIMITED", n) = line.delay[n]
    BY <1>3, Delays
  <2> QED BY <2>1, <2>2, <2>3, LineKept
<1>4. CASE line = [of |-> {f \in Failures : f.text = {"timeout"}},
                   retries |-> 5, delay |-> [n \in 1..5 |-> Exactly(2 * n)]]
  <2>1. \A f \in line.of : Classify(f) = "TIMEOUT"
    BY <1>4, Classes
  <2>2. /\ MaxRetriesOf("TIMEOUT") = line.retries
        /\ IsRetryable("TIMEOUT") <=> line.retries > 0
    BY <1>4, Limited
  <2>3. \A n \in DOMAIN line.delay : GetDelay("TIMEOUT", n) = line.delay[n]
    BY <1>4, Delays
  <2> QED BY <2>1, <2>2, <2>3, LineKept
<1>5. CASE line = [of |-> {f \in Failures : f.text = {"name or service not known"}},
                   retries |-> 5, delay |-> [n \in 1..5 |-> Exactly(5 * n)]]
  <2>1. \A f \in line.of : Classify(f) = "DNS_ERROR"
    BY <1>5, Classes
  <2>2. /\ MaxRetriesOf("DNS_ERROR") = line.retries
        /\ IsRetryable("DNS_ERROR") <=> line.retries > 0
    <3>1. line.retries = 5
      BY <1>5
    <3> QED BY <3>1, Limited
  <2>3. \A n \in DOMAIN line.delay : GetDelay("DNS_ERROR", n) = line.delay[n]
    BY <1>5, Delays
  <2> QED BY <2>1, <2>2, <2>3, LineKept
<1>6. CASE line = [of |-> {f \in Failures : f.text = {"connection refused"}},
                   retries |-> 5, delay |-> Doubling]
  <2>1. \A f \in line.of : Classify(f) = "CONNECTION_REFUSED"
    BY <1>6, Classes
  <2>2. /\ MaxRetriesOf("CONNECTION_REFUSED") = line.retries
        /\ IsRetryable("CONNECTION_REFUSED") <=> line.retries > 0
    <3>1. line.retries = 5
      BY <1>6
    <3> QED BY <3>1, Limited
  <2>3. \A n \in DOMAIN line.delay : GetDelay("CONNECTION_REFUSED", n) = line.delay[n]
    BY <1>6, Delays
  <2> QED BY <2>1, <2>2, <2>3, LineKept
<1> QED BY <1>1, <1>2, <1>3, <1>4, <1>5, <1>6 DEF Documented

LEMMA DelaysAreMonotone == DelaysMonotone
<1> SUFFICES ASSUME NEW ft \in FailureType, NEW n \in 1 .. MaxRetriesOf(ft) - 1
             PROVE  GetDelay(ft, n).most <= GetDelay(ft, n + 1).least
  BY Classes DEF DelaysMonotone
<1>1. CASE ft \in {"TRANSIENT", "CONNECTION_REFUSED"}
  <2>1. n \in 1..4
    BY <1>1, Limited
  <2>2. GetDelay(ft, n).most = 2 ^ n + 1
    BY <1>1, Delays
  <2>3. GetDelay(ft, n + 1).least = 2 ^ (n + 1)
    BY <1>1, Delays
  <2> QED BY <2>1, <2>2, <2>3, Powers, Zenon
<1>2. CASE ft \in {"TIMEOUT", "DNS_ERROR", "RATE_LIMITED"}
  BY <1>2, Limited, Delays DEF Exactly
<1>3. CASE ft = "PERMANENT"
  BY <1>3, Limited
<1> QED BY <1>1, <1>2, <1>3 DEF FailureType

\* However many tasks fail, beside whatever else the workers do: what becomes
\* of each failure that the README's table names is what the table says.
THEOREM RetriesAsDocumented == AccountingSpec => []PolicyAsDocumented
<1>1. PolicyAsDocumented
  BY TableIsKept DEF PolicyAsDocumented
<1> QED BY <1>1, PTL

\* A delivery that keeps failing in one way never waits less than before.
THEOREM RetriesBackOff == AccountingSpec => []DelaysGrow
<1>1. DelaysGrow
  BY DelaysAreMonotone DEF DelaysGrow
<1> QED BY <1>1, PTL

\* The most retries that RetryPolicy allows after any of the endpoint's failures.
MostRetries == IF "RATE_LIMITED" \in FailureTypes THEN 10 ELSE 5

LEMMA LimitsKept ==
  ASSUME \A ft \in FailureTypes : MaxRetries[ft] <= MostRetries,
         AccountingInv, [AccountingNext]_allvars,
         FailuresWithin(MostRetries), AttemptsWithin(MostRetries)
  PROVE  FailuresWithin(MostRetries)' /\ AttemptsWithin(MostRetries)'
<1>1. EngineInv /\ MostRetries \in Nat
  BY DEF AccountingInv, MostRetries
<1>2. QED
  BY <1>1, EnginePart, FailuresStep, AttemptsStep

\* Under RetryPolicy's limits a delivery is attempted eleven times at most, and
\* six times by an endpoint that never answers 429, whatever mixture of failures
\* it meets: retry_count is compared with the limit of the last failure's type.
THEOREM AttemptsEnd ==
  ASSUME FailureTypes \subseteq FailureType,
         \A ft \in FailureTypes : MaxRetries[ft] = MaxRetriesOf(ft)
  PROVE  AccountingSpec => []AttemptsWithin(MostRetries)
<1>1. \A ft \in FailureTypes : MaxRetries[ft] <= MostRetries
  BY Limited DEF FailureType, MostRetries
<1>2. AccountingInit => FailuresWithin(MostRetries) /\ AttemptsWithin(MostRetries)
  BY DEF AccountingInit, Init, NewDelivery, FailuresWithin, AttemptsWithin,
         MostRetries
<1>3. QED
  BY <1>1, <1>2, LimitsKept, AccountingInvariant, PTL DEF AccountingSpec

=============================================================================
