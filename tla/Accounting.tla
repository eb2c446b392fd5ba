----------------------------- MODULE Accounting -----------------------------
(***************************************************************************)
(* What the tasks of WebhookEngine count, and the row locks it costs: the   *)
(* tenant's delivery_attempts_count and retries_count, incremented without  *)
(* SELECT FOR UPDATE (webhook_engine.py 83, 360, 474), and the statistics   *)
(* of the circuit (CircuitHealth).  Every step is a step of the engine with *)
(* what it counts, or one of the engine's database transactions in between. *)
(*                                                                          *)
(* A commit's flush updates its rows one after the other and waits for each *)
(* row's lock.  The unit of work takes the classes in the order of their    *)
(* names where no relationship() orders them, so the tenant comes last.  A  *)
(* flush that writes the tenant and no other shared row is one step; the    *)
(* one that writes half_open locks its rows one by one, and the commit of   *)
(* handle_failure comes to the tenant's row with the lock of an open        *)
(* circuit that record_failure has kept.                                    *)
(***************************************************************************)
EXTENDS WebhookEngine, CircuitHealth

CONSTANT MaxCounted  \* bound: no task is taken once so many attempts count

Usage == [attempts : Nat, retries : Nat]

ASSUME AccountingAssumption == MaxCounted \in Nat /\ None \notin Usage

VARIABLES
  usage,    \* tenant -> the two counters in its row
  session,  \* worker -> what its session owes the tenant's row
  tenant,   \* worker -> the counters its session loaded, None if expired
  flush,    \* worker -> the rows its unfinished flush has locked
  counted   \* history: tenant -> increments committed

usagevars == <<usage, session, tenant, flush, counted>>
allvars == <<vars, statvars, usagevars>>

Zero == [attempts |-> 0, retries |-> 0]

SharedRows == {"circuit", "tenant"}

\* "unread": not loaded yet; "attempt": an attempt to add; "retry": a retry.
UsageTypeOK ==
  /\ usage \in [Tenants -> Usage]
  /\ session \in [Workers -> {"unread", "attempt", "clean", "retry"}]
  /\ tenant \in [Workers -> Usage \cup {None}]
  /\ flush \in [Workers -> SUBSET SharedRows]
  /\ counted \in [Tenants -> Usage]
  /\ \A w \in Workers :
       /\ tenant[w] # None <=> session[w] \in {"attempt", "retry"}
       /\ flush[w] # {} => At(w, "half_opening") /\ session[w] = "attempt"
       /\ session[w] # "unread" => pc[w] # "idle"

AccountingTypeOK == TypeOK /\ StatsTypeOK /\ UsageTypeOK

AccountingInit ==
  /\ Init /\ StatsInit
  /\ usage = [t \in Tenants |-> Zero]
  /\ session = [w \in Workers |-> "unread"]
  /\ tenant = [w \in Workers |-> None]
  /\ flush = [w \in Workers |-> {}]
  /\ counted = [t \in Tenants |-> Zero]

Its(w) == TenantOf[job[w]]

(***************************************************************************)
(* Row locks.                                                               *)
(***************************************************************************)
HoldsTenant(v, t) == "tenant" \in flush[v] /\ Its(v) = t

HoldsCircuit(v, r) == lock[r] = v \/ ("circuit" \in flush[v] /\ tgt[v] = r)

TenantFree(w) == \A v \in Workers \ {w} : ~HoldsTenant(v, Its(w))

CircuitFree(w, r) == \A v \in Workers \ {w} : ~HoldsCircuit(v, r)

\* No unfinished flush has it; the lock of record_* is CircuitBreaker's.
Unflushed(w, r) ==
  \A v \in Workers \ {w} : ~("circuit" \in flush[v] /\ tgt[v] = r)

NeedsCircuit(v) == At(v, "half_opening") /\ "circuit" \notin flush[v]

NeedsTenant(v) ==
  \/ session[v] = "retry"
  \/ At(v, "half_opening") /\ session[v] = "attempt" /\ "tenant" \notin flush[v]

\* v cannot commit before it locks a row that u has locked.  Tasks that wait with
\* no row of their own are left out: nobody waits for them.
WaitsFor(v, u) ==
  \/ NeedsCircuit(v) /\ HoldsCircuit(u, tgt[v])
  \/ NeedsTenant(v) /\ HoldsTenant(u, Its(v))

(***************************************************************************)
(* What a session does to the tenant's row.                                 *)
(***************************************************************************)
Rest(w, s) ==
  /\ session' = [session EXCEPT ![w] = s]
  /\ tenant' = [tenant EXCEPT ![w] = None]
  /\ flush' = [flush EXCEPT ![w] = {}]

\* Mutated form of Written: a retry adds to the attempts as well.
WrittenBoth(w, retry) ==
  [attempts |-> tenant[w].attempts + 1,
   retries  |-> IF retry THEN tenant[w].retries + 1 ELSE usage[Its(w)].retries]

\* A commit: the columns changed since the row was loaded, and no other.
Written(w, retry) ==
  [attempts |-> IF session[w] = "attempt"
                  THEN tenant[w].attempts + 1 ELSE usage[Its(w)].attempts,
   retries  |-> IF retry THEN tenant[w].retries + 1 ELSE usage[Its(w)].retries]

CommitUsage(w, retry) ==
  /\ TenantFree(w)
  /\ usage' = [usage EXCEPT ![Its(w)] = Written(w, retry)]
  /\ counted' = [counted EXCEPT
       ![Its(w)].attempts = @ + IF session[w] = "attempt" THEN 1 ELSE 0,
       ![Its(w)].retries = @ + IF retry THEN 1 ELSE 0]

\* The commit of an attempt, if one is owed; the row is expired.
FlushAttempt(w) ==
  IF session[w] = "attempt"
    THEN CommitUsage(w, FALSE) /\ Rest(w, "clean")
    ELSE UNCHANGED usagevars

\* The task is over, its transaction committed or rolled back.
ForgetTenant(w) == Rest(w, "unread") /\ UNCHANGED <<usage, counted>>

(***************************************************************************)
(* The engine's steps and what they count.                                  *)
(***************************************************************************)
\* process_event loads the tenant and adds the attempt, uncommitted.
ReadTenant(w) ==
  /\ pc[w] = "check" /\ At(w, "idle") /\ session[w] = "unread"
  /\ session' = [session EXCEPT ![w] = "attempt"]
  /\ tenant' = [tenant EXCEPT ![w] = usage[Its(w)]]
  /\ UNCHANGED <<vars, statvars, usage, flush, counted>>

\* handle_failure and handle_circuit_open load it again after a commit.
ReadForRetry(w) ==
  /\ \/ /\ pc[w] = "failed"
        /\ FailedDelivery(loaded[w], result[w]).status = "retrying"
     \/ pc[w] = "check" /\ At(w, "blocked")
  /\ session[w] = "clean"
  /\ session' = [session EXCEPT ![w] = "retry"]
  /\ tenant' = [tenant EXCEPT ![w] = usage[Its(w)]]
  /\ UNCHANGED <<vars, statvars, usage, flush, counted>>

\* Mutated form of LockRow: the tenant's row before the circuit's.
LockTenantFirst(w) ==
  /\ At(w, "half_opening") /\ session[w] = "attempt"
  /\ \/ flush[w] = {} /\ TenantFree(w)
        /\ flush' = [flush EXCEPT ![w] = {"tenant"}]
     \/ flush[w] = {"tenant"} /\ CircuitFree(w, tgt[w])
        /\ flush' = [flush EXCEPT ![w] = SharedRows]
  /\ UNCHANGED <<vars, statvars, usage, session, tenant, counted>>

\* The commit that writes half_open updates the circuit, then the tenant.
LockRow(w) ==
  /\ At(w, "half_opening") /\ session[w] = "attempt"
  /\ \/ flush[w] = {} /\ CircuitFree(w, tgt[w])
        /\ flush' = [flush EXCEPT ![w] = {"circuit"}]
     \/ flush[w] = {"circuit"} /\ TenantFree(w)
        /\ flush' = [flush EXCEPT ![w] = SharedRows]
  /\ UNCHANGED <<vars, statvars, usage, session, tenant, counted>>

AskCircuit(w) ==
  /\ CheckCircuit(w)
  /\ session[w] # "unread"
  /\ At(w, "half_opening") =>
       Unflushed(w, tgt[w]) /\ (session[w] = "attempt" => flush[w] = SharedRows)
  /\ IF At(w, "half_opening") \/ (At(w, "creating") /\ cpc'[w] = "created")
       THEN FlushAttempt(w) ELSE UNCHANGED usagevars
  /\ UNCHANGED statvars

RecordAnswer(w) ==
  \/ LockCircuit(w) /\ Unflushed(w, tgt'[w]) /\ LoadStats(w)
                    /\ UNCHANGED usagevars
  \/ Succeed(w) /\ CountSuccess(w) /\ ForgetTenant(w)
  \/ Fail(w) /\ CountFailure(w) /\ UNCHANGED usagevars

\* The commits of handle_circuit_open and handle_failure that add a retry.
CommitRetry(w) ==
  /\ Postpone(w) \/ (CommitFailure(w) /\ pc'[w] # "idle")
  /\ session[w] \in {"attempt", "retry"}
  /\ CommitUsage(w, TRUE) /\ Rest(w, "clean")
  /\ ForgetStats(w)

\* The engine's steps that end a task without a word to the tenant's row.
EndQuietly(w) ==
  /\ \/ InsertFailed(w) \/ Send(w) \/ WorkerDies(w)
     \/ CommitFailure(w) /\ pc'[w] = "idle"
  /\ ForgetTenant(w) /\ ForgetStats(w)

AccountedStep(w) ==
  \/ ReadTenant(w) \/ ReadForRetry(w) \/ LockRow(w)
  \/ AskCircuit(w) \/ RecordAnswer(w) \/ CommitRetry(w) \/ EndQuietly(w)
  \/ Post(w) /\ FlushAttempt(w) /\ UNCHANGED statvars
  \/ /\ LoadDelivery(w) \/ Schedule(w) \/ MarkCircuitOpen(w)
     /\ UNCHANGED <<statvars, usagevars>>

AccountingNext ==
  \/ \E w \in Workers, d \in Deliveries :
       /\ counted[TenantOf[d]].attempts < MaxCounted
       /\ Take(w, d) /\ UNCHANGED <<statvars, usagevars>>
  \/ \E w \in Workers : AccountedStep(w)
  \/ TimePasses /\ UNCHANGED <<statvars, usagevars>>

AccountingSpec == AccountingInit /\ [][AccountingNext]_allvars

\* Threads run.
AccountingFairness == \A w \in Workers : WF_allvars(AccountedStep(w))

FairAccountingSpec == AccountingSpec /\ AccountingFairness

(***************************************************************************)
(* Properties.                                                              *)
(***************************************************************************)
\* Tasks that overlap lose increments of the tenant's counters, but the
\* counters never exceed what was counted, and are positive once there was
\* something to count.
CountersNotOverstated ==
  \A t \in Tenants : \A c \in {"attempts", "retries"} :
    /\ usage[t][c] <= counted[t][c]
    /\ counted[t][c] > 0 => usage[t][c] > 0

\* No circle of tasks that wait for each other's rows, of tenants and of
\* circuits: of any tasks, one waits for none of the others.  Two transactions
\* lock both kinds of row, the one that writes half_open and the one of a
\* failure recorded on an open circuit, whose lock handle_failure still has.
NoLockCycle ==
  \A S \in (SUBSET Workers) \ {{}} :
    \E v \in S : \A u \in S : ~WaitsFor(v, u)

\* The counters and their locks change nothing the engine does: what is proved
\* of the engine holds here.
EngineStillHolds == Init /\ [][Next]_vars

\* Every task comes to its end: no wait for a row lasts for ever.
TasksEnd == \A w \in Workers : pc[w] # "idle" ~> pc[w] = "idle"

=============================================================================
