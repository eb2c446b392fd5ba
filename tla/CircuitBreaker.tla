--------------------------- MODULE CircuitBreaker ---------------------------
(***************************************************************************)
(* The circuit breaker of one endpoint URL                                  *)
(* (app/services/reliability/circuit_breaker_service.py), shared by all the *)
(* worker threads that deliver to that URL.                                 *)
(*                                                                          *)
(* The rows of table circuit_breakers for the URL are keyed by tenant       *)
(* (unique constraint (tenant_id, endpoint_url)), but every query filters   *)
(* on the URL alone and takes .first(): any existing row may be the one it  *)
(* gets.  should_allow_request reads and writes without a lock;             *)
(* record_success and record_failure run under SELECT ... FOR UPDATE.       *)
(* The ORM writes back the columns whose value differs from the loaded one. *)
(*                                                                          *)
(* consecutive_failures is assigned beside failure_count in every place it  *)
(* is assigned, so the model keeps one counter; the statistics and the      *)
(* health score never decide anything here.                                 *)
(***************************************************************************)
EXTENDS Naturals

CONSTANTS
  Workers,    \* worker threads
  Tenants,    \* tenants that deliver to this URL
  Threshold,  \* column failure_threshold
  Cooldown,   \* column cooldown_seconds, in clock units
  MaxTime,    \* bound on the clock
  None        \* SQL NULL, an absent row, no lock holder

CircuitRow == [state         : {"closed", "open", "half_open"},
               failure_count : Nat,
               opened_at     : Nat \cup {None}]

ASSUME CircuitAssumption ==
  /\ Threshold \in Nat \ {0}
  /\ Cooldown \in Nat
  /\ MaxTime \in Nat
  /\ None \notin Nat
  /\ None \notin CircuitRow
  /\ None \notin Workers
  /\ None \notin Tenants

VARIABLES
  rows,    \* tenant -> its row for the URL, or None
  lock,    \* tenant -> the worker whose transaction holds that row's lock
  now,     \* the clock
  cpc,     \* worker -> where it is in the calls of this service
  tgt,     \* worker -> the tenant whose row it works on
  snap,    \* worker -> the row it loaded under the lock
  streak   \* history: tenant -> failures committed since the last success

cbvars == <<rows, lock, now, cpc, tgt, snap, streak>>

CircuitPC == {"idle", "creating", "created", "poisoned", "half_opening",
              "blocked", "sending", "probing", "raised", "ok", "failed",
              "holding"}

(***************************************************************************)
(* The row's life.                                                          *)
(***************************************************************************)
\* Mutated form of NewCircuit: failure_count without its default.
NewCircuitUnset == [state |-> "closed", failure_count |-> None,
                    opened_at |-> None]

NewCircuit == [state |-> "closed", failure_count |-> 0, opened_at |-> None]

Existing == {r \in Tenants : rows[r] # None}

\* Mutated form of CooledDown: the cooldown ends one unit early.
CooledDownEarly(c) == c.opened_at # None /\ now + 1 - c.opened_at >= Cooldown

CooledDown(c) == c.opened_at # None /\ now - c.opened_at >= Cooldown

Succeeded(c) == [c EXCEPT !.state = "closed", !.failure_count = 0,
                          !.opened_at = None]

\* Mutated forms of Failed: the threshold missed by one; opened_at forgotten.
FailedLate(c, t) ==
  LET n == c.failure_count + 1
      opens == c.state = "half_open" \/ n > Threshold
  IN  [state         |-> IF opens THEN "open" ELSE c.state,
       failure_count |-> n,
       opened_at     |-> IF opens THEN t ELSE c.opened_at]
FailedUnstamped(c, t) ==
  LET n == c.failure_count + 1
      opens == c.state = "half_open" \/ n >= Threshold
  IN  [c EXCEPT !.state = IF opens THEN "open" ELSE @, !.failure_count = n]

Failed(c, t) ==
  LET n == c.failure_count + 1
      opens == c.state = "half_open" \/ n >= Threshold
  IN  [state         |-> IF opens THEN "open" ELSE c.state,
       failure_count |-> n,
       opened_at     |-> IF opens THEN t ELSE c.opened_at]

\* The UPDATE the ORM emits: only the columns changed since they were loaded.
Flush(row, loaded, new) ==
  [state         |-> IF new.state = loaded.state
                       THEN row.state ELSE new.state,
   failure_count |-> IF new.failure_count = loaded.failure_count
                       THEN row.failure_count ELSE new.failure_count,
   opened_at     |-> IF new.opened_at = loaded.opened_at
                       THEN row.opened_at ELSE new.opened_at]

(***************************************************************************)
(* Init and helpers.                                                        *)
(***************************************************************************)
CircuitTypeOK ==
  /\ rows \in [Tenants -> CircuitRow \cup {None}]
  /\ lock \in [Tenants -> Workers \cup {None}]
  /\ now \in Nat
  /\ cpc \in [Workers -> CircuitPC]
  /\ tgt \in [Workers -> Tenants \cup {None}]
  /\ snap \in [Workers -> CircuitRow \cup {None}]
  /\ streak \in [Tenants -> Nat]

\* At rest: no transaction, no clock reading, no failure recorded.
CircuitAtRest ==
  /\ lock = [r \in Tenants |-> None]
  /\ now = 0
  /\ cpc = [w \in Workers |-> "idle"]
  /\ tgt = [w \in Workers |-> None]
  /\ snap = [w \in Workers |-> None]
  /\ streak = [r \in Tenants |-> 0]

CircuitInit == rows = [r \in Tenants |-> None] /\ CircuitAtRest

At(w, pc) == cpc[w] = pc

GoTo(w, pc, t) == /\ cpc' = [cpc EXCEPT ![w] = pc]
                  /\ tgt' = [tgt EXCEPT ![w] = t]

\* The transaction of w ends: its row lock and its loaded row go.
EndTransaction(w) ==
  /\ lock' = [r \in Tenants |-> IF lock[r] = w THEN None ELSE lock[r]]
  /\ snap' = [snap EXCEPT ![w] = None]

(***************************************************************************)
(* should_allow_request: an unlocked read, then perhaps an insert or the    *)
(* write of half_open.  "sending" and "probing" tell whether a closed       *)
(* circuit or a half-open one let the request through.                      *)
(***************************************************************************)
Decide(w, r) ==
  /\ rows[r] # None
  /\ \/ rows[r].state = "closed" /\ GoTo(w, "sending", None)
     \/ rows[r].state = "half_open" /\ GoTo(w, "probing", None)
     \/ /\ rows[r].state = "open"
        /\ IF CooledDown(rows[r]) THEN GoTo(w, "half_opening", r)
                                  ELSE GoTo(w, "blocked", None)
  /\ UNCHANGED <<rows, lock, now, snap, streak>>

LookUp(w) == At(w, "idle") /\ \E r \in Tenants : Decide(w, r)

LookUpMissing(w, t) ==
  /\ At(w, "idle")
  /\ Existing = {}
  /\ GoTo(w, "creating", t)
  /\ UNCHANGED <<rows, lock, now, snap, streak>>

\* The INSERT of get_or_create; a row already there for (tenant, URL) raises
\* IntegrityError and leaves the session unusable.
InsertCircuit(w) ==
  /\ At(w, "creating")
  /\ \/ /\ rows[tgt[w]] = None
        /\ rows' = [rows EXCEPT ![tgt[w]] = NewCircuit]
        /\ GoTo(w, "created", tgt[w])
     \/ /\ rows[tgt[w]] # None
        /\ GoTo(w, "poisoned", None)
        /\ UNCHANGED rows
  /\ UNCHANGED <<lock, now, snap, streak>>

ReadCreated(w) == At(w, "created") /\ Decide(w, tgt[w])

\* Writes column state alone, whatever the row has become since it was read.
HalfOpen(w) ==
  /\ At(w, "half_opening")
  /\ lock[tgt[w]] = None
  /\ rows' = [rows EXCEPT ![tgt[w]] = [@ EXCEPT !.state = "half_open"]]
  /\ GoTo(w, "probing", None)
  /\ UNCHANGED <<lock, now, snap, streak>>

(***************************************************************************)
(* record_success and record_failure: SELECT ... FOR UPDATE, then a commit. *)
(* LookUp or InsertCircuit came before in the same task, and rows are never *)
(* deleted, so the branches that create a missing row here do not arise.    *)
(***************************************************************************)
\* Mutated form of Lock: the SELECT without FOR UPDATE.
LockIgnored(w, ok) ==
  /\ At(w, "sending") \/ At(w, "probing") \/ (At(w, "raised") /\ ~ok)
  /\ \E r \in Existing : /\ lock' = [lock EXCEPT ![r] = w]
                         /\ snap' = [snap EXCEPT ![w] = rows[r]]
                         /\ GoTo(w, IF ok THEN "ok" ELSE "failed", r)
  /\ UNCHANGED <<rows, now, streak>>

Lock(w, ok) ==
  /\ At(w, "sending") \/ At(w, "probing") \/ (At(w, "raised") /\ ~ok)
  /\ \E r \in Existing : /\ lock[r] = None
                         /\ lock' = [lock EXCEPT ![r] = w]
                         /\ snap' = [snap EXCEPT ![w] = rows[r]]
                         /\ GoTo(w, IF ok THEN "ok" ELSE "failed", r)
  /\ UNCHANGED <<rows, now, streak>>

RecordSuccess(w) ==
  /\ At(w, "ok")
  /\ rows' = [rows EXCEPT ![tgt[w]] = Flush(@, snap[w], Succeeded(snap[w]))]
  /\ streak' = [streak EXCEPT ![tgt[w]] = 0]
  /\ EndTransaction(w)
  /\ GoTo(w, "idle", None)
  /\ UNCHANGED now

\* On an open circuit it returns without a commit: the lock is kept until the
\* caller's next one (Leave).
RecordFailure(w) ==
  /\ At(w, "failed")
  /\ \/ /\ snap[w].state = "open"
        /\ GoTo(w, "holding", tgt[w])
        /\ UNCHANGED <<rows, lock, snap, streak>>
     \/ /\ snap[w].state # "open"
        /\ rows' = [rows EXCEPT ![tgt[w]] =
                      Flush(@, snap[w], Failed(snap[w], now))]
        /\ streak' = [streak EXCEPT ![tgt[w]] = @ + 1]
        /\ EndTransaction(w)
        /\ GoTo(w, "idle", None)
  /\ UNCHANGED now

(***************************************************************************)
(* How a task leaves the service, and what can cut it short.                *)
(***************************************************************************)
\* Mutated form of Leave: there is no commit, the lock stays.
LeaveLocked(w) ==
  /\ At(w, "holding") \/ At(w, "blocked") \/ At(w, "poisoned")
  /\ GoTo(w, "idle", None)
  /\ UNCHANGED <<rows, lock, now, snap, streak>>

\* The caller's next commit, after a refusal or a failure on an open circuit;
\* or the end of a task whose insert failed.
Leave(w) ==
  /\ At(w, "holding") \/ At(w, "blocked") \/ At(w, "poisoned")
  /\ EndTransaction(w)
  /\ GoTo(w, "idle", None)
  /\ UNCHANGED <<rows, now, streak>>

\* An exception other than the endpoint's answer (the broker refusing a
\* send_task) takes process_event to its except block, which records a failure.
Raise(w) ==
  /\ At(w, "idle") \/ At(w, "blocked")
  /\ Existing # {}
  /\ GoTo(w, "raised", None)
  /\ UNCHANGED <<rows, lock, now, snap, streak>>

\* The worker process dies: the database rolls its transaction back.
Crash(w) ==
  /\ ~At(w, "idle")
  /\ EndTransaction(w)
  /\ GoTo(w, "idle", None)
  /\ UNCHANGED <<rows, now, streak>>

Tick ==
  /\ now < MaxTime
  /\ now' = now + 1
  /\ UNCHANGED <<rows, lock, cpc, tgt, snap, streak>>

CircuitStep(w) ==
  \/ LookUp(w)
  \/ \E t \in Tenants : LookUpMissing(w, t)
  \/ InsertCircuit(w)
  \/ ReadCreated(w)
  \/ HalfOpen(w)
  \/ \E ok \in BOOLEAN : Lock(w, ok)
  \/ RecordSuccess(w)
  \/ RecordFailure(w)
  \/ Leave(w)
  \/ Raise(w)
  \/ Crash(w)

CircuitNext == Tick \/ \E w \in Workers : CircuitStep(w)

CircuitSpec == CircuitInit /\ [][CircuitNext]_cbvars

(***************************************************************************)
(* Properties.                                                              *)
(***************************************************************************)
\* Every failure counts: however many workers fail at once, failure_count is
\* the number of failures committed since the last success
\* (record_success / record_failure under SELECT FOR UPDATE).
NoLostFailure ==
  \A r \in Tenants : rows[r] # None => rows[r].failure_count = streak[r]

\* "Threshold is exact": a circuit that still lets every request through has
\* seen fewer than failure_threshold failures in a row.
ThresholdIsExact ==
  \A r \in Tenants :
    rows[r] # None => (rows[r].state = "closed" => streak[r] < Threshold)

\* An open circuit has the time it opened, so should_allow_request never takes
\* the branch that would block the endpoint for ever (opened_at IS NULL), and
\* it was opened by a failure no success has answered.
OpenIsStamped ==
  \A r \in Tenants :
    rows[r] # None =>
      (rows[r].state = "open" => /\ rows[r].opened_at # None
                                 /\ rows[r].opened_at <= now
                                 /\ streak[r] > 0)

\* A row a worker has locked is the row it loaded until it commits, although
\* the half_open writer takes no lock itself; also when record_failure returned
\* early and left its commit to the caller ("holding").
LockedRowIsCurrent ==
  \A w \in Workers :
    cpc[w] \in {"ok", "failed", "holding"} => /\ lock[tgt[w]] = w
                                              /\ snap[w] = rows[tgt[w]]

\* README, circuit breaker: HALF_OPEN lets one test request probe the endpoint.
OneProbe ==
  \A v, w \in Workers : At(v, "probing") /\ At(w, "probing") => v = w

\* README, circuit breaker transitions: a circuit becomes half-open only from
\* open and only once its cooldown has elapsed.
BecomesHalfOpen(r) ==
  /\ rows[r] # None /\ rows'[r] # None
  /\ rows[r].state # "half_open" /\ rows'[r].state = "half_open"

HalfOpenAfterCooldown ==
  [][\A r \in Tenants :
       BecomesHalfOpen(r) => rows[r].state = "open" /\ CooledDown(rows[r])]_cbvars

\* README, circuit breaker transitions: an open circuit becomes half-open before
\* it closes, so that its endpoint has its cooldown (record_success).
StaysOpenUntilProbed ==
  [][\A r \in Tenants :
       rows[r] # None /\ rows[r].state = "open"
         => rows'[r].state # "closed"]_cbvars

=============================================================================
