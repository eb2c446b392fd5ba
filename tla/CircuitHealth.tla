---------------------------- MODULE CircuitHealth ----------------------------
(***************************************************************************)
(* The statistics and the health score of a circuit                         *)
(* (app/services/reliability/circuit_breaker_service.py, calculate_health   *)
(* and what record_success and record_failure count).  The definitions that *)
(* take a worker are conjuncts to the actions of CircuitBreaker of that     *)
(* name: they count in the transaction that holds the row's lock.           *)
(*                                                                          *)
(* consecutive_failures equals failure_count, which CircuitBreaker keeps.   *)
(* success_rate and average_latency_ms are quotients of the sums kept here; *)
(* arithmetic is exact where the program's is in floating point.            *)
(***************************************************************************)
EXTENDS CircuitBreaker

CONSTANT Latencies   \* latency_ms of a request

ASSUME LatencyAssumption == Latencies \subseteq Nat

VARIABLES
  stats,  \* tenant -> the statistics in its row for the URL
  view,   \* worker -> the statistics it loaded under the lock
  tally   \* history: tenant -> successes and failures recorded

statvars == <<stats, view, tally>>

Health == {"healthy", "degraded", "unhealthy"}

Statistics == [total : Nat, ok : Nat, latency : Nat, health : Health]

NewStatistics == [total |-> 0, ok |-> 0, latency |-> 0, health |-> "healthy"]

StatsTypeOK ==
  /\ stats \in [Tenants -> Statistics]
  /\ view \in [Workers -> Statistics \cup {None}]
  /\ tally \in [Tenants -> [ok : Nat, bad : Nat]]

StatsInit ==
  /\ stats = [r \in Tenants |-> NewStatistics]
  /\ view = [w \in Workers |-> None]
  /\ tally = [r \in Tenants |-> [ok |-> 0, bad |-> 0]]

Clip(low, x, high) == IF x < low THEN low ELSE IF x > high THEN high ELSE x

\* Mutated form of Score: the streak of failures is not held against it.
ScoreForgiving(n, ok, latency, streakOf) ==
  LET slow == IF latency > 200 * n THEN latency - 200 * n ELSE 0
  IN  1000 * n - (Clip(0, slow, 500 * n) + 500 * (n - ok))

\* health_score times 10 n, of n requests: 20 points for each failure of the
\* streak, up to 50 for an average latency over 200 ms, half a point for each
\* percent of failures; between 0 and 100.
Score(n, ok, latency, streakOf) ==
  LET slow    == IF latency > 200 * n THEN latency - 200 * n ELSE 0
      penalty == 200 * streakOf * n + Clip(0, slow, 500 * n) + 500 * (n - ok)
  IN  1000 * n - Clip(0, penalty, 1000 * n)

HealthOf(s, streakOf) ==
  LET score == Score(s.total, s.ok, s.latency, streakOf)
  IN  IF score >= 800 * s.total THEN "healthy"
      ELSE IF score >= 500 * s.total THEN "degraded" ELSE "unhealthy"

\* calculate_health
Calculated(s, circuit) ==
  [s EXCEPT !.health = IF circuit.state = "open"
                         THEN "unhealthy" ELSE HealthOf(s, circuit.failure_count)]

LoadStats(w) ==
  /\ \E r \in Tenants : /\ lock[r] # w /\ lock'[r] = w
                        /\ view' = [view EXCEPT ![w] = stats[r]]
  /\ UNCHANGED <<stats, tally>>

StoreStats(w, s) ==
  /\ stats' = [stats EXCEPT ![tgt[w]] = Calculated(s, rows'[tgt[w]])]
  /\ view' = [view EXCEPT ![w] = None]

CountSuccess(w) ==
  /\ \E ms \in Latencies :
       StoreStats(w, [view[w] EXCEPT !.total = @ + 1, !.ok = @ + 1,
                                     !.latency = @ + ms])
  /\ tally' = [tally EXCEPT ![tgt[w]].ok = @ + 1]

\* Mutated form of CountFailure: the health is not recalculated.
CountFailureOnly(w) ==
  IF snap[w].state = "open"
    THEN UNCHANGED statvars
    ELSE /\ \E ms \in Latencies :
              stats' = [stats EXCEPT ![tgt[w]] =
                         [view[w] EXCEPT !.total = @ + 1, !.latency = @ + ms]]
         /\ view' = [view EXCEPT ![w] = None]
         /\ tally' = [tally EXCEPT ![tgt[w]].bad = @ + 1]

\* Nothing is counted against a circuit that is open.
CountFailure(w) ==
  IF snap[w].state = "open"
    THEN UNCHANGED statvars
    ELSE /\ \E ms \in Latencies :
              StoreStats(w, [view[w] EXCEPT !.total = @ + 1, !.latency = @ + ms])
         /\ tally' = [tally EXCEPT ![tgt[w]].bad = @ + 1]

ForgetStats(w) ==
  /\ view' = [view EXCEPT ![w] = None]
  /\ UNCHANGED <<stats, tally>>

(***************************************************************************)
(* The service alone: the actions of CircuitBreaker and what they count.    *)
(***************************************************************************)
HealthInit == CircuitInit /\ StatsInit

CountedStep(w) ==
  \/ /\ \/ LookUp(w)
        \/ \E t \in Tenants : LookUpMissing(w, t)
        \/ InsertCircuit(w) \/ ReadCreated(w) \/ HalfOpen(w)
     /\ UNCHANGED statvars
  \/ (\E ok \in BOOLEAN : Lock(w, ok)) /\ LoadStats(w)
  \/ RecordSuccess(w) /\ CountSuccess(w)
  \/ RecordFailure(w) /\ CountFailure(w)
  \/ (Leave(w) \/ Raise(w) \/ Crash(w)) /\ ForgetStats(w)

HealthNext ==
  \/ Tick /\ UNCHANGED statvars
  \/ \E w \in Workers : CountedStep(w)

healthvars == <<cbvars, statvars>>

HealthSpec == HealthInit /\ [][HealthNext]_healthvars

(***************************************************************************)
(* Properties.                                                              *)
(***************************************************************************)
\* No request is lost from a circuit's statistics however many workers record
\* at once (SELECT FOR UPDATE), and its streak of failures is among them.
StatisticsExact ==
  \A r \in Tenants :
    /\ stats[r].ok = tally[r].ok
    /\ stats[r].total = tally[r].ok + tally[r].bad
    /\ rows[r] # None => rows[r].failure_count <= stats[r].total - stats[r].ok

\* The health shown with a row that is open or closed is that of its state and
\* statistics; half_open keeps the health of the state it replaced
\* (should_allow_request does not recalculate it).
HealthIsCurrent ==
  \A r \in Existing :
    rows[r].state # "half_open" /\ stats[r].total > 0 =>
      stats[r] = Calculated(stats[r], rows[r])

Recovery(old, new) ==
  \/ old = "unhealthy" /\ new # "unhealthy"
  \/ old = "degraded" /\ new = "healthy"

\* A failure never makes a circuit healthier, however fast it came and however
\* slow the requests before it: what it takes off the average latency weighs
\* less than the failure.  (Of health_score this is not true: two failures may
\* score 5 where the first, slower one scored 0.)
FailureNeverHeals ==
  [][\A r \in Tenants :
       tally'[r].bad > tally[r].bad
         => ~Recovery(stats[r].health, stats'[r].health)]_healthvars

=============================================================================
