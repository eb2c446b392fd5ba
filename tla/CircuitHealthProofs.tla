------------------------- MODULE CircuitHealthProofs -------------------------
(***************************************************************************)
(* Theorems of CircuitHealth, for any number of workers and tenants and any *)
(* latencies.                                                               *)
(*                                                                          *)
(* As for the row itself, that nothing is lost from the statistics needs    *)
(* the loaded ones to be the current ones (Views), which the row's lock     *)
(* brings about; a row that is missing has none (Blank).                    *)
(***************************************************************************)
EXTENDS CircuitHealth, CircuitBreakerProofs

Recording == {"ok", "failed"}

Views ==
  \A w \in Workers : cpc[w] \in Recording => view[w] = stats[tgt[w]]

Blank == \A r \in Tenants : rows[r] = None => stats[r].total = 0

\* record_failure keeps the lock of a circuit it found open.
HoldingOpen ==
  \A w \in Workers : At(w, "holding") => rows[tgt[w]].state = "open"

HealthInv ==
  /\ CircuitInv
  /\ StatsTypeOK
  /\ Views
  /\ Blank
  /\ HoldingOpen
  /\ StatisticsExact
  /\ HealthIsCurrent

LEMMA HealthInitially ==
  ASSUME CircuitInv, StatsInit, \A w \in Workers : cpc[w] = "idle",
         \A r \in Tenants : rows[r] # None => rows[r] = NewCircuit
  PROVE  HealthInv
<1>1. StatsTypeOK
  BY DEF StatsInit, StatsTypeOK, Statistics, NewStatistics, Health
<1>2. Views /\ Blank /\ HoldingOpen
  BY DEF Views, Blank, HoldingOpen, StatsInit, NewStatistics, Recording, At
<1>3. StatisticsExact
  BY NewRow DEF StatisticsExact, StatsInit, NewStatistics
<1>4. HealthIsCurrent
  BY DEF HealthIsCurrent, StatsInit, NewStatistics, Existing
<1>5. QED
  BY <1>1, <1>2, <1>3, <1>4 DEF HealthInv
-----------------------------------------------------------------------------
(* The shapes a step can have. *)

\* A step of w that counts nothing and leaves w without statistics to store.
LEMMA QuietKeeps ==
  ASSUME HealthInv, CircuitInv', NEW w \in Workers,
         UNCHANGED <<stats, tally>>,
         UNCHANGED view \/ view' = [view EXCEPT ![w] = None],
         \A v \in Workers : v # w => cpc'[v] = cpc[v] /\ tgt'[v] = tgt[v],
         cpc'[w] \notin Recording,
         At(w, "holding")' => rows'[tgt'[w]].state = "open",
         \A r \in Tenants :
           \/ rows'[r] = rows[r]
           \/ rows[r] = None /\ rows'[r] = NewCircuit
           \/ /\ rows[r] # None /\ rows'[r] # None
              /\ rows'[r].failure_count = rows[r].failure_count
              /\ rows'[r].state = "half_open"
              /\ lock[r] = None
  PROVE  HealthInv'
<1>1. StatsTypeOK'
  BY DEF HealthInv, StatsTypeOK
<1>2. Views'
  BY DEF HealthInv, StatsTypeOK, Views
<1>3. Blank'
  BY CircuitAssumption, NewRow DEF HealthInv, Blank
<1>4. HoldingOpen'
  <2> SUFFICES ASSUME NEW v \in Workers, v # w, At(v, "holding")'
               PROVE  rows'[tgt'[v]].state = "open"
    BY DEF HoldingOpen
  <2>1. At(v, "holding") /\ tgt'[v] = tgt[v] /\ tgt[v] \in Tenants
    BY DEF At, HealthInv, CircuitInv, Targeting, HasRow
  <2>2. lock[tgt[v]] # None /\ rows[tgt[v]] # None
    BY <2>1, CircuitAssumption
       DEF At, HealthInv, CircuitInv, LockOwners, HasLock, Targeting, HasRow
  <2>3. QED
    BY <2>1, <2>2 DEF HealthInv, HoldingOpen
<1>5. StatisticsExact'
  <2>1. \A r \in Tenants : stats[r].total - stats[r].ok \in Nat
    BY DEF HealthInv, StatsTypeOK, Statistics, StatisticsExact
  <2>2. QED
    BY <2>1, NewRow DEF HealthInv, StatisticsExact
<1>6. HealthIsCurrent'
  BY DEF HealthInv, HealthIsCurrent, Existing, Blank
<1>7. QED
  BY <1>1, <1>2, <1>3, <1>4, <1>5, <1>6 DEF HealthInv

\* calculate_health changes the health alone, and by the rest alone.
LEMMA HealthOfRest ==
  ASSUME NEW s \in Statistics, NEW h, NEW n
  PROVE  HealthOf([s EXCEPT !.health = h], n) = HealthOf(s, n)
BY DEF HealthOf, Statistics

LEMMA HealthOfType ==
  ASSUME NEW s, NEW n
  PROVE  HealthOf(s, n) \in Health
<1> HIDE DEF Score
<1>1. QED
  BY DEF HealthOf, Health

LEMMA CalculatedStats ==
  ASSUME NEW s \in Statistics, NEW c
  PROVE  /\ Calculated(s, c) \in Statistics
         /\ Calculated(s, c).total = s.total
         /\ Calculated(s, c).ok = s.ok
         /\ Calculated(Calculated(s, c), c) = Calculated(s, c)
<1> DEFINE h(x) == IF c.state = "open" THEN "unhealthy"
                                       ELSE HealthOf(x, c.failure_count)
<1>1. \A x : h(x) \in Health
  BY HealthOfType DEF Health
<1>2. \A x : Calculated(x, c) = [x EXCEPT !.health = h(x)]
  BY DEF Calculated
<1>3. h([s EXCEPT !.health = h(s)]) = h(s)
  BY HealthOfRest
<1> HIDE DEF h
<1>4. Calculated(s, c) = [s EXCEPT !.health = h(s)]
  BY <1>2
<1>5. Calculated(Calculated(s, c), c) =
        [[s EXCEPT !.health = h(s)] EXCEPT !.health = h(s)]
  BY <1>2, <1>3, <1>4
<1>6. QED
  BY <1>1, <1>4, <1>5 DEF Statistics

LEMMA OneMore ==
  ASSUME NEW x \in Statistics, NEW n \in {0, 1}, NEW ms \in Nat
  PROVE  LET y == [x EXCEPT !.total = @ + 1, !.ok = @ + n, !.latency = @ + ms]
         IN  /\ y \in Statistics /\ y.total = x.total + 1 /\ y.ok = x.ok + n
             /\ y.latency = x.latency + ms
<1> DEFINE u == [x EXCEPT !.total = x.total + 1]
           v == [u EXCEPT !.ok = x.ok + n]
           y == [v EXCEPT !.latency = x.latency + ms]
<1>1. u \in Statistics /\ u.total = x.total + 1 /\ u.ok = x.ok
  BY DEF Statistics
<1>2. v \in Statistics /\ v.total = u.total /\ v.ok = x.ok + n
  <2> HIDE DEF u
  <2>1. QED
    BY <1>1 DEF Statistics
<1>3. /\ y \in Statistics /\ y.total = v.total /\ y.ok = v.ok
      /\ y.latency = x.latency + ms
  <2> HIDE DEF v
  <2>1. QED
    BY <1>2 DEF Statistics
<1>4. [x EXCEPT !.total = @ + 1, !.ok = @ + n, !.latency = @ + ms] = y
  OBVIOUS
<1>5. QED
  <2> HIDE DEF y
  <2>1. QED
    BY <1>1, <1>2, <1>3, <1>4

\* A failure is a request more of which none succeeded.
LEMMA OneFailureMore ==
  ASSUME NEW x \in Statistics, NEW ms
  PROVE  [x EXCEPT !.total = @ + 1, !.latency = @ + ms]
           = [x EXCEPT !.total = @ + 1, !.ok = @ + 0, !.latency = @ + ms]
<1> DEFINE u == [x EXCEPT !.total = @ + 1]
           v == [u EXCEPT !.ok = x.ok + 0]
<1>1. u \in Statistics /\ u.ok = x.ok + 0
  BY DEF Statistics
<1>2. v = u
  <2> HIDE DEF u
  <2> QED BY <1>1 DEF Statistics
<1> QED BY <1>2

\* The commit of w stores what it loaded, one request more, with the row.
LEMMA CountKeeps ==
  ASSUME HealthInv, CircuitInv', NEW w \in Workers, cpc[w] \in Recording,
         NEW ms \in Nat, NEW ok \in {0, 1},
         stats' = [stats EXCEPT ![tgt[w]] =
           Calculated([view[w] EXCEPT !.total = @ + 1, !.ok = @ + ok,
                                      !.latency = @ + ms], rows'[tgt[w]])],
         view' = [view EXCEPT ![w] = None],
         tally' = [tally EXCEPT ![tgt[w]] =
                     [ok |-> @.ok + ok, bad |-> @.bad + (1 - ok)]],
         \A v \in Workers : v # w => cpc'[v] = cpc[v] /\ tgt'[v] = tgt[v],
         cpc'[w] = "idle",
         \A r \in Tenants : r # tgt[w] => rows'[r] = rows[r],
         rows'[tgt[w]].failure_count
           \in {0, rows[tgt[w]].failure_count + (1 - ok)},
         rows'[tgt[w]] # None
  PROVE  HealthInv'
<1> DEFINE t == tgt[w]
           s == [view[w] EXCEPT !.total = @ + 1, !.ok = @ + ok,
                                !.latency = @ + ms]
<1>1. /\ t \in Tenants /\ rows[t] # None
      /\ view[w] = stats[t] /\ stats[t] \in Statistics
  BY LoadedRow DEF HealthInv, Views, Recording, StatsTypeOK
<1>2. /\ Calculated(s, rows'[t]) \in Statistics
      /\ Calculated(s, rows'[t]).total = stats[t].total + 1
      /\ Calculated(s, rows'[t]).ok = stats[t].ok + ok
  <2>0. \A x \in Statistics, n \in {0, 1}, m \in Nat :
          LET y == [x EXCEPT !.total = @ + 1, !.ok = @ + n, !.latency = @ + m]
          IN  /\ y \in Statistics /\ y.total = x.total + 1 /\ y.ok = x.ok + n
              /\ y.latency = x.latency + m
    BY OneMore
  <2>1. s \in Statistics /\ s.total = stats[t].total + 1 /\ s.ok = stats[t].ok + ok
    <3>1. view[w] \in Statistics
      BY <1>1
    <3>2. /\ s \in Statistics /\ s.total = view[w].total + 1 /\ s.ok = view[w].ok + ok
          /\ s.latency = view[w].latency + ms
      BY <2>0, <3>1
    <3>3. QED
      BY <1>1, <3>2
  <2> HIDE DEF s
  <2>2. QED
    BY <2>1, CalculatedStats
<1>3. Calculated(Calculated(s, rows'[t]), rows'[t]) = Calculated(s, rows'[t])
  <2>1. s \in Statistics
    BY <1>1, OneMore DEF s
  <2> HIDE DEF s
  <2>2. QED
    BY <2>1, CalculatedStats
<1>4. stats' = [stats EXCEPT ![t] = Calculated(s, rows'[t])]
  OBVIOUS
<1>5. StatsTypeOK'
  BY <1>1, <1>2, <1>4 DEF HealthInv, StatsTypeOK
<1>6. Views'
  <2> SUFFICES ASSUME NEW v \in Workers, v # w, cpc[v] \in Recording
               PROVE  view'[v] = stats'[tgt[v]]
    BY DEF Views, Recording
  <2>1. tgt[v] # t /\ tgt[v] \in Tenants
    BY <1>1, LoadedRow
       DEF HealthInv, CircuitInv, LockOwners, Recording, HasLock
  <2>2. QED
    BY <1>4, <2>1 DEF HealthInv, StatsTypeOK, Views
<1>7. Blank'
  BY <1>4 DEF HealthInv, StatsTypeOK, Blank
<1>8. HoldingOpen'
  <2> SUFFICES ASSUME NEW v \in Workers, v # w, At(v, "holding")
               PROVE  rows'[tgt[v]].state = "open"
    BY DEF HoldingOpen, At
  <2>1. tgt[v] # t /\ tgt[v] \in Tenants
    BY <1>1 DEF HealthInv, CircuitInv, LockOwners, Targeting, Recording, HasLock,
                HasRow, At
  <2>2. QED
    BY <2>1 DEF HealthInv, HoldingOpen
<1>9. StatisticsExact'
  <2>1. stats[t].total \in Nat /\ stats[t].ok \in Nat
    BY <1>1 DEF Statistics
  <2>2. rows[t].failure_count \in Nat /\ tally[t].ok \in Nat /\ tally[t].bad \in Nat
    BY <1>1 DEF HealthInv, CircuitInv, CircuitTypeOK, CircuitRow, StatsTypeOK
  <2>3. /\ stats[t].ok = tally[t].ok
        /\ stats[t].total = tally[t].ok + tally[t].bad
        /\ rows[t].failure_count <= stats[t].total - stats[t].ok
    BY <1>1 DEF HealthInv, StatisticsExact
  <2>4. /\ tally'[t].ok = tally[t].ok + ok
        /\ tally'[t].bad = tally[t].bad + (1 - ok)
        /\ stats'[t].ok = stats[t].ok + ok
        /\ stats'[t].total = stats[t].total + 1
    BY <1>1, <1>2, <1>4 DEF HealthInv, StatsTypeOK
  <2>5. /\ stats'[t].ok = tally'[t].ok
        /\ stats'[t].total = tally'[t].ok + tally'[t].bad
        /\ rows'[t].failure_count <= stats'[t].total - stats'[t].ok
    BY <2>1, <2>2, <2>3, <2>4
  <2>6. ASSUME NEW r \in Tenants, r # t
        PROVE  stats'[r] = stats[r] /\ tally'[r] = tally[r] /\ rows'[r] = rows[r]
    BY <1>4, <2>6 DEF HealthInv, StatsTypeOK
  <2>7. QED
    BY <2>5, <2>6 DEF HealthInv, StatisticsExact
<1>10. HealthIsCurrent'
  <2>1. ASSUME NEW r \in Tenants, r # t
        PROVE  stats'[r] = stats[r] /\ rows'[r] = rows[r]
    BY <1>4, <2>1 DEF HealthInv, StatsTypeOK
  <2>2. stats'[t] = Calculated(stats'[t], rows'[t])
    BY <1>1, <1>3, <1>4 DEF HealthInv, StatsTypeOK
  <2>3. QED
    BY <2>1, <2>2 DEF HealthInv, HealthIsCurrent, Existing
<1>11. QED
  BY <1>5, <1>6, <1>7, <1>8, <1>9, <1>10 DEF HealthInv

\* w takes the row's lock and loads the statistics with the row.
LEMMA LockKeeps ==
  ASSUME HealthInv, CircuitInv', NEW w \in Workers, NEW ok \in BOOLEAN,
         Lock(w, ok), LoadStats(w)
  PROVE  HealthInv'
<1>1. PICK r \in Existing :
        /\ lock[r] = None /\ lock' = [lock EXCEPT ![r] = w]
        /\ GoTo(w, IF ok THEN "ok" ELSE "failed", r)
        /\ UNCHANGED <<rows, now, streak>>
  BY DEF Lock
<1>2. r \in Tenants /\ None # w
  BY CircuitAssumption DEF Existing
<1>3. view' = [view EXCEPT ![w] = stats[r]]
  BY <1>1, <1>2 DEF LoadStats, HealthInv, CircuitInv, CircuitTypeOK
<1>4. /\ UNCHANGED <<stats, tally, rows>>
      /\ cpc' = [cpc EXCEPT ![w] = IF ok THEN "ok" ELSE "failed"]
      /\ tgt' = [tgt EXCEPT ![w] = r]
  BY <1>1 DEF LoadStats, GoTo
<1>5. StatsTypeOK' /\ Views'
  BY <1>2, <1>3, <1>4
     DEF HealthInv, StatsTypeOK, Views, CircuitInv, CircuitTypeOK
<1>6. Blank' /\ StatisticsExact'
  BY <1>4 DEF HealthInv, Blank, StatisticsExact
<1>7. HoldingOpen'
  BY <1>4 DEF HealthInv, HoldingOpen, At, CircuitInv, CircuitTypeOK
<1>8. HealthIsCurrent'
  BY <1>4 DEF HealthInv, HealthIsCurrent, Existing
<1>9. QED
  BY <1>5, <1>6, <1>7, <1>8 DEF HealthInv

LEMMA SuccessKeeps ==
  ASSUME HealthInv, CircuitInv', NEW w \in Workers,
         RecordSuccess(w), CountSuccess(w)
  PROVE  HealthInv'
<1>1. /\ cpc[w] \in Recording /\ tgt[w] \in Tenants
      /\ rows[tgt[w]] = snap[w] /\ snap[w] \in CircuitRow
  BY LoadedRow DEF RecordSuccess, At, Recording, HealthInv
<1>2. Succeeded(snap[w]) \in CircuitRow /\ Succeeded(snap[w]).failure_count = 0
  BY <1>1, SucceededRow
<1>3. rows' = [rows EXCEPT ![tgt[w]] = Succeeded(snap[w])]
  BY <1>1, <1>2, FlushCurrent DEF RecordSuccess
<1>4. /\ rows'[tgt[w]].failure_count = 0 /\ rows'[tgt[w]] # None
      /\ \A r \in Tenants : r # tgt[w] => rows'[r] = rows[r]
  BY <1>1, <1>2, <1>3, CircuitAssumption DEF HealthInv, CircuitInv, CircuitTypeOK
<1>5. /\ cpc'[w] = "idle"
      /\ \A v \in Workers : v # w => cpc'[v] = cpc[v] /\ tgt'[v] = tgt[v]
  BY DEF RecordSuccess, GoTo, HealthInv, CircuitInv, CircuitTypeOK
<1>6. PICK ms \in Latencies :
        StoreStats(w, [view[w] EXCEPT !.total = @ + 1, !.ok = @ + 1,
                                      !.latency = @ + ms])
  BY DEF CountSuccess
<1>7. tally' = [tally EXCEPT ![tgt[w]] = [ok |-> @.ok + 1, bad |-> @.bad + (1 - 1)]]
  <2>1. tally[tgt[w]] \in [ok : Nat, bad : Nat]
    BY <1>1 DEF HealthInv, StatsTypeOK
  <2>2. [tally[tgt[w]] EXCEPT !.ok = @ + 1]
          = [ok |-> tally[tgt[w]].ok + 1, bad |-> tally[tgt[w]].bad + (1 - 1)]
    BY <2>1
  <2>3. QED
    BY <2>2 DEF CountSuccess
<1>8. ms \in Nat
  BY LatencyAssumption
<1>9. QED
  BY <1>1, <1>4, <1>5, <1>6, <1>7, <1>8, CountKeeps DEF StoreStats

LEMMA FailureKeeps ==
  ASSUME HealthInv, CircuitInv', NEW w \in Workers,
         RecordFailure(w), CountFailure(w)
  PROVE  HealthInv'
<1>1. /\ cpc[w] \in Recording /\ cpc[w] = "failed" /\ tgt[w] \in Tenants
      /\ rows[tgt[w]] = snap[w] /\ snap[w] \in CircuitRow
  BY LoadedRow DEF RecordFailure, At, Recording, HealthInv
<1>2. CASE snap[w].state = "open"
  <2>1. /\ UNCHANGED statvars /\ UNCHANGED rows
        /\ GoTo(w, "holding", tgt[w])
    BY <1>2 DEF CountFailure, RecordFailure
  <2>2. QED
    BY <1>1, <1>2, <2>1, QuietKeeps
       DEF statvars, GoTo, HealthInv, CircuitInv, CircuitTypeOK, Recording
<1>3. CASE snap[w].state # "open"
  <2>1. /\ Failed(snap[w], now) \in CircuitRow
        /\ Failed(snap[w], now).failure_count = snap[w].failure_count + 1
    BY <1>1, <1>3, FailedRow DEF HealthInv, CircuitInv, CircuitTypeOK
  <2>2. rows' = [rows EXCEPT ![tgt[w]] = Failed(snap[w], now)]
    BY <1>1, <1>3, <2>1, FlushCurrent DEF RecordFailure
  <2>3. /\ rows'[tgt[w]].failure_count = rows[tgt[w]].failure_count + 1
        /\ rows'[tgt[w]] # None
        /\ \A r \in Tenants : r # tgt[w] => rows'[r] = rows[r]
    BY <1>1, <2>1, <2>2, CircuitAssumption
       DEF HealthInv, CircuitInv, CircuitTypeOK
  <2>4. /\ cpc'[w] = "idle"
        /\ \A v \in Workers : v # w => cpc'[v] = cpc[v] /\ tgt'[v] = tgt[v]
    BY <1>3 DEF RecordFailure, GoTo, HealthInv, CircuitInv, CircuitTypeOK
  <2>5. PICK ms \in Latencies :
          StoreStats(w, [view[w] EXCEPT !.total = @ + 1, !.latency = @ + ms])
    BY <1>3 DEF CountFailure
  <2>6. view[w] \in Statistics
    BY <1>1 DEF HealthInv, Views, StatsTypeOK
  <2>7. [view[w] EXCEPT !.total = @ + 1, !.latency = @ + ms]
          = [view[w] EXCEPT !.total = @ + 1, !.ok = @ + 0, !.latency = @ + ms]
    BY <2>6, OneFailureMore
  <2>8. tally' = [tally EXCEPT ![tgt[w]] = [ok |-> @.ok + 0, bad |-> @.bad + (1 - 0)]]
    <3>1. tally[tgt[w]] \in [ok : Nat, bad : Nat]
      BY <1>1 DEF HealthInv, StatsTypeOK
    <3>2. [tally[tgt[w]] EXCEPT !.bad = @ + 1]
            = [ok |-> tally[tgt[w]].ok + 0, bad |-> tally[tgt[w]].bad + (1 - 0)]
      BY <3>1
    <3>3. QED
      BY <1>3, <3>2 DEF CountFailure
  <2>9. ms \in Nat /\ rows[tgt[w]].failure_count + 1
                        = rows[tgt[w]].failure_count + (1 - 0)
    BY LatencyAssumption
  <2>10. QED
    BY <1>1, <2>3, <2>4, <2>5, <2>7, <2>8, <2>9, CountKeeps DEF StoreStats
<1>4. QED
  BY <1>2, <1>3
-----------------------------------------------------------------------------
(* Every step, and the end of a task that has no statistics to forget. *)

ForgetsNothing(w) ==
  /\ cpc[w] \notin Recording
  /\ UNCHANGED <<rows, lock, cpc, tgt, snap>> /\ ForgetStats(w)

LEMMA HealthStep ==
  ASSUME HealthInv, CircuitInv',
         \/ [HealthNext]_healthvars
         \/ \E w \in Workers : ForgetsNothing(w)
  PROVE  HealthInv'
<1> USE DEF HealthInv
<1>1. ASSUME NEW w \in Workers, ForgetsNothing(w)
      PROVE  HealthInv'
  BY <1>1, QuietKeeps DEF ForgetsNothing, ForgetStats, HoldingOpen, At
<1>2. CASE UNCHANGED healthvars \/ (Tick /\ UNCHANGED statvars)
  BY <1>2 DEF healthvars, cbvars, statvars, Tick, StatsTypeOK, Views, Blank,
              HoldingOpen, At, StatisticsExact, HealthIsCurrent, Existing
<1>3. ASSUME NEW w \in Workers, CountedStep(w)
      PROVE  HealthInv'
  <2>1. ASSUME NEW r, Decide(w, r), UNCHANGED statvars
        PROVE  HealthInv'
    BY <2>1, QuietKeeps
       DEF Decide, GoTo, statvars, Recording, At, CircuitInv, CircuitTypeOK
  <2>2. ASSUME NEW t \in Tenants, LookUpMissing(w, t), UNCHANGED statvars
        PROVE  HealthInv'
    BY <2>2, QuietKeeps
       DEF LookUpMissing, GoTo, statvars, Recording, At, CircuitInv,
           CircuitTypeOK
  <2>3. CASE InsertCircuit(w) /\ UNCHANGED statvars
    BY <2>3, QuietKeeps
       DEF InsertCircuit, GoTo, statvars, Recording, At, CircuitInv,
           CircuitTypeOK
  <2>4. CASE HalfOpen(w) /\ UNCHANGED statvars
    <3>1. /\ tgt[w] \in Tenants /\ rows[tgt[w]] \in CircuitRow
          /\ rows' = [rows EXCEPT ![tgt[w]] = [@ EXCEPT !.state = "half_open"]]
          /\ lock[tgt[w]] = None
      BY <2>4 DEF HalfOpen, At, CircuitInv, CircuitTypeOK, Targeting, HasRow
    <3>2. /\ rows'[tgt[w]] \in CircuitRow /\ rows'[tgt[w]] # None
          /\ rows'[tgt[w]].failure_count = rows[tgt[w]].failure_count
          /\ rows'[tgt[w]].state = "half_open"
          /\ rows[tgt[w]] # None
          /\ \A r \in Tenants : r # tgt[w] => rows'[r] = rows[r]
      BY <3>1, CircuitAssumption DEF CircuitRow, CircuitInv, CircuitTypeOK
    <3>3. QED
      BY <2>4, <3>1, <3>2, QuietKeeps
         DEF HalfOpen, GoTo, statvars, Recording, At, CircuitInv, CircuitTypeOK
  <2>5. CASE (Leave(w) \/ Raise(w) \/ Crash(w)) /\ ForgetStats(w)
    BY <2>5, QuietKeeps
       DEF Leave, Raise, Crash, GoTo, ForgetStats, Recording, At, CircuitInv,
           CircuitTypeOK
  <2>6. QED
    BY <1>3, <2>1, <2>2, <2>3, <2>4, <2>5, LockKeeps, SuccessKeeps, FailureKeeps
       DEF CountedStep, LookUp, ReadCreated
<1>4. QED
  BY <1>1, <1>2, <1>3 DEF HealthNext

LEMMA HealthInvariant == HealthSpec => []HealthInv
<1>1. HealthInit => HealthInv
  BY InitInv, HealthInitially DEF HealthInit, CircuitInit, CircuitAtRest
<1>2. HealthInv /\ [HealthNext]_healthvars => HealthInv'
  <2>1. [HealthNext]_healthvars => [CircuitNext]_cbvars
    BY DEF HealthNext, CountedStep, CircuitNext, CircuitStep, healthvars
  <2>2. QED
    BY <2>1, StepInv, HealthStep DEF HealthInv
<1>3. QED
  BY <1>1, <1>2, PTL DEF HealthSpec

\* No request is lost from a circuit's statistics however many workers record
\* at once, and its streak of failures is among them.
THEOREM StatisticsAreExact == HealthSpec => []StatisticsExact
BY HealthInvariant, PTL DEF HealthInv

\* The health shown with a row is that of its state and statistics, unless
\* the row is half_open.
THEOREM HealthStaysCurrent == HealthSpec => []HealthIsCurrent
BY HealthInvariant, PTL DEF HealthInv

-----------------------------------------------------------------------------
(* A failure never heals. *)

\* What n requests that took this long cost, whatever their results.
Slowness(n, latency) ==
  LET slow == IF latency > 200 * n THEN latency - 200 * n ELSE 0
  IN  Clip(0, slow, 500 * n)

\* What the health says of n requests, ok of them answered, the last k not.
Penalty(n, ok, latency, k) ==
  200 * k * n + Slowness(n, latency) + 500 * (n - ok)

\* A request more takes 200 ms off the excess at most.
LEMMA MoreSlow ==
  \A n, l, m, h \in Nat : m > n /\ h >= l =>
    /\ Slowness(n, l) \in Nat /\ Slowness(m, h) \in Nat
    /\ \/ Slowness(m, h) + 200 * (m - n) >= Slowness(n, l)
       \/ Slowness(m, h) = 500 * m
  BY DEF Slowness, Clip

\* After the later penalty a circuit is not healthy, and is degraded only if
\* it was not unhealthy before.
Worse(n, ok, l, k, m, h, j) ==
  LET p == Penalty(n, ok, l, k)
      q == Penalty(m, ok, h, j)
  IN  /\ p \in Nat /\ q \in Nat
      /\ q > 200 * m
      /\ q <= 500 * m => p <= 500 * n

\* Requests none of which succeeded make the penalty worse.
LEMMA FailureWeighs ==
  ASSUME NEW n \in Nat, NEW ok \in Nat, ok <= n, NEW l \in Nat, NEW k \in Nat,
         NEW m \in Nat, m > n, NEW h \in Nat, h >= l, NEW j \in Nat, j > k
  PROVE  Worse(n, ok, l, k, m, h, j)
<1> DEFINE c == Slowness(n, l)
           e == Slowness(m, h)
           p == 200 * k * n + c + 500 * (n - ok)
           q == 200 * j * m + e + 500 * (m - ok)
<1>1. c \in Nat /\ e \in Nat /\ (e + 200 * (m - n) >= c \/ e = 500 * m)
  BY MoreSlow
<1> HIDE DEF c, e
<1>2. p \in Nat /\ q \in Nat
  <2>1. 200 * k * n \in Nat /\ 200 * j * m \in Nat
    <3>1. \A a, b \in Nat : a * b \in Nat
      OBVIOUS
    <3>2. 200 * k \in Nat /\ 200 * j \in Nat
      OBVIOUS
    <3> QED BY <3>1, <3>2
  <2> QED BY <1>1, <2>1
<1>3. CASE k = 0
  <2>1. p = c + 500 * (n - ok) /\ q >= 200 * m + e + 500 * (m - ok)
    BY <1>1, <1>3
  <2> QED BY <1>1, <1>2, <2>1 DEF Worse, Penalty, c, e
<1>4. CASE k = 1
  <2>1. p = 200 * n + c + 500 * (n - ok) /\ q >= 400 * m + e + 500 * (m - ok)
    BY <1>1, <1>4
  <2> QED BY <1>1, <1>2, <2>1 DEF Worse, Penalty, c, e
<1>5. CASE k >= 2
  <2>1. 200 * j * m >= 600 * m
    BY <1>5
  <2>2. q > 500 * m
    BY <1>1, <2>1
  <2> QED BY <1>2, <2>2 DEF Worse, Penalty, c, e
<1> QED BY <1>3, <1>4, <1>5

LEMMA HealthByPenalty ==
  ASSUME NEW s \in Statistics, NEW k \in Nat, s.total > 0,
         NEW p \in Nat, p = Penalty(s.total, s.ok, s.latency, k)
  PROVE  HealthOf(s, k) = IF p <= 200 * s.total THEN "healthy"
                          ELSE IF p <= 500 * s.total THEN "degraded"
                          ELSE "unhealthy"
<1> DEFINE n == s.total
<1>1. n \in Nat
  BY DEF Statistics
<1>2. Score(n, s.ok, s.latency, k) = 1000 * n - Clip(0, p, 1000 * n)
  BY DEF Score, Penalty, Slowness
<1>3. CASE p <= 1000 * n
  <2>1. Clip(0, p, 1000 * n) = p
    BY <1>1, <1>3 DEF Clip
  <2>2. /\ 1000 * n - p >= 800 * n <=> p <= 200 * n
        /\ 1000 * n - p >= 500 * n <=> p <= 500 * n
    BY <1>1
  <2> HIDE DEF Score
  <2> QED BY <1>2, <2>1, <2>2 DEF HealthOf
<1>4. CASE p > 1000 * n
  <2>1. Clip(0, p, 1000 * n) = 1000 * n
    BY <1>1, <1>4 DEF Clip
  <2>2. /\ ~(1000 * n - 1000 * n >= 800 * n) /\ ~(1000 * n - 1000 * n >= 500 * n)
        /\ ~(p <= 200 * n) /\ ~(p <= 500 * n)
    BY <1>1, <1>4
  <2> HIDE DEF Score
  <2> QED BY <1>2, <2>1, <2>2 DEF HealthOf
<1> QED BY <1>1, <1>3, <1>4

\* A circuit that has had no request is healthy.
Unused == \A r \in Tenants : stats[r].total = 0 => stats[r].health = "healthy"

\* What a step does to the statistics: only a recorded request changes them.
LEMMA OnlyRecorded ==
  ASSUME HealthInv, [HealthNext]_healthvars
  PROVE  \/ UNCHANGED <<stats, tally>>
         \/ \E w \in Workers : RecordSuccess(w) /\ CountSuccess(w)
         \/ \E w \in Workers : /\ RecordFailure(w) /\ CountFailure(w)
                               /\ snap[w].state # "open"
  BY DEF HealthNext, CountedStep, LoadStats, CountFailure, ForgetStats, statvars,
         healthvars

LEMMA UnusedStep ==
  ASSUME HealthInv, Unused, [HealthNext]_healthvars
  PROVE  Unused'
<1>1. CASE UNCHANGED stats
  BY <1>1 DEF Unused
<1>2. ASSUME NEW w \in Workers, cpc[w] \in Recording, NEW n \in {0, 1},
             NEW ms \in Nat,
             StoreStats(w, [view[w] EXCEPT !.total = @ + 1, !.ok = @ + n,
                                           !.latency = @ + ms])
      PROVE  Unused'
  <2> DEFINE t == tgt[w]
             s == [view[w] EXCEPT !.total = @ + 1, !.ok = @ + n, !.latency = @ + ms]
  <2>1. t \in Tenants /\ view[w] \in Statistics
    BY <1>2, LoadedRow DEF HealthInv, Views, Recording, StatsTypeOK
  <2>2. s \in Statistics /\ s.total = view[w].total + 1
    BY <2>1, OneMore
  <2>3. stats' = [stats EXCEPT ![t] = Calculated(s, rows'[t])]
    BY <1>2 DEF StoreStats
  <2> HIDE DEF s
  <2>4. Calculated(s, rows'[t]).total = s.total /\ s.total # 0
    BY <2>1, <2>2, CalculatedStats DEF Statistics
  <2> QED BY <2>1, <2>3, <2>4 DEF Unused, HealthInv, StatsTypeOK
<1>3. ASSUME NEW w \in Workers, RecordSuccess(w), CountSuccess(w)
      PROVE  Unused'
  BY <1>2, <1>3, LatencyAssumption DEF RecordSuccess, At, Recording, CountSuccess
<1>4. ASSUME NEW w \in Workers, RecordFailure(w), CountFailure(w),
             snap[w].state # "open"
      PROVE  Unused'
  <2>1. cpc[w] \in Recording /\ view[w] \in Statistics
    BY <1>4, LoadedRow
    DEF RecordFailure, At, Recording, HealthInv, Views, StatsTypeOK
  <2>2. PICK ms \in Latencies :
          StoreStats(w, [view[w] EXCEPT !.total = @ + 1, !.latency = @ + ms])
    BY <1>4 DEF CountFailure
  <2>3. StoreStats(w, [view[w] EXCEPT !.total = @ + 1, !.ok = @ + 0,
                                      !.latency = @ + ms])
    BY <2>1, <2>2, OneFailureMore
  <2> QED BY <1>2, <2>1, <2>3, LatencyAssumption
<1> QED BY <1>1, <1>3, <1>4, OnlyRecorded

LEMMA FailureWorsens ==
  ASSUME HealthInv, Unused, [HealthNext]_healthvars, NEW r \in Tenants,
         tally'[r].bad > tally[r].bad
  PROVE  ~Recovery(stats[r].health, stats'[r].health)
<1>1. tally[r] \in [ok : Nat, bad : Nat]
  BY DEF HealthInv, StatsTypeOK
<1>2. PICK w \in Workers : /\ RecordFailure(w) /\ CountFailure(w)
                           /\ snap[w].state # "open"
  <2>1. tally' # tally
    BY <1>1
  <2>2. ASSUME NEW w \in Workers, CountSuccess(w)
        PROVE  tally'[r].bad = tally[r].bad
    BY <1>1, <2>2 DEF CountSuccess, HealthInv, StatsTypeOK
  <2> QED BY <1>1, <2>1, <2>2, OnlyRecorded
<1>3. PICK ms \in Latencies :
        StoreStats(w, [view[w] EXCEPT !.total = @ + 1, !.latency = @ + ms])
  BY <1>2 DEF CountFailure
<1>4. tgt[w] = r
  <2>1. tally' = [tally EXCEPT ![tgt[w]].bad = @ + 1]
    BY <1>2 DEF CountFailure
  <2>2. tgt[w] # r => tally'[r] = tally[r]
    BY <2>1 DEF HealthInv, StatsTypeOK
  <2> QED BY <1>1, <2>2
<1> DEFINE s == stats[r]
           u == [s EXCEPT !.total = @ + 1, !.latency = @ + ms]
           c == Failed(snap[w], now)
           k == rows[r].failure_count
           j == k + 1
<1>5. /\ rows[r] = snap[w] /\ snap[w] \in CircuitRow /\ rows[r] # None
      /\ view[w] = s /\ s \in Statistics /\ k \in Nat /\ ms \in Nat
      /\ s.ok <= s.total
  <2>1. cpc[w] \in Recording
    BY <1>2 DEF RecordFailure, At, Recording
  <2>2. s.ok <= s.total
    BY DEF HealthInv, StatisticsExact, StatsTypeOK
  <2> QED
    BY <1>4, <2>1, <2>2, LoadedRow, LatencyAssumption
    DEF HealthInv, Views, Recording, StatsTypeOK, CircuitRow
<1>6. /\ c \in CircuitRow /\ c.failure_count = j
      /\ c.state = "open" \/ (c.state = "closed" /\ rows[r].state = "closed")
  BY <1>2, <1>5, FailedRow DEF HealthInv, CircuitInv, CircuitTypeOK, CircuitRow, Failed
<1>7. rows'[r] = c
  BY <1>2, <1>4, <1>5, <1>6, FlushCurrent
  DEF RecordFailure, HealthInv, CircuitInv, CircuitTypeOK
<1>8. stats'[r] = Calculated(u, c)
  BY <1>3, <1>4, <1>5, <1>7 DEF StoreStats, HealthInv, StatsTypeOK
<1>9. /\ u \in Statistics /\ u.total = s.total + 1 /\ u.ok = s.ok
      /\ u.latency = s.latency + ms
  <2>1. u = [s EXCEPT !.total = @ + 1, !.ok = @ + 0, !.latency = @ + ms]
    BY <1>5, OneFailureMore
  <2>2. s.ok + 0 = s.ok
    BY <1>5 DEF Statistics
  <2> HIDE DEF u
  <2> QED BY <1>5, <2>1, <2>2, OneMore
<1>10. j \in Nat /\ j = k + 1
  BY <1>5
<1> HIDE DEF s, u, c, k, j
<1>11. CASE c.state = "open"
  BY <1>8, <1>9, <1>11 DEF Calculated, Recovery, Statistics
<1>12. CASE c.state = "closed" /\ s.total = 0
  BY <1>12 DEF Unused, Recovery, s
<1>13. CASE c.state = "closed" /\ s.total # 0
  <2> DEFINE p == Penalty(s.total, s.ok, s.latency, k)
             q == Penalty(u.total, s.ok, u.latency, j)
  <2>1. /\ p \in Nat /\ q \in Nat /\ q > 200 * u.total
        /\ q <= 500 * u.total => p <= 500 * s.total
    <3>1. s.total \in Nat /\ s.ok \in Nat /\ s.latency \in Nat /\ u.total \in Nat
          /\ u.latency \in Nat /\ u.latency >= s.latency
      BY <1>5, <1>9 DEF Statistics
    <3>2. PICK n, o, l, m, h, a, b \in Nat :
            /\ n = s.total /\ o = s.ok /\ l = s.latency /\ a = k
            /\ m = u.total /\ h = u.latency /\ b = j
      BY <1>5, <1>10, <3>1
    <3>3. o <= n /\ m > n /\ h >= l /\ b > a
      BY <1>5, <1>9, <1>10, <3>1, <3>2
    <3>4. Worse(n, o, l, a, m, h, b)
      BY <3>3, FailureWeighs
    <3> QED BY <3>2, <3>4 DEF Worse
  <2>2. s.total > 0 /\ u.total > 0
    BY <1>5, <1>9, <1>13 DEF Statistics
  <2>3. stats'[r].health = HealthOf(u, j)
    BY <1>6, <1>8, <1>9, <1>13 DEF Calculated, Statistics
  <2>4. s.health = HealthOf(s, k)
    <3>1. s = Calculated(s, rows[r]) /\ rows[r].state = "closed"
      BY <1>5, <1>6, <1>13, <2>2 DEF HealthInv, HealthIsCurrent, Existing, s
    <3>2. Calculated(s, rows[r]).health = HealthOf(s, k)
      BY <1>5, <3>1 DEF Calculated, Statistics, k
    <3> QED BY <3>1, <3>2
  <2> HIDE DEF p, q
  <2>5. HealthOf(u, j) = IF q <= 500 * u.total THEN "degraded" ELSE "unhealthy"
    <3>1. q = Penalty(u.total, u.ok, u.latency, j)
      BY <1>9 DEF q
    <3>2. HealthOf(u, j) = IF q <= 200 * u.total THEN "healthy"
                           ELSE IF q <= 500 * u.total THEN "degraded"
                           ELSE "unhealthy"
      BY <1>9, <1>10, <2>1, <2>2, <3>1, HealthByPenalty
    <3>3. ~(q <= 200 * u.total)
      BY <1>9, <2>1 DEF Statistics
    <3> QED BY <3>2, <3>3
  <2>6. p <= 500 * s.total => HealthOf(s, k) # "unhealthy"
    BY <1>5, <2>1, <2>2, HealthByPenalty DEF p
  <2> QED BY <2>1, <2>3, <2>4, <2>5, <2>6 DEF Recovery, s
<1> QED BY <1>6, <1>11, <1>12, <1>13

\* A failure never makes a circuit healthier, for any latencies, any threshold
\* and any number of workers that record at once.
THEOREM FailuresNeverHeal == HealthSpec => FailureNeverHeals
<1>1. HealthInit => Unused
  BY DEF HealthInit, StatsInit, NewStatistics, Unused
<1>2. HealthInv /\ Unused /\ [HealthNext]_healthvars => Unused'
  BY UnusedStep
<1>3. HealthInv /\ Unused /\ [HealthNext]_healthvars =>
        [\A r \in Tenants :
           tally'[r].bad > tally[r].bad
             => ~Recovery(stats[r].health, stats'[r].health)]_healthvars
  BY FailureWorsens
<1> QED
  BY <1>1, <1>2, <1>3, HealthInvariant, PTL DEF HealthSpec, FailureNeverHeals

=============================================================================
