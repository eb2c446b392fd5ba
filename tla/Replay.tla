------------------------------- MODULE Replay -------------------------------
(***************************************************************************)
(* Replaying dead deliveries beside the workers.  POST /dlq/{id}/replay     *)
(* (app/api/routes/dlq.py, replay_dead_event) revives the delivery of one   *)
(* dead letter, whatever has become of it since: it commits, then sends a   *)
(* task.  POST /events/{id}/replay (app/services/replay_service.py,         *)
(* replay_event) revives the dead deliveries of an event: it sends their    *)
(* tasks, then commits.                                                     *)
(*                                                                          *)
(* Each request's session writes back the columns it changed, over rows it  *)
(* loaded without a lock.  replay_count and last_replayed_at, which nothing *)
(* reads, are left out.                                                     *)
(***************************************************************************)
EXTENDS WebhookEngine, FiniteSets

CONSTANTS
  Replays,  \* replay requests
  EventOf   \* delivery -> event

ASSUME ReplayAssumption ==
  /\ IsFiniteSet(Workers) /\ IsFiniteSet(Replays)
  /\ EventOf \in [Deliveries -> {EventOf[d] : d \in Deliveries}]

VARIABLES
  qpc,      \* request -> where its handler is
  held,     \* request -> delivery -> the row it loaded to revive, or None
  resent,   \* request -> deliveries whose task it sent
  revived,  \* history: delivery -> replays of it committed
  mishaps   \* history: delivery -> what went wrong with its replays

replayvars == <<qpc, held, resent, revived, mishaps>>
allvars == <<vars, replayvars>>

ReplayPC == {"new", "write", "send", "requeue", "done", "failed"}

\* "overlapped": replayed though not dead and at rest, or left with a task it
\* should not have; "overtaken": its task ran before the replay's commit;
\* "abandoned": committed, but no task sent.
Mishaps == {"overlapped", "overtaken", "abandoned"}

ReplayTypeOK ==
  /\ TypeOK
  /\ qpc \in [Replays -> ReplayPC]
  /\ held \in [Replays -> [Deliveries -> DeliveryRow \cup {None}]]
  /\ resent \in [Replays -> SUBSET Deliveries]
  /\ revived \in [Deliveries -> Nat]
  /\ mishaps \in [Deliveries -> SUBSET Mishaps]

ReplayInit ==
  /\ Init
  /\ qpc = [q \in Replays |-> "new"]
  /\ held = [q \in Replays |-> [d \in Deliveries |-> None]]
  /\ resent = [q \in Replays |-> {}]
  /\ revived = [d \in Deliveries |-> 0]
  /\ mishaps = [d \in Deliveries |-> {}]

\* The deliveries a request revives.
Over(q) == {d \in Deliveries : held[q][d] # None}

UnderWay(q) == qpc[q] \in {"write", "send", "requeue"}

Carriers(d) == tasks[d] + Cardinality({w \in Workers : Holds(w, d)})

DeadAtRest(d) ==
  /\ dlv[d].status = "dead" /\ Carriers(d) = 0
  /\ ~\E q \in Replays : UnderWay(q) /\ d \in Over(q)

Mishap(D, m) ==
  mishaps' = [d \in Deliveries |-> mishaps[d] \cup IF d \in D THEN {m} ELSE {}]

Step(q, p) == qpc' = [qpc EXCEPT ![q] = p]

SendTask(d) == tasks' = [tasks EXCEPT ![d] = @ + 1]

\* Mutated form of Revive: retry_count is reset to nothing.
ReviveUnset(row, old) ==
  [row EXCEPT !.status = "retrying", !.retry_count = None, !.failure_type = None]

\* Mutated form of Revive: retry_count is not reset.
ReviveCounted(row, old) ==
  [row EXCEPT
     !.status       = IF old.status = "retrying" THEN @ ELSE "retrying",
     !.failure_type = IF old.failure_type = None THEN @ ELSE None]

\* The UPDATE of the columns that differ from the row loaded.
Revive(row, old) ==
  [row EXCEPT
     !.status       = IF old.status = "retrying" THEN @ ELSE "retrying",
     !.retry_count  = IF old.retry_count = 0 THEN @ ELSE 0,
     !.failure_type = IF old.failure_type = None THEN @ ELSE None]

(***************************************************************************)
(* POST /dlq/{id}/replay                                                    *)
(***************************************************************************)
\* A dead letter of the delivery is enough, its status is not looked at.
LoadLetter(q, d) ==
  /\ qpc[q] = "new" /\ dlq[d] > 0
  /\ held' = [held EXCEPT ![q][d] = dlv[d]]
  /\ Step(q, "write")
  /\ Mishap({x \in {d} : ~DeadAtRest(x)}, "overlapped")
  /\ UNCHANGED <<vars, resent, revived>>

\* Mutated form of CommitLetter: the handler returns before the task is sent.
CommitLetterOnly(q) ==
  /\ qpc[q] = "write"
  /\ \E d \in Over(q) : /\ Store(d, Revive(dlv[d], held[q][d]))
                        /\ revived' = [revived EXCEPT ![d] = @ + 1]
  /\ Step(q, "done")
  /\ UNCHANGED <<cbvars, logged, dlq, tasks, pc, job, result, handler, loaded,
                 lost, held, resent, mishaps>>

CommitLetter(q) ==
  /\ qpc[q] = "write"
  /\ \E d \in Over(q) : /\ Store(d, Revive(dlv[d], held[q][d]))
                        /\ revived' = [revived EXCEPT ![d] = @ + 1]
  /\ Step(q, "send")
  /\ UNCHANGED <<cbvars, logged, dlq, tasks, pc, job, result, handler, loaded,
                 lost, held, resent, mishaps>>

\* Mutated form of SendLetter: a failed send that had succeeded is retried.
SendLetterTwice(q) ==
  /\ qpc[q] = "send"
  /\ \E d \in Over(q) : /\ tasks' = [tasks EXCEPT ![d] = @ + 2]
                        /\ resent' = [resent EXCEPT ![q] = {d}]
  /\ Step(q, "done")
  /\ UNCHANGED <<cbvars, dlv, logged, dlq, pc, job, result, handler, loaded,
                 lost, held, revived, mishaps>>

SendLetter(q) ==
  /\ qpc[q] = "send"
  /\ \E d \in Over(q) : /\ SendTask(d)
                        /\ resent' = [resent EXCEPT ![q] = {d}]
  /\ Step(q, "done")
  /\ UNCHANGED <<cbvars, dlv, logged, dlq, pc, job, result, handler, loaded,
                 lost, held, revived, mishaps>>

(***************************************************************************)
(* POST /events/{id}/replay                                                 *)
(***************************************************************************)
\* No dead delivery is an error (400).
LoadEvent(q, e) ==
  LET dead == {d \in Deliveries : EventOf[d] = e /\ dlv[d].status = "dead"}
  IN
  /\ qpc[q] = "new" /\ dead # {}
  /\ held' = [held EXCEPT ![q] =
                [d \in Deliveries |-> IF d \in dead THEN dlv[d] ELSE None]]
  /\ Step(q, "requeue")
  /\ Mishap({d \in dead : ~DeadAtRest(d)}, "overlapped")
  /\ UNCHANGED <<vars, resent, revived>>

Requeue(q) ==
  /\ qpc[q] = "requeue"
  /\ \E d \in Over(q) \ resent[q] :
       /\ SendTask(d)
       /\ resent' = [resent EXCEPT ![q] = @ \cup {d}]
  /\ UNCHANGED <<cbvars, dlv, logged, dlq, pc, job, result, handler, loaded,
                 lost, qpc, held, revived, mishaps>>

CommitEvent(q) ==
  /\ qpc[q] = "requeue" /\ Over(q) \subseteq resent[q]
  /\ dlv' = [d \in Deliveries |-> IF d \in Over(q)
                                    THEN Revive(dlv[d], held[q][d]) ELSE dlv[d]]
  /\ revived' = [d \in Deliveries |-> revived[d] + IF d \in Over(q) THEN 1 ELSE 0]
  /\ Step(q, "done")
  /\ UNCHANGED <<cbvars, logged, dlq, tasks, pc, job, result, handler, loaded,
                 lost, held, resent, mishaps>>

\* The broker refuses a task or the API process dies: what is not committed is
\* rolled back, what is sent stays sent.
CutShort(q) ==
  /\ UnderWay(q)
  /\ Step(q, "failed")
  /\ IF qpc[q] = "send" THEN Mishap(Over(q), "abandoned")
                        ELSE Mishap(resent[q], "overlapped")
  /\ UNCHANGED <<vars, held, resent, revived>>

(***************************************************************************)
(* Beside the workers.                                                      *)
(***************************************************************************)
\* Its task sent, its commit to come.
Uncommitted(d) == \E q \in Replays : qpc[q] = "requeue" /\ d \in resent[q]

WorkerTakes(w, d) ==
  /\ Take(w, d)
  /\ Mishap({x \in {d} : Uncommitted(x)}, "overtaken")
  /\ UNCHANGED <<qpc, held, resent, revived>>

Replaying(q) ==
  \/ \E d \in Deliveries : LoadLetter(q, d)
  \/ \E e \in {EventOf[d] : d \in Deliveries} : LoadEvent(q, e)
  \/ CommitLetter(q) \/ SendLetter(q) \/ Requeue(q) \/ CommitEvent(q)
  \/ CutShort(q)

ReplayNext ==
  \/ \E w \in Workers, d \in Deliveries : WorkerTakes(w, d)
  \/ /\ \/ \E w \in Workers : TaskStep(w) \/ SendRefused(w) \/ WorkerDies(w)
        \/ TimePasses
     /\ UNCHANGED replayvars
  \/ \E q \in Replays : Replaying(q)

ReplaySpec == ReplayInit /\ [][ReplayNext]_allvars

(***************************************************************************)
(* Properties.                                                              *)
(***************************************************************************)
Resent(d) == Cardinality({q \in Replays : d \in resent[q]})

\* Whatever replays overlap, each task sent for a delivery, the first and one a
\* replay, lives on in one successor at a time and ends in one dead letter at
\* most: replays multiply neither tasks nor dead letters.
OneLetterPerSend ==
  \A d \in Deliveries : dlq[d] + Carriers(d) <= 1 + Resent(d)

AboutToSend(d) == \E q \in Replays : qpc[q] = "send" /\ d \in Over(q)

\* A delivery that waits without a task lost it to a fault, or to a replay
\* that was cut short between its commit and its task, or to one whose task
\* was taken before its commit (replay_event).  Two replays at once, a replay
\* of a delivery in flight or of a delivered one never strand it.
OnlyMishapsStrand ==
  \A d \in Deliveries :
    \/ Terminal(d) \/ Carriers(d) > 0 \/ d \in lost \/ AboutToSend(d)
    \/ mishaps[d] \cap {"abandoned", "overtaken"} # {}

\* A delivery replayed only when dead and at rest, by requests that complete
\* and commit before their task is taken, lives as if it were new: one carrier
\* as long as it waits and none after, a dead letter for each of its deaths,
\* its failures counted, and limited, from its last revival on.
ProperReplaysAreSafe ==
  \A d \in Deliveries : mishaps[d] = {} =>
    /\ dlq[d] = revived[d] + IF dlv[d].status = "dead" THEN 1 ELSE 0
    /\ Carriers(d) = IF (Terminal(d) /\ ~Uncommitted(d)) \/ AboutToSend(d)
                         \/ d \in lost
                       THEN 0 ELSE 1
    /\ dlv[d].status = "dead" => Exhausted(dlv[d].failure_type, dlv[d].retry_count)
    /\ dlv[d].status = "retrying" =>
         IF dlv[d].failure_type = None
           THEN dlv[d].retry_count = 0
           ELSE ~Exhausted(dlv[d].failure_type, dlv[d].retry_count)
    /\ dlv[d].delivered_at # None <=> dlv[d].status = "delivered"

=============================================================================
