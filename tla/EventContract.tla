---------------------------- MODULE EventContract ----------------------------
(***************************************************************************)
(* What POST /events/ promises its clients: an event is stored once under a *)
(* name (a tenant and an idempotency key), stays, and every request is      *)
(* answered with a stored event, its own or the one of its name.            *)
(***************************************************************************)
CONSTANTS
  Requests,
  Anonymous,     \* requests without a key
  SameName(_, _),
  None

VARIABLES
  stored,  \* requests whose event is stored
  answer   \* request -> the event it was answered with

contractvars == <<stored, answer>>

Named(r) == {e \in stored : r \notin Anonymous /\ SameName(e, r)}

Init == stored = {} /\ answer = [r \in Requests |-> None]

Accept(r) ==
  /\ r \notin stored /\ answer[r] = None
  /\ stored' = stored \cup {r} /\ Named(r) = {}
  /\ UNCHANGED answer

Answer(r) ==
  /\ answer[r] = None
  /\ \E e \in stored : /\ answer' = [answer EXCEPT ![r] = e]
                       /\ e = r \/ e \in Named(r)
  /\ UNCHANGED stored

Next == \E r \in Requests : Accept(r) \/ Answer(r)

Spec == Init /\ [][Next]_contractvars
=============================================================================
