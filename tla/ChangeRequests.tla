-------------------------- MODULE ChangeRequests --------------------------
(***************************************************************************)
(* What Akonadi::IncidenceChanger promises its callers: every call gets a  *)
(* change id; a change is applied to the Akonadi server or it is not; its  *)
(* answer tells which; what it wrote to an item is only overwritten by a   *)
(* change asked for later.  There are no jobs, queues or handlers here.    *)
(***************************************************************************)
EXTENDS Integers

CONSTANTS Items, MaxChanges

VARIABLES
  state,   \* what became of each change
  newest   \* the change each item was last written by, 0 for none

vars == <<state, newest>>
Changes == 1 .. MaxChanges

TypeOK == /\ state \in [Changes -> {"idle", "pending", "applied", "succeeded", "refused"}]
          /\ newest \in [Items -> 0 .. MaxChanges]

Init == /\ state = [c \in Changes |-> "idle"]
        /\ newest = [i \in Items |-> 0]

\* Ids are given in order.
NextId(c) == /\ state[c] = "idle"
             /\ \A d \in Changes : d < c => state[d] # "idle"

\* A call that is accepted; it may supersede a change that is still pending.
Ask(c) ==
  /\ NextId(c)
  /\ \/ state' = [state EXCEPT ![c] = "pending"]
     \/ \E d \in Changes :
          /\ state[d] = "pending"
          /\ state' = [state EXCEPT ![c] = "pending", ![d] = "refused"]
  /\ UNCHANGED newest

\* A call that is refused outright.
AskRefused(c) ==
  /\ NextId(c)
  /\ state' = [state EXCEPT ![c] = "refused"]
  /\ UNCHANGED newest

\* The server carries the change out: it writes one item, or it removes some.
Apply(c) ==
  /\ state[c] = "pending"
  /\ state' = [state EXCEPT ![c] = "applied"]
  /\ \/ UNCHANGED newest
     \/ \E i \in Items : newest[i] < c /\ newest' = [newest EXCEPT ![i] = c]

\* One turn of the event loop answers the changes of S, each truthfully.
Answer(S) ==
  /\ S # {}
  /\ \A c \in S : state[c] \in {"pending", "applied"}
  /\ state' = [c \in Changes |->
                 IF c \notin S THEN state[c]
                 ELSE IF state[c] = "applied" THEN "succeeded" ELSE "refused"]
  /\ UNCHANGED newest

Next == \/ \E c \in Changes : Ask(c) \/ AskRefused(c) \/ Apply(c)
        \/ \E S \in SUBSET Changes : Answer(S)

Spec == Init /\ [][Next]_vars
=============================================================================
