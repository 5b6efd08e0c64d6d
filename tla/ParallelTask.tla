---------------------------- MODULE ParallelTask ----------------------------
(***************************************************************************)
(* What WTF::ParallelHelperPool promises the owner of a client: threads    *)
(* come and run the client's task while it is offered; the first of them   *)
(* to return withdraws it, and so does finish(); and no new task is        *)
(* offered while anybody still runs the old one.                           *)
(***************************************************************************)
CONSTANTS Clients, Runners

VARIABLES offered,  \* whether each client has a task
          inside    \* the threads that run it

Init ==
  /\ offered = [c \in Clients |-> FALSE]
  /\ inside = [c \in Clients |-> {}]

Offer(c) ==
  /\ ~offered[c] /\ inside[c] = {}
  /\ offered' = [offered EXCEPT ![c] = TRUE]
  /\ UNCHANGED inside

Enter(c, r) ==
  /\ offered[c] /\ \A d \in Clients : r \notin inside[d]
  /\ inside' = [inside EXCEPT ![c] = @ \cup {r}]
  /\ UNCHANGED offered

Leave(c, r) ==
  /\ r \in inside[c]
  /\ inside' = [inside EXCEPT ![c] = @ \ {r}]
  /\ offered' = [offered EXCEPT ![c] = FALSE]

Withdraw(c) ==
  /\ offered' = [offered EXCEPT ![c] = FALSE]
  /\ UNCHANGED inside

Next ==
  \E c \in Clients : Offer(c) \/ Withdraw(c) \/ \E r \in Runners : Enter(c, r) \/ Leave(c, r)

Spec == Init /\ [][Next]_<<offered, inside>>
=============================================================================
