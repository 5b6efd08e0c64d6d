---------------------------- MODULE ParkingQueue ----------------------------
(***************************************************************************)
(* What WTF::ParkingLot promises (WTF/wtf/ParkingLot.h): one first-in      *)
(* first-out queue of parked threads per address.  How the queues are kept *)
(* in a hash table that is rehashed while threads are parked is not        *)
(* visible.  ParkingLot is shown to implement this specification; Lock and *)
(* Condition are modelled over it.                                         *)
(***************************************************************************)
EXTENDS Sequences, SequencesExt

CONSTANTS Threads, Addresses

VARIABLE queue   \* for each address, the threads parked on it

Init == queue = [a \in Addresses |-> <<>>]

\* parkConditionally(): validation returned true.  A thread parks once at a time.
Park(t, a) ==
  /\ \A b \in Addresses : ~Contains(queue[b], t)
  /\ queue' = [queue EXCEPT ![a] = Append(@, t)]

UnparkOne(a) ==
  /\ queue[a] # <<>>
  /\ queue' = [queue EXCEPT ![a] = Tail(@)]

UnparkAll(a) == queue' = [queue EXCEPT ![a] = <<>>]

\* The timeout of a thread that nobody unparked: it leaves from where it is.
TimeOut(t, a) ==
  /\ Contains(queue[a], t)
  /\ queue' = [queue EXCEPT ![a] = RemoveFirst(@, t)]

Next ==
  \E a \in Addresses :
    \/ UnparkOne(a) \/ UnparkAll(a)
    \/ \E t \in Threads : Park(t, a) \/ TimeOut(t, a)

Spec == Init /\ [][Next]_queue
=============================================================================
