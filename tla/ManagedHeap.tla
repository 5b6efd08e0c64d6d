---------------------------- MODULE ManagedHeap ----------------------------
(***************************************************************************)
(* What the heap promises to the program that runs on it.  The program     *)
(* allocates objects, stores references in them and holds references to    *)
(* some of them.  The collector condemns objects that the program cannot   *)
(* get at any more, and destroys condemned objects when it likes.  The     *)
(* memory of an object is handed out again only after it was destroyed.    *)
(*                                                                         *)
(* An object that the program has lost but that is not condemned yet can   *)
(* come back: a word on the machine stack may look like a reference to it, *)
(* and an iteration over the heap finds it.                                *)
(***************************************************************************)
CONSTANTS Cells,   \* the memory cells objects live in
          NoCell   \* the value of a slot that refers to nothing

VARIABLES objects,     \* the cells that hold an object
          condemned,   \* the objects the collector has found to be garbage
          refers,      \* the slot of every object that is not condemned
          held         \* the references the program holds

vars == <<objects, condemned, refers, held>>

TypeOK ==
  /\ objects \in SUBSET Cells
  /\ condemned \in SUBSET objects
  /\ refers \in [Cells -> Cells \cup {NoCell}]
  /\ held \in SUBSET (objects \ condemned)

Init ==
  /\ objects = {} /\ condemned = {} /\ held = {}
  /\ refers = [c \in Cells |-> NoCell]

Allocate(c) ==
  /\ c \notin objects
  /\ objects' = objects \cup {c}
  /\ held' = held \cup {c}
  /\ UNCHANGED <<condemned, refers>>

Store(from, to) ==
  /\ from \in held /\ to \in held \cup {NoCell}
  /\ refers' = [refers EXCEPT ![from] = to]
  /\ UNCHANGED <<objects, condemned, held>>

\* The program follows a reference, or comes across an object by other means.
Find(c) ==
  /\ c \in objects \ condemned
  /\ held' = held \cup {c}
  /\ UNCHANGED <<objects, condemned, refers>>

Forget(c) ==
  /\ held' = held \ {c}
  /\ UNCHANGED <<objects, condemned, refers>>

(***************************************************************************)
(* Some objects are condemned, and some condemned ones are destroyed.  The *)
(* program holds none of those that die in this step, and no object that   *)
(* is kept refers to one of them.                                          *)
(***************************************************************************)
Reclaim ==
  /\ held' = held
  /\ objects' \in SUBSET objects
  /\ condemned' \in SUBSET objects'
  /\ condemned \cap objects' \subseteq condemned'
  /\ LET kept == objects' \ condemned'
         dying == (objects \ condemned) \ kept
     IN /\ dying \cap held = {}
        /\ \A c \in kept : refers[c] \notin dying
        /\ refers' = [c \in Cells |-> IF c \in dying THEN NoCell ELSE refers[c]]

Next ==
  \/ \E c \in Cells : Allocate(c) \/ Find(c) \/ Forget(c)
  \/ \E from \in Cells, to \in Cells \cup {NoCell} : Store(from, to)
  \/ Reclaim

Spec == Init /\ [][Next]_vars
=============================================================================
