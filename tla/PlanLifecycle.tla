--------------------------- MODULE PlanLifecycle ----------------------------
(***************************************************************************)
(* What a compilation worklist promises its clients: every plan is         *)
(* requested once, and is then either cancelled by a collection of its own *)
(* VM or becomes ready and is completed, once, while its VM does not       *)
(* collect.                                                                *)
(***************************************************************************)
CONSTANTS VMs, Plans, VMOf

VARIABLES state,       \* the state of every plan
          collecting   \* the VMs that collect

States == {"absent", "pending", "ready", "cancelled", "completed"}

Init ==
  /\ state = [p \in Plans |-> "absent"]
  /\ collecting = {}

Becomes(p, from, to) ==
  /\ state[p] = from
  /\ state' = [state EXCEPT ![p] = to]
  /\ UNCHANGED collecting

Request(p) == VMOf[p] \notin collecting /\ Becomes(p, "absent", "pending")

BecomeReady(p) == Becomes(p, "pending", "ready")

Complete(p) == VMOf[p] \notin collecting /\ Becomes(p, "ready", "completed")

StartCollection(v) == collecting' = collecting \cup {v} /\ UNCHANGED state

FinishCollection(v) == collecting' = collecting \ {v} /\ UNCHANGED state

\* A collection of v cancels the plans whose code died.
Cancel(v, dead) ==
  /\ v \in collecting
  /\ \A p \in dead : VMOf[p] = v /\ state[p] \in {"pending", "ready"}
  /\ state' = [p \in Plans |-> IF p \in dead THEN "cancelled" ELSE state[p]]
  /\ UNCHANGED collecting

Next ==
  \/ \E p \in Plans : Request(p) \/ BecomeReady(p) \/ Complete(p)
  \/ \E v \in VMs : StartCollection(v) \/ FinishCollection(v)
  \/ \E v \in VMs, dead \in SUBSET Plans : Cancel(v, dead)

Spec == Init /\ [][Next]_<<state, collecting>>
=============================================================================
