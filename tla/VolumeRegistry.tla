--------------------------- MODULE VolumeRegistry ---------------------------
(***************************************************************************)
(* What the controller promises of the set of registered volumes.  A       *)
(* volume passes once from "none" to "gone": it is asked for, registered,  *)
(* confirmed, and later retired, unregistered and forgotten.  Volumes do   *)
(* not influence each other.  The node's sync worker deletes the data of a *)
(* volume that is not registered, so the promise that matters is that a    *)
(* confirmed ("live") volume is registered until somebody retires it.      *)
(***************************************************************************)
CONSTANT Volume

VARIABLES registered, life

Life == {"none", "creating", "live", "deleting", "gone"}

Init == registered = {} /\ life = [v \in Volume |-> "none"]

Moves(v, from, to) ==
  life[v] = from /\ life' = [life EXCEPT ![v] = to]

Request(v) == Moves(v, "none", "creating") /\ UNCHANGED registered

Register(v) ==
  /\ life[v] = "creating"
  /\ registered' = registered \cup {v}
  /\ UNCHANGED life

Confirm(v) ==
  v \in registered /\ Moves(v, "creating", "live") /\ UNCHANGED registered

Retire(v) == Moves(v, "live", "deleting") /\ UNCHANGED registered

Unregister(v) ==
  /\ life[v] = "deleting"
  /\ registered' = registered \ {v}
  /\ UNCHANGED life

Forget(v) ==
  v \notin registered /\ Moves(v, "deleting", "gone") /\ UNCHANGED registered

Next ==
  \E v \in Volume :
    \/ Request(v) \/ Register(v) \/ Confirm(v)
    \/ Retire(v) \/ Unregister(v) \/ Forget(v)

vars == <<registered, life>>

Spec == Init /\ [][Next]_vars
=============================================================================
