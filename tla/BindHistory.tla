---------------------------- MODULE BindHistory -----------------------------
(***************************************************************************)
(* Scheduler with one history variable: the nodes each PV has ever been    *)
(* pinned to.                                                              *)
(***************************************************************************)
EXTENDS Scheduler

VARIABLE pinnedTo

HistoryInit == Init /\ pinnedTo = [v \in PV |-> {}]

HistoryNext ==
  /\ Next
  /\ pinnedTo' = [v \in PV |-> pinnedTo[v] \cup ({pvs'[v].bindNode} \ {Nil})]

historyVars == <<vars, pinnedTo>>

HistorySpec == HistoryInit /\ [][HistoryNext]_historyVars

FairHistorySpec == HistorySpec /\ Fairness

\* A scheduled pod is on a node that each of its persistent hostPath volumes has
\* been pinned to, and that is the bind node unless the volume was pinned to a
\* second node as well: pod and volume part only where two Binds both found the
\* volume without a bind node in the cache (Bind).  Conflicts, a Bind that fails
\* half-way, a patch whose answer is lost and events that are late, batched or
\* dropped do not part them otherwise, as long as a claim has one PV in its life.
PodFollowsVolume ==
  \A p \in Pod : podNode[p] \in Node =>
    \A v \in PV : Pinned(v) /\ pvs[v].phase = "Bound" /\ Uses(p, v) =>
      /\ podNode[p] \in pinnedTo[v]
      /\ pinnedTo[v] = {podNode[p]} => pvs[v].bindNode = podNode[p]

-----------------------------------------------------------------------------
(* The inductive invariant behind it; the proof is in SchedulerProofs.     *)

\* What is known of a PV's bind node, at the API server, in the cache or on the
\* way to it, is one of the nodes it was pinned to.
KnownInv(v) ==
  LET known == pinnedTo[v] \cup {Nil} IN
  /\ pvs[v].bindNode \in known
  /\ pinnedTo[v] # {} => pvs[v].bindNode # Nil
  /\ v \in DOMAIN pvCache => pvCache[v] \in known
  /\ \A i \in DOMAIN events[v] : events[v][i].bindNode \in known

\* A PV of a pod that is being bound, or was, is bound or on its way out.  While
\* the pod is being bound it is in the cache, and once Bind is done with its
\* claim it has been pinned to the node of the attempt, which becomes the pod's.
PlacedInv(p, v) ==
  /\ attempt[p] # Nil \/ podNode[p] \in Node =>
       pvs[v].phase \notin {"none", "Pending"}
  /\ attempt[p] # Nil /\ pvs[v].phase = "Bound" =>
       /\ v \in DOMAIN pvCache
       /\ Pinned(v) /\ ClaimOf[v] \notin ToSet(attempt[p].todo) =>
            attempt[p].node \in pinnedTo[v]
  /\ podNode[p] \in Node /\ pvs[v].phase = "Bound" /\ Pinned(v) =>
       podNode[p] \in pinnedTo[v]

BindInv ==
  /\ \A v \in PV : KnownInv(v)
  /\ \A p \in Pod, v \in PV : Uses(p, v) => PlacedInv(p, v)
=============================================================================
