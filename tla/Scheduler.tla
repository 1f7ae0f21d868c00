----------------------------- MODULE Scheduler ------------------------------
(***************************************************************************)
(* The scheduler extender: its cache of PVs (informer.go, controller.go,   *)
(* persistentVolume.go), the filter (hostpathpv_disk_pressure.go), and the *)
(* binding of a pod and of its volumes (hostpathpv_bind.go).               *)
(*                                                                         *)
(* A hostPath volume lives on one node, the bind node in an annotation of  *)
(* its PV.  The filter passes the nodes a pod may go to, kube-scheduler    *)
(* takes one of them, and Bind pins the pod's volumes to it, one API call  *)
(* after the other, and then the pod.  Both look at the cache, which       *)
(* follows the API server's events at its own pace, and the Binds of       *)
(* several pods may be under way at once, each between what it read from   *)
(* the cache and the arrival of what it writes.                            *)
(***************************************************************************)
EXTENDS Placement

CONSTANTS
  Node,
  HostPathNode,  \* the nodes with the hostPath label
  DiskStatus,    \* [Node -> the Allocatable of its disks], as last reported
  PV,
  HostPathPV,    \* the PVs of this CSI driver
  Ephemeral,     \* those whose volume id says that they are ephemeral
  ClaimOf,       \* [PV -> the claim it is made for]
  Capacity,      \* [PV -> its size]
  Listed,        \* the PVs that are bound when the extender starts
  Pod,
  ClaimsOf,      \* [Pod -> the sequence of its claims]
  MaxFaults,     \* how many faults, and how many ends of a PV, may happen
  MaxDeltas,     \* a PV is not written while this many deltas are on their way
  Nil            \* no node, no attempt, no PV

Claim == UNION {ToSet(ClaimsOf[p]) : p \in Pod}

\* A Bind under way: its node, the claims left, and the PV whose patch was sent.
Attempt == [node : Node, todo : Seq(Claim), patch : PV \cup {Nil}]

ASSUME ModelAssumption ==
  /\ HostPathNode \subseteq Node /\ HostPathPV \subseteq PV
  /\ Listed \subseteq PV /\ MaxFaults \in Nat /\ MaxDeltas \in Nat
  /\ ClaimsOf \in [Pod -> Seq(Claim)]

ASSUME NilAssumption == Nil \notin Node \cup PV \cup Attempt /\ "gone" \notin Node

VARIABLES
  pvs,      \* at the API server: each PV's phase and bind node
  events,   \* for each PV, the deltas on their way to the cache
  pvCache,  \* pvLister: the cached PVs with their bind node
  podNode,  \* at the API server: the node of each pod
  attempt,  \* the Bind under way for a pod
  faults    \* how many faults there were

vars == <<pvs, events, pvCache, podNode, attempt, faults>>

Phase == {"none", "Pending", "Bound", "Released", "gone"}

\* The PVs that exist at the API server.
Existing == {v \in PV : pvs[v].phase \in {"Pending", "Bound", "Released"}}

\* Run returns when the caches hold what was listed.
Init ==
  /\ pvs = [v \in PV |-> [phase |-> IF v \in Listed THEN "Bound" ELSE "none",
                          bindNode |-> Nil]]
  /\ events = [v \in PV |-> <<>>]
  /\ pvCache = [v \in Listed |-> Nil]
  /\ podNode = [p \in Pod |-> Nil]
  /\ attempt = [p \in Pod |-> Nil]
  /\ faults = 0

-----------------------------------------------------------------------------
(* The API server and the watch on the PVs. *)

Fault ==
  /\ faults < MaxFaults
  /\ faults' = faults + 1

Delta(type, x) == [type |-> type, phase |-> x.phase, bindNode |-> x.bindNode]

\* The PV changes to x, and the watch reports it.
Change(v, x, type) ==
  /\ Len(events[v]) < MaxDeltas
  /\ pvs' = [pvs EXCEPT ![v] = x]
  /\ events' = [events EXCEPT ![v] = Append(@, Delta(type, x))]

\* The provisioner makes the PV, for a claim without one.
CreatePV(v) ==
  /\ pvs[v].phase = "none"
  /\ \A w \in PV : ClaimOf[w] = ClaimOf[v] =>
                     pvs[w].phase \in {"none", "Released", "gone"}
  /\ Change(v, [pvs[v] EXCEPT !.phase = "Pending"], "update")
  /\ UNCHANGED <<pvCache, podNode, attempt, faults>>

\* The PV controller binds it to its claim.
BindClaimToPV(v) ==
  /\ pvs[v].phase = "Pending"
  /\ Change(v, [pvs[v] EXCEPT !.phase = "Bound"], "update")
  /\ UNCHANGED <<pvCache, podNode, attempt, faults>>

Uses(p, v) == \E i \in DOMAIN ClaimsOf[p] : ClaimsOf[p][i] = ClaimOf[v]

\* The claim is deleted, once no pod that was scheduled is left to use it; then
\* the PV is deleted.
ReleasePV(v) ==
  /\ pvs[v].phase = "Bound"
  /\ \A p \in Pod : Uses(p, v) => podNode[p] \in {Nil, "gone"}
  /\ Fault
  /\ Change(v, [pvs[v] EXCEPT !.phase = "Released"], "update")
  /\ UNCHANGED <<pvCache, podNode, attempt>>

DeletePV(v) ==
  /\ pvs[v].phase = "Released"
  /\ pvs' = [pvs EXCEPT ![v].phase = "gone"]
  /\ events' = [events EXCEPT ![v] = Append(@, Delta("delete", pvs[v]))]
  /\ UNCHANGED <<pvCache, podNode, attempt, faults>>

DeletePod(p) ==
  /\ podNode[p] \in Node
  /\ Fault
  /\ podNode' = [podNode EXCEPT ![p] = "gone"]
  /\ UNCHANGED <<pvs, events, pvCache, attempt>>

-----------------------------------------------------------------------------
(* The cache. *)

\* Whether the conversion of the delta's object succeeds: "skip unbound volume".
ToPersistentVolume(delta) == delta.phase = "Bound"

Entry(v) == IF v \in DOMAIN pvCache THEN {pvCache[v]} ELSE {}

\* The deltas that make DefaultProcessor return with an error.
Failing(deltas) ==
  {i \in DOMAIN deltas : /\ deltas[i].type # "deleteUnknown"
                         /\ ~ToPersistentVolume(deltas[i])}

\* MUTANT of DefaultProcessor: a PV that is there already is not replaced.
DefaultProcessorAddOnly(v, deltas) ==
  IF Entry(v) # {} THEN Entry(v) ELSE {Last(deltas).bindNode}

\* What the cache has of the PV ({} or {its bind node}) after a batch of deltas:
\* the first that cannot be converted ends the batch, the rest is dropped, and
\* the last one before it counts.
DefaultProcessor(v, deltas) ==
  LET failing == Failing(deltas)
      done == IF failing = {} THEN Len(deltas) ELSE Min(failing) - 1
  IN CASE done = 0 -> Entry(v)
       [] done > 0 /\ deltas[done].type = "update" -> {deltas[done].bindNode}
       [] done > 0 /\ deltas[done].type # "update" -> {}

\* Pop hands over all the deltas of a PV that have arrived.
Process(v) ==
  \E n \in 1 .. Len(events[v]) :
    LET entry == DefaultProcessor(v, SubSeq(events[v], 1, n))
        cached == IF entry = {} THEN DOMAIN pvCache \ {v}
                  ELSE DOMAIN pvCache \cup {v}
    IN /\ pvCache' = [w \in cached |->
                        IF w = v THEN CHOOSE x \in entry : TRUE ELSE pvCache[w]]
       /\ events' = [events EXCEPT ![v] = SubSeq(@, n + 1, Len(@))]
       /\ UNCHANGED <<pvs, podNode, attempt, faults>>

\* The watch breaks and the PVs are listed again: what had not arrived is lost,
\* the listed PVs are synced, and a cached PV that is not listed is deleted.
Relist ==
  /\ Fault
  /\ \E arrived \in [PV -> 0 .. Max({Len(events[v]) : v \in PV})] :
       /\ \A v \in PV : arrived[v] <= Len(events[v])
       /\ events' =
            [v \in PV |->
               SubSeq(events[v], 1, arrived[v])
                 \o (IF v \in Existing THEN <<Delta("update", pvs[v])>>
                     ELSE IF v \in DOMAIN pvCache
                       THEN <<Delta("deleteUnknown", pvs[v])>> ELSE <<>>)]
  /\ UNCHANGED <<pvs, pvCache, podNode, attempt>>

\* ByIndex on the claim: some cached PV with it, or none.
GetPersistentVolumeByClaim(c) ==
  LET found == {v \in DOMAIN pvCache : ClaimOf[v] = c}
  IN IF found = {} THEN {Nil} ELSE found

-----------------------------------------------------------------------------
(* The filter. *)

\* What the filter may find for a pod: a PV for each of its claims.  Without one
\* for some claim, FilterNode returns false for every node.
Found(p) ==
  LET claims == ClaimsOf[p]
      cached == {v \in DOMAIN pvCache : ClaimOf[v] \in ToSet(claims)}
  IN {pv \in [DOMAIN claims -> cached] :
        \A i \in DOMAIN claims : ClaimOf[pv[i]] = claims[i]}

\* MUTANT of FilterNode: the bind node is not compared.
FilterNodeAnywhere(n, pv) == TRUE

\* A node as the extender sees it: the disks of a node without the hostPath
\* label are not looked at.
ToHostPathNode(n) ==
  [hostPathNode |-> n \in HostPathNode,
   DiskStatus |-> IF n \in HostPathNode THEN DiskStatus[n] ELSE <<>>]

FilterNode(n, pv) ==
  LET hpNode == ToHostPathNode(n)
      hostPath == SelectSeq(pv, LAMBDA v : v \in HostPathPV)
      unbound == SelectSeq(hostPath, LAMBDA v : pvCache[v] = Nil)
      podVolumeRequestList == [i \in DOMAIN unbound |-> Capacity[unbound[i]]]
  IN /\ hostPath # <<>> => hpNode.hostPathNode
     /\ \A i \in DOMAIN hostPath : pvCache[hostPath[i]] \in {Nil, n}
     /\ (\E i \in DOMAIN unbound : podVolumeRequestList[i] # 0) =>
          canNodeMatch(podVolumeRequestList, hpNode.DiskStatus)

\* The nodes the filter's Handler keeps.
CanSchedule(p) == UNION {{n \in Node : FilterNode(n, pv)} : pv \in Found(p)}

\* kube-scheduler takes a node the filter passes and calls Bind; the pod is in
\* the cache, or Bind returns an error and nothing has happened.
Schedule(p) ==
  /\ podNode[p] = Nil
  /\ attempt[p] = Nil
  /\ \E n \in CanSchedule(p) :
       attempt' = [attempt EXCEPT ![p] = [node |-> n, todo |-> ClaimsOf[p],
                                      patch |-> Nil]]
  /\ UNCHANGED <<pvs, events, pvCache, podNode, faults>>

-----------------------------------------------------------------------------
(* Bind. *)

Binding(p) == attempt[p] # Nil

GoOn(p) ==
  attempt' = [attempt EXCEPT ![p].todo = Tail(@), ![p].patch = Nil]

\* The call ends, with an error or without one.
Answer(p) == attempt' = [attempt EXCEPT ![p] = Nil]

\* The cached PV of the claim at the head of the loop: it is read here, and what
\* is done with it is decided.
AtHead(p, v) ==
  /\ Binding(p)
  /\ attempt[p].patch = Nil
  /\ attempt[p].todo # <<>>
  /\ v \in GetPersistentVolumeByClaim(Head(attempt[p].todo))

Pinned(v) == v \in HostPathPV \ Ephemeral

\* There is nothing to do for the claim.
NothingToBind(p, v) == Pinned(v) => pvCache[v] = attempt[p].node

SkipClaim(p, v) ==
  /\ AtHead(p, v)
  /\ NothingToBind(p, v)
  /\ GoOn(p)
  /\ UNCHANGED <<pvs, events, pvCache, podNode, faults>>

\* The volume is bound to another node.
BindConflict(p, v) ==
  /\ AtHead(p, v)
  /\ Pinned(v)
  /\ pvCache[v] \notin {Nil, attempt[p].node}
  /\ Answer(p)
  /\ UNCHANGED <<pvs, events, pvCache, podNode, faults>>

\* The volume has no bind node, as far as the cache knows: the patch is sent.
BindHostPathPV(p, v) ==
  /\ AtHead(p, v)
  /\ Pinned(v)
  /\ pvCache[v] = Nil
  /\ attempt' = [attempt EXCEPT ![p].patch = v]
  /\ UNCHANGED <<pvs, events, pvCache, podNode, faults>>

PatchSent(p) == Binding(p) /\ attempt[p].patch # Nil

\* What the patch makes of the PV: the annotation is written, whatever it is by
\* now.
WithBindNode(v, n) == [pvs[v] EXCEPT !.bindNode = n]

\* The patch arrives and is answered.
PatchArrives(p) ==
  LET v == attempt[p].patch
  IN /\ PatchSent(p)
     /\ v \in Existing
     /\ Change(v, WithBindNode(v, attempt[p].node), "update")
     /\ GoOn(p)
     /\ UNCHANGED <<pvCache, podNode, faults>>

\* MUTANT of AfterError: an error of the write is not returned.
AfterErrorGoOn(p) == GoOn(p)

AfterError(p) == Answer(p)

\* The PV is gone, or the call fails, before or after it took effect.
PatchFails(p) ==
  LET v == attempt[p].patch
  IN /\ PatchSent(p)
     /\ IF v \in Existing THEN Fault ELSE faults' = faults
     /\ \/ UNCHANGED <<pvs, events>>
        \/ /\ v \in Existing
           /\ Change(v, WithBindNode(v, attempt[p].node), "update")
     /\ AfterError(p)
     /\ UNCHANGED <<pvCache, podNode>>

\* The last call of Bind.
BindPod(p) ==
  /\ Binding(p)
  /\ attempt[p].todo = <<>>
  /\ podNode' = [podNode EXCEPT ![p] = attempt[p].node]
  /\ Answer(p)
  /\ UNCHANGED <<pvs, events, pvCache, faults>>

\* It fails, before or after it took effect; kube-scheduler then sees the pod on
\* its node.
BindPodFails(p) ==
  /\ Binding(p)
  /\ attempt[p].todo = <<>>
  /\ Fault
  /\ podNode' \in {podNode, [podNode EXCEPT ![p] = attempt[p].node]}
  /\ Answer(p)
  /\ UNCHANGED <<pvs, events, pvCache>>

-----------------------------------------------------------------------------
Bind(p) ==
  \/ \E v \in PV \cup {Nil} : SkipClaim(p, v)
  \/ \E v \in PV : BindConflict(p, v)
  \/ \E v \in PV : BindHostPathPV(p, v)
  \/ PatchArrives(p)
  \/ PatchFails(p)
  \/ BindPod(p)
  \/ BindPodFails(p)

Next ==
  \/ \E v \in PV : CreatePV(v)
  \/ \E v \in PV : BindClaimToPV(v)
  \/ \E v \in PV : ReleasePV(v)
  \/ \E v \in PV : DeletePV(v)
  \/ \E p \in Pod : DeletePod(p)
  \/ \E v \in PV : Process(v)
  \/ Relist
  \/ \E p \in Pod : Schedule(p)
  \/ \E p \in Pod : Bind(p)

Spec == Init /\ [][Next]_vars

\* The informer's goroutine runs, kube-scheduler tries a pending pod again and
\* again, and a Bind that was called goes on.
Fairness ==
  /\ \A v \in PV : WF_vars(Process(v))
  /\ \A p \in Pod : WF_vars(Schedule(p)) /\ WF_vars(Bind(p))

-----------------------------------------------------------------------------
(* Properties. *)

\* A pod runs where its volumes are: every persistent hostPath volume of a
\* scheduled pod has the pod's node as its bind node ("must schedule to volume
\* bind node", FilterNode), though the filter and Bind decide on a cache and
\* other pods bind the same volumes meanwhile.
PodOnBindNode ==
  \A p \in Pod : podNode[p] \in Node =>
    \A v \in Existing : Pinned(v) /\ pvs[v].phase = "Bound" /\ Uses(p, v) =>
      pvs[v].bindNode = podNode[p]

\* The cache has applied every event.
Drained == \A v \in PV : events[v] = <<>>

\* When every event is applied, a bound PV that is in the cache is there with
\* its bind node, whatever batches the events came in, which of them could not
\* be converted and how often the watch broke (DefaultProcessor).  That every
\* bound PV is there, and no other, does not follow: a batch that starts with
\* the unbound PV is dropped, and a released PV stays.
CacheFollows ==
  Drained => \A v \in DOMAIN pvCache :
               pvs[v].phase = "Bound" => pvCache[v] = pvs[v].bindNode

\* A node exists for the pod: its claims are in the cache, and the volumes that
\* are pinned are pinned to one node with room for the others.
Schedulable(p) ==
  /\ podNode[p] # "gone"
  /\ \A c \in ToSet(ClaimsOf[p]) : \E v \in DOMAIN pvCache :
       ClaimOf[v] = c /\ pvs[v].phase = "Bound"
  /\ CanSchedule(p) # {}

\* A pod that can be scheduled, and goes on to be, is scheduled: no error or
\* conflict of Bind leaves its volumes in a state in which it is turned down
\* again and again (the early returns of Bind, the stale bind nodes it sees).
SchedulableIsScheduled ==
  \A p \in Pod : (<>[]Schedulable(p)) => <>(podNode[p] # Nil)

-----------------------------------------------------------------------------
(* The inductive invariant behind CacheFollows; the proofs are in          *)
(* SchedulerProofs.                                                        *)

DeltaType ==
  [type : {"update", "delete", "deleteUnknown"}, phase : Phase,
   bindNode : Node \cup {Nil}]

TypeOK ==
  /\ pvs \in [PV -> [phase : Phase, bindNode : Node \cup {Nil}]]
  /\ events \in [PV -> Seq(DeltaType)]
  /\ DOMAIN pvCache \subseteq PV
  /\ pvCache \in [DOMAIN pvCache -> Node \cup {Nil}]
  /\ podNode \in [Pod -> Node \cup {Nil, "gone"}]
  /\ attempt \in [Pod -> Attempt \cup {Nil}]
  /\ faults \in Nat

\* What is on its way for a PV that is not bound yet cannot be converted, and
\* so the PV is not in the cache.
UnboundInv(v) ==
  /\ v \notin DOMAIN pvCache
  /\ \A i \in DOMAIN events[v] :
       events[v][i].type = "update" /\ events[v][i].phase = "Pending"

\* What is on its way for a bound PV: first deltas from before it was bound,
\* but only as long as the cache does not have it, then those of the bound PV,
\* of which the last has its bind node.  Without any, the cache has it.
BoundInv(v) ==
  LET ev == events[v] IN
  /\ \A i \in DOMAIN ev : /\ ev[i].type = "update"
                          /\ ev[i].phase \in {"Pending", "Bound"}
  /\ \A i, j \in DOMAIN ev :
       i <= j /\ ev[i].phase = "Bound" => ev[j].phase = "Bound"
  /\ v \in DOMAIN pvCache => \A i \in DOMAIN ev : ev[i].phase = "Bound"
  /\ ev # <<>> => /\ ev[Len(ev)].phase = "Bound"
                  /\ ev[Len(ev)].bindNode = pvs[v].bindNode
  /\ ev = <<>> /\ v \in DOMAIN pvCache => pvCache[v] = pvs[v].bindNode

\* Nothing is said of a released PV: it stays in the cache, and its deltas end
\* whatever batch they are in.
PVInv(v) ==
  /\ pvs[v].phase \in {"none", "Pending"} => UnboundInv(v)
  /\ pvs[v].phase = "Bound" => BoundInv(v)

CacheInv == \A v \in PV : PVInv(v)

\* A patch that was sent is for the claim at the head of the loop.
PatchInv ==
  \A p \in Pod : PatchSent(p) =>
    attempt[p].todo # <<>> /\ ClaimOf[attempt[p].patch] = Head(attempt[p].todo)
=============================================================================
