----------------------------- MODULE NodeReport -----------------------------
(***************************************************************************)
(* What the scheduler extender makes of the report of a node: NodeStatus,  *)
(* and the extender's two computations in Placement on what it has written *)
(* to the node's annotation so far.                                        *)
(***************************************************************************)
EXTENDS NodeStatus, Placement

CONSTANTS
  RequestLists,  \* the sizes of the new volumes a pod may come with
  OtherNodes     \* what other hostPath nodes may have reported

ASSUME ExtenderAssumption ==
  /\ RequestLists \subseteq Seq(Nat)
  /\ OtherNodes \subseteq [hostPath : {TRUE}, Capacity : Nat, QuotaSize : Nat]

AllocatableSizes ==
  [i \in DOMAIN nodeUsageAnn.DiskStatus |->
     nodeUsageAnn.DiskStatus[i].Allocatable]

\* What is reported of the disks that take new volumes: allocateNewQuotaDir
\* passes over a disabled one, whatever its size.
Usable ==
  [i \in DOMAIN nodeUsageAnn.DiskStatus |->
     IF nodeUsageAnn.DiskStatus[i].Disabled THEN -1 ELSE AllocatableSizes[i]]

NoneDisabled ==
  \A i \in DOMAIN nodeUsageAnn.DiskStatus : ~nodeUsageAnn.DiskStatus[i].Disabled

\* Whatever the node has reported, canNodeMatch refuses no pod with up to two new
\* volumes that can be placed on the reported disks that are enabled; and it
\* accepts a pod only if its volumes can be placed there, as long as no disk is
\* reported as disabled (it does not look at Disabled).  It never goes back to a disk it has given up, which
\* needs both its own sorting and the order of the report (DiskInfoList).
MatchIsPlacement ==
  \A requests \in RequestLists :
    IF canNodeMatch(requests, AllocatableSizes)
      THEN NoneDisabled => Fits(requests, Usable)
      ELSE Len(requests) <= 2 => ~Fits(requests, Usable)

Published == [hostPath |-> TRUE, Capacity |-> nodeUsageAnn.Capacity,
              QuotaSize |-> nodeUsageAnn.QuotaSize]

Free(node) == IF node.Capacity <= node.QuotaSize THEN 0
              ELSE node.Capacity - node.QuotaSize

\* Against any other nodes, the node's score follows the free share it has
\* reported: it is in 0..10, it is not below that of a node with a smaller
\* share, and one node scores 10 if a hundredth of this one is free
\* (mapScoringNode, reduceScoringNode; a node may be overcommitted, and may
\* have reported no capacity at all).
ScoresFollowFreeShare ==
  \A s, t \in OtherNodes :
    LET score == ScoreNodes(<<Published, s, t>>)
    IN /\ \A i \in 1 .. 3 : score[i] \in 0 .. 10
       /\ Published.Capacity > 0 =>
            /\ Free(Published) * s.Capacity >= Free(s) * Published.Capacity
                 => score[1] >= score[2]
            /\ 100 * Free(Published) >= Published.Capacity
                 => 10 \in {score[i] : i \in 1 .. 3}
=============================================================================
