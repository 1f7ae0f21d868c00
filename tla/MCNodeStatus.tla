---------------------------- MODULE MCNodeStatus ----------------------------
(***************************************************************************)
(* Small instances of NodeReport: two disks of different capacities, pods  *)
(* with up to three new volumes, and other nodes with and without room.    *)
(***************************************************************************)
EXTENDS NodeReport, TLC

MCCapacity == 1 :> 5 @@ 2 :> 4

MCRequestLists == BoundedSeq({1, 2, 4}, 2) \cup {<<1, 2, 2>>, <<3, 2, 1>>}

MCOtherNodes == [hostPath : {TRUE}, Capacity : {0, 8}, QuotaSize : {3, 9}]
=============================================================================
