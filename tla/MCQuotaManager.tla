--------------------------- MODULE MCQuotaManager ---------------------------
(***************************************************************************)
(* Small instances of QuotaManager: two disks of different capacities, two *)
(* volumes, sizes below and above half a disk, of which one is no whole    *)
(* number of blocks.                                                       *)
(***************************************************************************)
EXTENDS QuotaManager, TLC

CONSTANTS d1, d2

MCCapacity == d1 :> 6 @@ d2 :> 4

MCSymmetry == Permutations(Volume) \cup Permutations(ProjId)
=============================================================================
