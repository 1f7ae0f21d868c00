---------------------------- MODULE MCNodeServer ----------------------------
(***************************************************************************)
(* Small instances of NodeServer: a persistent volume with two targets and *)
(* an ephemeral one with one.                                              *)
(***************************************************************************)
EXTENDS NodeServer, TLC

CONSTANTS p, e, p1, p2, e1

MCVolumeOf == p1 :> p @@ p2 :> p @@ e1 :> e

MCPersistentOf == p1 :> p @@ p2 :> p

MCSymmetry == Permutations(Handler) \cup Permutations({p1, p2})
=============================================================================
