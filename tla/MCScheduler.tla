---------------------------- MODULE MCScheduler -----------------------------
(***************************************************************************)
(* Small instances of BindHistory: two hostPath nodes, of which one has    *)
(* room for one volume at a time only, and one other node; two pods that   *)
(* share a volume; an ephemeral volume and one of another driver.          *)
(***************************************************************************)
EXTENDS BindHistory, TLC

CONSTANTS n1, n2, n3, a, b, x, e, p1, p2

MCDiskStatus == n1 :> <<3, 3>> @@ n2 :> <<3>> @@ n3 :> <<>>

MCClaimOf == [v \in PV |-> v]

MCCapacity == [v \in PV |-> IF v = e THEN 1 ELSE 2]

\* The claims of the PVs of the instance.
MCClaimsOf ==
  LET InPV(claims) == SelectSeq(claims, LAMBDA c : c \in PV)
  IN p1 :> InPV(<<x, a>>) @@ p2 :> InPV(<<e, b, a>>)
=============================================================================
