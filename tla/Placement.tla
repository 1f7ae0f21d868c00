----------------------------- MODULE Placement ------------------------------
(***************************************************************************)
(* The two computations of the scheduler extender: canNodeMatch, which     *)
(* decides whether the volumes of a pod fit on the disks of a node         *)
(* (hostpathpv_disk_pressure.go), and the scores of ScoreNodes             *)
(* (hostpath_diskusage.go).  Each is stated next to a reference definition *)
(* it is checked against over bounded inputs.                              *)
(***************************************************************************)
EXTENDS Integers, Sequences, FiniteSets, SequencesExt

\* sort.Slice(requestList, >).
Descending(s) ==
  CHOOSE t \in {[i \in DOMAIN s |-> s[p[i]]] :
                  p \in Bijection(DOMAIN s, DOMAIN s)} :
    \A i, j \in DOMAIN t : i < j => t[i] >= t[j]

\* The state of the loop of canNodeMatch: the requests from ir on, and the disks
\* from ih on with what is left of them.
Left == [requests : Seq(Nat), haveNow : Seq(Int)]

\* The next request goes on the first of the disks ...
Taken(left) ==
  [requests |-> Tail(left.requests),
   haveNow  |-> [left.haveNow EXCEPT ![1] = @ - left.requests[1]]]

\* ... or that disk is given up for good.
GivenUp(left) ==
  [requests |-> left.requests, haveNow |-> Tail(left.haveNow)]

\* How many of the requests the loop gets past.
matched[left \in Left] ==
  IF left.requests = <<>> \/ left.haveNow = <<>> THEN 0
  ELSE IF left.requests[1] <= left.haveNow[1] THEN 1 + matched[Taken(left)]
  ELSE matched[GivenUp(left)]

\* MUTANT of canNodeMatch: the requests are not sorted.
canNodeMatchUnsorted(requestList, haveNow) ==
  matched[[requests |-> requestList, haveNow |-> haveNow]] >= Len(requestList)

canNodeMatch(requestList, haveNow) ==
  matched[[requests |-> Descending(requestList), haveNow |-> haveNow]]
    >= Len(requestList)

-----------------------------------------------------------------------------
\* mapScoringNode: the percentage of the capacity that is not committed.  The
\* code's float64 arithmetic rounds as the integer division for sizes below
\* 2^46 here, and for all scores in reduceScoringNode.
mapScoringNode(node) ==
  IF node.Capacity <= node.QuotaSize THEN 0
  ELSE (100 * (node.Capacity - node.QuotaSize)) \div node.Capacity

\* MUTANT of reduceScoringNode: the scores are not scaled to the best one.
reduceScoringNodeUnscaled(scores) == [i \in DOMAIN scores |-> scores[i] \div 10]

\* The scores, scaled so that the best one is 10.
reduceScoringNode(scores) ==
  LET maxCount == Max({scores[i] : i \in DOMAIN scores} \cup {0})
  IN [i \in DOMAIN scores |->
        IF maxCount > 0 THEN (10 * scores[i]) \div maxCount ELSE 0]

DefaultNodeScore == 100

\* One node without hostPath disks, and usage plays no part.
ScoreNodes(nodes) ==
  IF \E i \in DOMAIN nodes : ~nodes[i].hostPath
    THEN [i \in DOMAIN nodes |-> DefaultNodeScore]
    ELSE reduceScoringNode([i \in DOMAIN nodes |-> mapScoringNode(nodes[i])])

-----------------------------------------------------------------------------
(* Reference definitions. *)

Load(requests, place, d) ==
  SumFunctionOnSet(requests, {r \in DOMAIN requests : place[r] = d})

\* Some distribution of the requests over the disks exceeds no disk it uses.
Fits(requests, disks) ==
  \E place \in [DOMAIN requests -> DOMAIN disks] :
    \A r \in DOMAIN requests : Load(requests, place, place[r]) <= disks[place[r]]
=============================================================================
