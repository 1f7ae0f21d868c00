-------------------------- MODULE NodeReportProofs --------------------------
(***************************************************************************)
(* Theorems about what the extender makes of a node's report, for any      *)
(* disks, volumes, sizes and other nodes.                                  *)
(***************************************************************************)
EXTENDS NodeReport, SumTheorems, SequenceTheorems

-----------------------------------------------------------------------------
(* The scores. *)

\* Division by a positive number.
LEMMA DivFacts ==
  ASSUME NEW a \in Nat, NEW b \in Nat, b > 0
  PROVE  /\ a \div b \in Nat
         /\ (a \div b) * b <= a
         /\ a < (a \div b + 1) * b
  OBVIOUS

\* What a product with a positive number says of the factors.
LEMMA FactorFacts ==
  ASSUME NEW a \in Nat, NEW b \in Nat, NEW c \in Nat, c > 0
  PROVE  /\ a * c <= b * c => a <= b
         /\ a * c < b * c => a < b
         /\ a <= b => a * c <= b * c
  OBVIOUS

Share == [hostPath : {TRUE}, Capacity : Nat, QuotaSize : Nat]

\* The free part of a node, and its percentage.
LEMMA MapScoreFacts ==
  ASSUME NEW node \in Share
  PROVE  /\ Free(node) \in Nat /\ Free(node) <= node.Capacity
         /\ mapScoringNode(node) \in 0 .. 100
         /\ node.Capacity = 0 => mapScoringNode(node) = 0
         /\ node.Capacity > 0 =>
              /\ mapScoringNode(node) * node.Capacity <= 100 * Free(node)
              /\ 100 * Free(node) < (mapScoringNode(node) + 1) * node.Capacity
<1>. DEFINE C == node.Capacity
            Q == node.QuotaSize
            m == mapScoringNode(node)
<1>1. C \in Nat /\ Q \in Nat
  BY DEF Share
<1>2. CASE C <= Q
  <2>1. Free(node) = 0 /\ m = 0
    BY <1>2 DEF Free, mapScoringNode
  <2>. QED
    BY <1>1, <2>1
<1>3. CASE ~(C <= Q)
  <2>1. Free(node) = C - Q /\ m = (100 * (C - Q)) \div C
    BY <1>3 DEF Free, mapScoringNode
  <2>2. C > 0 /\ C - Q \in Nat /\ C - Q <= C /\ 100 * (C - Q) \in Nat
    BY <1>1, <1>3
  <2>. HIDE DEF C, Q, m
  <2>3. m \in Nat /\ m * C <= 100 * (C - Q) /\ 100 * (C - Q) < (m + 1) * C
    BY <1>1, <2>1, <2>2, DivFacts
  <2>4. m <= 100
    <3>1. m * C <= 100 * C
      BY <1>1, <2>2, <2>3
    <3>. QED
      BY <1>1, <2>2, <2>3, <3>1, FactorFacts
  <2>5. Free(node) = C - Q
    BY <2>1
  <2>6. /\ Free(node) \in Nat /\ Free(node) <= C /\ m \in 0 .. 100 /\ C # 0
        /\ m * C <= 100 * Free(node) /\ 100 * Free(node) < (m + 1) * C
    BY <1>1, <2>2, <2>3, <2>4, <2>5
  <2>. QED
    BY <2>6 DEF C, m
<1>. QED
  BY <1>2, <1>3

\* The percentages are ordered as the free shares are.
LEMMA MapScoreMonotone ==
  ASSUME NEW x \in Share, NEW y \in Share, x.Capacity > 0,
         Free(x) * y.Capacity >= Free(y) * x.Capacity
  PROVE  mapScoringNode(x) >= mapScoringNode(y)
<1>. DEFINE cx == x.Capacity
            cy == y.Capacity
            mx == mapScoringNode(x)
            my == mapScoringNode(y)
            fx == Free(x)
            fy == Free(y)
<1>1. /\ cx \in Nat /\ cx > 0 /\ cy \in Nat /\ fx \in Nat /\ fy \in Nat
      /\ mx \in Nat /\ my \in Nat /\ fx * cy >= fy * cx
      /\ 100 * fx < (mx + 1) * cx
      /\ cy = 0 => my = 0
      /\ cy > 0 => my * cy <= 100 * fy
  <2>1. cx \in Nat /\ cy \in Nat
    BY DEF Share
  <2>2. /\ fx \in Nat /\ mx \in 0 .. 100 /\ 100 * fx < (mx + 1) * cx
    BY MapScoreFacts
  <2>3. /\ fy \in Nat /\ my \in 0 .. 100 /\ (cy = 0 => my = 0)
        /\ (cy > 0 => my * cy <= 100 * fy)
    BY MapScoreFacts
  <2>4. cx > 0 /\ fx * cy >= fy * cx
    OBVIOUS
  <2>. HIDE DEF cx, cy, mx, my, fx, fy
  <2>. QED
    BY <2>1, <2>2, <2>3, <2>4
<1>. HIDE DEF cx, cy, mx, my, fx, fy
<1>2. CASE cy = 0
  <2>1. mx >= my
    BY <1>1, <1>2
  <2>. QED
    BY <2>1 DEF mx, my
<1>3. CASE cy > 0
  <2>1. (my * cy) * cx <= (100 * fy) * cx
    BY <1>1, <1>3
  <2>2. (100 * fy) * cx <= (100 * fx) * cy
    BY <1>1
  <2>3. (100 * fx) * cy < ((mx + 1) * cx) * cy
    BY <1>1, <1>3
  <2>4. my * (cx * cy) < (mx + 1) * (cx * cy)
    BY <1>1, <2>1, <2>2, <2>3
  <2>5. my < mx + 1
    BY <1>1, <1>3, <2>4, FactorFacts
  <2>6. mx >= my
    BY <1>1, <2>5
  <2>. QED
    BY <2>6 DEF mx, my
<1>. QED
  BY <1>1, <1>2, <1>3

\* A set of numbers up to a bound has a greatest one, which is its Max.
LEMMA MaxFacts ==
  ASSUME NEW bound \in Nat, NEW T \in SUBSET (0 .. bound), T # {}
  PROVE  Max(T) \in T /\ \A x \in T : x <= Max(T)
<1>. DEFINE Gaps == {bound - x : x \in T}
<1>1. Gaps \in SUBSET Nat /\ Gaps # {}
  <2>1. \A x \in T : bound - x \in Nat
    OBVIOUS
  <2>. QED
    BY <2>1
<1>2. PICK g \in Gaps : \A h \in Gaps : g <= h
  <2>. HIDE DEF Gaps
  <2>. QED
    BY <1>1, LeastNat
<1>3. PICK x \in T : g = bound - x
  BY <1>2
<1>4. \A y \in T : y <= x
  BY <1>2, <1>3
<1>. QED
  BY <1>3, <1>4 DEF Max

\* The scaled scores are in 0..10 and ordered as the percentages are, and the
\* best percentage scores 10, unless it is 0.
LEMMA ReduceFacts ==
  ASSUME NEW D, D # {}, NEW scores \in [D -> 0 .. 100]
  PROVE  LET result == reduceScoringNode(scores) IN
         /\ \A i \in D : result[i] \in 0 .. 10
         /\ \A i, j \in D : scores[i] >= scores[j] => result[i] >= result[j]
         /\ (\E i \in D : scores[i] > 0) => \E i \in D : result[i] = 10
<1>. DEFINE T == {scores[i] : i \in DOMAIN scores} \cup {0}
            M == Max(T)
            result == reduceScoringNode(scores)
<1>1. T \in SUBSET (0 .. 100) /\ T # {}
  OBVIOUS
<1>2. M \in T /\ \A x \in T : x <= M
  <2>. HIDE DEF T
  <2>. QED
    BY <1>1, MaxFacts
<1>3. result = [i \in D |-> IF M > 0 THEN (10 * scores[i]) \div M ELSE 0]
  BY DEF reduceScoringNode
<1>4. M \in Nat /\ \A i \in D : scores[i] \in Nat /\ scores[i] <= M
  BY <1>1, <1>2
<1>5. M > 0 => \E i \in D : scores[i] = M
  BY <1>2
<1>. HIDE DEF M, T, result
<1>6. CASE M = 0
  BY <1>3, <1>4, <1>6 DEF result
<1>7. CASE M > 0
  <2>1. \A i \in D : /\ result[i] = (10 * scores[i]) \div M
                     /\ result[i] \in Nat
                     /\ result[i] * M <= 10 * scores[i]
                     /\ 10 * scores[i] < (result[i] + 1) * M
    <3>. SUFFICES ASSUME NEW i \in D
         PROVE  /\ result[i] = (10 * scores[i]) \div M
                /\ result[i] \in Nat
                /\ result[i] * M <= 10 * scores[i]
                /\ 10 * scores[i] < (result[i] + 1) * M
      OBVIOUS
    <3>1. result[i] = (10 * scores[i]) \div M /\ 10 * scores[i] \in Nat
      BY <1>3, <1>4, <1>7
    <3>. QED
      BY <1>4, <1>7, <3>1, DivFacts
  <2>2. ASSUME NEW i \in D PROVE result[i] \in 0 .. 10
    <3>1. result[i] * M <= 10 * M
      BY <1>4, <2>1
    <3>2. result[i] <= 10
      BY <1>4, <1>7, <2>1, <3>1, FactorFacts
    <3>. QED
      BY <2>1, <3>2
  <2>3. ASSUME NEW i \in D, NEW j \in D, scores[i] >= scores[j]
        PROVE  result[i] >= result[j]
    <3>1. result[j] * M < (result[i] + 1) * M
      BY <1>4, <2>1, <2>3
    <3>2. result[j] < result[i] + 1
      BY <1>4, <1>7, <2>1, <3>1, FactorFacts
    <3>. QED
      BY <2>1, <3>2
  <2>4. \E i \in D : result[i] = 10
    <3>1. PICK i \in D : scores[i] = M
      BY <1>5, <1>7
    <3>2. 10 * M < (result[i] + 1) * M
      BY <2>1, <3>1
    <3>3. 10 < result[i] + 1
      <4>1. 10 \in Nat /\ result[i] + 1 \in Nat
        BY <2>1
      <4>. QED
        BY <1>4, <1>7, <3>2, <4>1, FactorFacts
    <3>. QED
      BY <2>2, <3>3
  <2>. QED
    BY <2>2, <2>3, <2>4 DEF result
<1>. QED
  BY <1>4, <1>6, <1>7

\* Whatever natural sizes the node has reported, its score follows them.
LEMMA ScoresFollow ==
  ASSUME nodeUsageAnn.Capacity \in Nat, nodeUsageAnn.QuotaSize \in Nat
  PROVE  ScoresFollowFreeShare
<1>. SUFFICES ASSUME NEW s \in OtherNodes, NEW t \in OtherNodes
     PROVE  LET score == ScoreNodes(<<Published, s, t>>) IN
            /\ \A i \in 1 .. 3 : score[i] \in 0 .. 10
            /\ Published.Capacity > 0 =>
                 /\ Free(Published) * s.Capacity >= Free(s) * Published.Capacity
                      => score[1] >= score[2]
                 /\ 100 * Free(Published) >= Published.Capacity
                      => 10 \in {score[i] : i \in 1 .. 3}
  BY DEF ScoresFollowFreeShare
<1>1. Published \in Share /\ s \in Share /\ t \in Share
  BY ExtenderAssumption DEF Published, Share
<1>. DEFINE nodes == <<Published, s, t>>
            map == [i \in 1 .. 3 |-> mapScoringNode(nodes[i])]
            score == ScoreNodes(nodes)
<1>2. /\ DOMAIN nodes = 1 .. 3 /\ \A i \in 1 .. 3 : nodes[i] \in Share
      /\ nodes[1] = Published /\ nodes[2] = s
  BY <1>1
<1>. HIDE DEF nodes
<1>3. score = reduceScoringNode(map)
  BY <1>2 DEF ScoreNodes, Share
<1>4. map \in [1 .. 3 -> 0 .. 100]
  BY <1>2, MapScoreFacts
<1>5. map[1] = mapScoringNode(Published) /\ map[2] = mapScoringNode(s)
  BY <1>2
<1>. HIDE DEF map, score
<1>6. /\ \A i \in 1 .. 3 : score[i] \in 0 .. 10
      /\ \A i, j \in 1 .. 3 : map[i] >= map[j] => score[i] >= score[j]
      /\ (\E i \in 1 .. 3 : map[i] > 0) => \E i \in 1 .. 3 : score[i] = 10
  BY <1>3, <1>4, ReduceFacts
<1>7. ASSUME Published.Capacity > 0,
             Free(Published) * s.Capacity >= Free(s) * Published.Capacity
      PROVE  score[1] >= score[2]
  BY <1>1, <1>5, <1>6, <1>7, MapScoreMonotone
<1>8. ASSUME Published.Capacity > 0, 100 * Free(Published) >= Published.Capacity
      PROVE  10 \in {score[i] : i \in 1 .. 3}
  <2>. DEFINE c == Published.Capacity
              m == mapScoringNode(Published)
              f == Free(Published)
  <2>1. c \in Nat /\ c > 0 /\ f \in Nat /\ 100 * f >= c
    BY <1>1, <1>8, MapScoreFacts DEF Share
  <2>2. m \in 0 .. 100 /\ 100 * f < (m + 1) * c
    BY <1>1, <1>8, MapScoreFacts
  <2>. HIDE DEF c, m, f
  <2>3. m # 0
    BY <2>1, <2>2
  <2>4. map[1] > 0
    BY <1>5, <2>2, <2>3 DEF m
  <2>. QED
    BY <1>6, <2>4
<1>. QED
  BY <1>6, <1>7, <1>8 DEF score, nodes

-----------------------------------------------------------------------------
(* The sizes NodeStatus lists and reports. *)

\* A map from some of S to T is a function on a subset of S.
LEMMA MapFacts ==
  ASSUME NEW S, NEW T, NEW f
  PROVE  f \in Map(S, T) <=> DOMAIN f \subseteq S /\ f \in [DOMAIN f -> T]
  BY DEF Map

\* The empty map, an empty or failed listing, is one.
LEMMA EmptyMapFacts ==
  ASSUME NEW S, NEW T
  PROVE  EmptyMap \in Map(S, T)
  BY DEF Map, EmptyMap

\* The quotas of the volumes on a disk add up to a size.
LEMMA QuotaSizeNat ==
  ASSUME NEW qs \in Map(Volume, QuotaInfo), NEW d
  PROVE  QuotaSize(qs, d) \in Nat
<1>. DEFINE hard == [v \in DOMAIN qs |-> qs[v].hard]
<1>1. DOMAIN qs \subseteq Volume /\ qs \in [DOMAIN qs -> QuotaInfo]
  BY MapFacts
<1>2. IsFiniteSet(DOMAIN qs)
  BY <1>1, UnitsAssumption, FS_Subset
<1>3. hard \in [DOMAIN qs -> Nat] /\ On(qs, d) \in SUBSET DOMAIN qs
  BY <1>1 DEF QuotaInfo, On
<1>. HIDE DEF hard
<1>4. SumFunctionOnSet(hard, On(qs, d)) \in Nat
  BY <1>2, <1>3, SumNat
<1>. QED
  BY <1>4 DEF QuotaSize, hard

\* So does their data.
LEMMA DiskUsedNat ==
  ASSUME TypeOK, NEW d
  PROVE  DiskUsed(d) \in Nat
<1>1. On(quotas, d) \in SUBSET Volume /\ data \in [Volume -> Nat]
  BY MapFacts DEF TypeOK, On
<1>. QED
  BY <1>1, UnitsAssumption, SumNat DEF DiskUsed

\* What is reported of the node are sizes.
LEMMA UsageNat ==
  ASSUME NEW disks \in Map(Disk, DiskInfo)
  PROVE  Usage(disks).Capacity \in Nat /\ Usage(disks).QuotaSize \in Nat
<1>. DEFINE cap == [d \in DOMAIN disks |-> disks[d].Capacity]
            size == [d \in DOMAIN disks |-> disks[d].QuotaSize]
<1>1. DOMAIN disks \subseteq Disk /\ disks \in [DOMAIN disks -> DiskInfo]
  BY MapFacts
<1>2. IsFiniteSet(DOMAIN disks)
  BY <1>1, UnitsAssumption, FS_Subset
<1>3. cap \in [DOMAIN disks -> Nat] /\ size \in [DOMAIN disks -> Nat]
  BY <1>1 DEF DiskInfo
<1>4. Usage(disks).Capacity = SumFunction(cap) /\ Usage(disks).QuotaSize = SumFunction(size)
  BY DEF Usage
<1>. HIDE DEF cap, size
<1>5. SumFunctionOnSet(cap, DOMAIN disks) \in Nat /\ SumFunctionOnSet(size, DOMAIN disks) \in Nat
  BY <1>2, <1>3, SumNat
<1>. QED
  BY <1>3, <1>4, <1>5 DEF SumFunction

Disks == [Disk -> [AllocatableSize : Int, Disabled : BOOLEAN, Used : Nat]]

Rounds == [at : {"idle", "usage", "disks", "node"},
           paths : Map(Volume, QuotaInfo), disks : Map(Disk, DiskInfo)]

\* The manager's cache after one of its volumes was changed.
LEMMA SetQuotasFacts ==
  ASSUME TypeOK, NEW qs \in Map(Volume, QuotaInfo), NEW d \in Disk, SetQuotas(qs, d)
  PROVE  quotas' \in Map(Volume, QuotaInfo) /\ diskInfos' \in Disks
<1>1. QuotaSize(qs, d) \in Nat /\ Capacity[d] \in Nat
  BY QuotaSizeNat, UnitsAssumption
<1>. DEFINE allocatable == Capacity[d] - QuotaSize(qs, d)
<1>2. allocatable \in Int
  BY <1>1
<1>3. quotas' = qs /\ diskInfos' = [diskInfos EXCEPT ![d].AllocatableSize = allocatable]
  BY DEF SetQuotas
<1>. HIDE DEF allocatable
<1>. QED
  BY <1>2, <1>3 DEF TypeOK, Disks

\* The manager's Go maps are empty at the start, its disks have their capacity.
LEMMA InitType == Init => TypeOK
<1>. SUFFICES ASSUME Init PROVE TypeOK
  OBVIOUS
<1>1. EmptyMap \in Map(Volume, QuotaInfo) /\ EmptyMap \in Map(Disk, DiskInfo)
  BY EmptyMapFacts
<1>. HIDE DEF EmptyMap, Map
<1>. QED
  BY <1>1, UnitsAssumption DEF Init, TypeOK, NoNodeUsage, Idle

\* Every operation, listing, report and restart keeps the types.
LEMMA NextType == TypeOK /\ [Next]_vars => TypeOK'
<1>. SUFFICES ASSUME TypeOK, [Next]_vars PROVE TypeOK'
  OBVIOUS
<1>. DEFINE Quotas == Map(Volume, QuotaInfo)
<1>1. /\ EmptyMap \in Quotas /\ EmptyMap \in Map(Disk, DiskInfo)
      /\ quotas \in Quotas /\ DOMAIN quotas \subseteq Volume
      /\ quotas \in [DOMAIN quotas -> QuotaInfo]
  BY EmptyMapFacts, MapFacts DEF TypeOK
<1>. HIDE DEF EmptyMap, Quotas
<1>2. ASSUME quotas' \in Quotas, diskInfos' \in Disks, data' \in [Volume -> Nat],
             limit' \in [Volume -> Nat], disabledDisksAnn' \in SUBSET Disk,
             changes' \in Nat, faults' \in Nat, UNCHANGED <<nodeUsageAnn, round>>
      PROVE  TypeOK'
  BY <1>2 DEF TypeOK, Disks, Quotas
<1>3. ASSUME NEW v \in Volume, NEW size \in Sizes, Allocate(v, size) PROVE TypeOK'
  <2>1. size \in Nat
    BY UnitsAssumption
  <2>2. PICK d \in Disk :
          SetQuotas([w \in DOMAIN quotas \cup {v} |->
                       IF w = v THEN [disk |-> d, hard |-> size, used |-> 0]
                       ELSE quotas[w]], d)
    BY <1>3 DEF Allocate
  <2>. DEFINE qs == [w \in DOMAIN quotas \cup {v} |->
                       IF w = v THEN [disk |-> d, hard |-> size, used |-> 0]
                       ELSE quotas[w]]
  <2>3. /\ DOMAIN qs = DOMAIN quotas \cup {v}
        /\ qs \in [DOMAIN quotas \cup {v} -> QuotaInfo]
    BY <1>1, <2>1 DEF QuotaInfo
  <2>. HIDE DEF qs
  <2>4. qs \in Quotas
    BY <1>1, <2>3, MapFacts DEF Quotas
  <2>5. quotas' \in Quotas /\ diskInfos' \in Disks
    BY <2>2, <2>4, SetQuotasFacts DEF qs, Quotas
  <2>. QED
    BY <1>2, <1>3, <2>1, <2>5 DEF Allocate, Change, TypeOK, worker, cluster
<1>4. ASSUME NEW v \in Volume, NEW size \in Sizes, ExpandVolume(v, size) PROVE TypeOK'
  <2>1. size \in Nat /\ v \in DOMAIN quotas
    BY <1>4, UnitsAssumption DEF ExpandVolume
  <2>. DEFINE qs == [quotas EXCEPT ![v].hard = size]
  <2>2. /\ DOMAIN qs = DOMAIN quotas /\ qs \in [DOMAIN quotas -> QuotaInfo]
        /\ quotas[v].disk \in Disk
    BY <1>1, <2>1 DEF QuotaInfo
  <2>3. SetQuotas(qs, quotas[v].disk)
    BY <1>4 DEF ExpandVolume
  <2>. HIDE DEF qs
  <2>4. qs \in Quotas
    BY <1>1, <2>2, MapFacts DEF Quotas
  <2>5. quotas' \in Quotas /\ diskInfos' \in Disks
    BY <2>2, <2>3, <2>4, SetQuotasFacts DEF Quotas
  <2>. QED
    BY <1>2, <1>4, <2>5 DEF ExpandVolume, Change, TypeOK, worker, cluster
<1>5. ASSUME NEW v \in Volume, Release(v) PROVE TypeOK'
  <2>. DEFINE qs == [w \in DOMAIN quotas \ {v} |-> quotas[w]]
  <2>1. /\ DOMAIN qs \subseteq Volume /\ qs \in [DOMAIN qs -> QuotaInfo]
        /\ quotas[v].disk \in Disk
    BY <1>1, <1>5 DEF QuotaInfo, Release
  <2>2. SetQuotas(qs, quotas[v].disk)
    BY <1>5 DEF Release
  <2>. HIDE DEF qs
  <2>3. qs \in Quotas
    BY <2>1, MapFacts DEF Quotas
  <2>4. quotas' \in Quotas /\ diskInfos' \in Disks
    BY <2>1, <2>2, <2>3, SetQuotasFacts DEF Quotas
  <2>. QED
    BY <1>2, <1>5, <2>4 DEF Release, Change, TypeOK, worker, cluster
<1>6. ASSUME NEW v \in Volume, NEW n \in Contents, PodWrites(v, n) PROVE TypeOK'
  BY <1>1, <1>2, <1>6, UnitsAssumption
     DEF PodWrites, Change, TypeOK, worker, cluster, Disks
<1>7. ASSUME NEW d \in Disk, NEW b \in BOOLEAN, SetHostPathDiskDisableState(d, b)
      PROVE  TypeOK'
  BY <1>1, <1>2, <1>7
     DEF SetHostPathDiskDisableState, Change, TypeOK, manager, worker, Disks
<1>8. ASSUME NEW v \in Volume, RemovePV(v) PROVE TypeOK'
  BY <1>1, <1>2, <1>8 DEF RemovePV, Change, TypeOK, manager, worker, Disks
<1>9. CASE Worker
  <2>1. ASSUME NEW T \in SUBSET DOMAIN quotas, ListPathQuotaInfos(T) PROVE TypeOK'
    <3>. DEFINE qs == [v \in DOMAIN quotas |->
                         IF v \in T THEN [quotas[v] EXCEPT !.used = data[v]]
                         ELSE quotas[v]]
    <3>1. DOMAIN qs = DOMAIN quotas /\ qs \in [DOMAIN quotas -> QuotaInfo]
      BY <1>1 DEF QuotaInfo, TypeOK
    <3>2. /\ quotas' = qs
          /\ \/ round' = [round EXCEPT !.at = "usage", !.paths = qs] /\ faults' = faults
             \/ round' = [round EXCEPT !.at = "usage"] /\ Fault
      BY <2>1 DEF ListPathQuotaInfos
    <3>. HIDE DEF qs
    <3>3. qs \in Quotas
      BY <1>1, <3>1, MapFacts DEF Quotas
    <3>4. UNCHANGED <<diskInfos, data, limit, disabledDisksAnn, nodeUsageAnn, changes>>
      BY <2>1 DEF ListPathQuotaInfos, cluster
    <3>5. round' \in Rounds /\ faults' \in Nat
      <4>1. CASE round' = [round EXCEPT !.at = "usage", !.paths = qs] /\ faults' = faults
        BY <3>3, <4>1 DEF TypeOK, Rounds, Quotas
      <4>2. CASE round' = [round EXCEPT !.at = "usage"] /\ Fault
        BY <4>2 DEF Fault, TypeOK, Rounds
      <4>. QED
        BY <3>2, <4>1, <4>2
    <3>. QED
      BY <3>2, <3>3, <3>4, <3>5 DEF TypeOK, Rounds, Quotas
  <2>2. CASE SyncQuotaPathUsage
    <3>1. round' = [round EXCEPT !.at = "disks", !.paths = EmptyMap] /\ faults' \in Nat
      BY <2>2 DEF SyncQuotaPathUsage, Fault, TypeOK
    <3>. QED
      BY <1>1, <2>2, <3>1 DEF SyncQuotaPathUsage, TypeOK, manager, Quotas
  <2>3. ASSUME NEW T \in SUBSET Disk, ListQuotaDiskInfos(T) PROVE TypeOK'
    <3>. DEFINE infos == [d \in Disk |->
                            IF d \in T THEN [diskInfos[d] EXCEPT !.Used = DiskUsed(d)]
                            ELSE diskInfos[d]]
                listed == [d \in Disk |->
                    [MountPoint |-> d, Capacity |-> Capacity[d],
                     QuotaSize |-> QuotaSize(quotas, d), Used |-> infos[d].Used,
                     Allocatable |-> infos[d].AllocatableSize,
                     Disabled |-> infos[d].Disabled]]
    <3>1. \A d \in Disk : /\ DiskUsed(d) \in Nat /\ QuotaSize(quotas, d) \in Nat
                          /\ Capacity[d] \in Nat
      BY <1>1, DiskUsedNat, QuotaSizeNat, UnitsAssumption DEF Quotas
    <3>2. infos \in Disks
      BY <3>1 DEF TypeOK, Disks
    <3>3. /\ diskInfos' = infos
          /\ \/ round' = [round EXCEPT !.at = "node", !.disks = listed] /\ faults' = faults
             \/ round' = [round EXCEPT !.at = "node"] /\ Fault
      BY <2>3 DEF ListQuotaDiskInfos
    <3>. HIDE DEF infos
    <3>4. DOMAIN listed = Disk /\ listed \in [Disk -> DiskInfo]
      BY <3>1, <3>2 DEF Disks, DiskInfo
    <3>. HIDE DEF listed
    <3>5. listed \in Map(Disk, DiskInfo)
      BY <3>4, MapFacts
    <3>6. UNCHANGED <<quotas, data, limit, disabledDisksAnn, nodeUsageAnn, changes>>
      BY <2>3 DEF ListQuotaDiskInfos, cluster
    <3>7. round' \in Rounds /\ faults' \in Nat
      <4>1. CASE round' = [round EXCEPT !.at = "node", !.disks = listed] /\ faults' = faults
        BY <3>5, <4>1 DEF TypeOK, Rounds
      <4>2. CASE round' = [round EXCEPT !.at = "node"] /\ Fault
        BY <4>2 DEF Fault, TypeOK, Rounds
      <4>. QED
        BY <3>3, <4>1, <4>2
    <3>. QED
      BY <3>2, <3>3, <3>6, <3>7 DEF TypeOK, Rounds, Disks
  <2>4. CASE SyncNodeQuotaStatus
    <3>1. /\ Usage(round.disks).Capacity \in Nat
          /\ Usage(round.disks).QuotaSize \in Nat
      BY UsageNat DEF TypeOK
    <3>2. nodeUsageAnn' \in {nodeUsageAnn, Usage(round.disks)} /\ faults' \in Nat
      BY <2>4 DEF SyncNodeQuotaStatus, UpdateNodeHostPathPVUsageInfo, Fault, TypeOK
    <3>3. diskInfos' \in Disks
      <4>1. PICK told : SetDisabledStates(told)
        BY <2>4 DEF SyncNodeQuotaStatus
      <4>. DEFINE disabled(d) == d \in disabledDisksAnn
      <4>2. \A d \in Disk : disabled(d) \in BOOLEAN
        OBVIOUS
      <4>3. diskInfos' = [d \in Disk |->
                  IF d \in told THEN [diskInfos[d] EXCEPT !.Disabled = disabled(d)]
                  ELSE diskInfos[d]]
        BY <4>1 DEF SetDisabledStates
      <4>. HIDE DEF disabled
      <4>. QED
        BY <4>2, <4>3 DEF TypeOK, Disks
    <3>4. round' = Idle
      BY <2>4 DEF SyncNodeQuotaStatus
    <3>. HIDE DEF Usage
    <3>. QED
      BY <1>1, <2>4, <3>1, <3>2, <3>3, <3>4
         DEF SyncNodeQuotaStatus, TypeOK, Idle, Disks, Quotas
  <2>5. CASE GetNodeFails
    BY <1>1, <2>5 DEF GetNodeFails, Fault, TypeOK, Idle, manager, cluster, Quotas
  <2>. QED
    BY <1>9, <2>1, <2>2, <2>3, <2>4, <2>5 DEF Worker
<1>10. CASE Restart
  <2>. DEFINE qs == [v \in DOMAIN quotas |-> [disk |-> quotas[v].disk,
                                              hard |-> limit[v], used |-> data[v]]]
  <2>1. DOMAIN qs = DOMAIN quotas /\ qs \in [DOMAIN quotas -> QuotaInfo]
    BY <1>1 DEF QuotaInfo, TypeOK
  <2>2. quotas' = qs
    BY <1>10 DEF Restart
  <2>. HIDE DEF qs
  <2>3. quotas' \in Quotas
    BY <1>1, <2>1, <2>2, MapFacts DEF Quotas
  <2>4. diskInfos' \in Disks
    <3>1. \A d \in Disk : DiskUsed(d) \in Nat /\ Capacity[d] \in Nat
      BY DiskUsedNat, UnitsAssumption
    <3>2. diskInfos' = [d \in Disk |->
                     [AllocatableSize |-> Capacity[d], Used |-> DiskUsed(d),
                      Disabled |-> diskInfos[d].Disabled]]
      BY <1>10 DEF Restart
    <3>. QED
      BY <3>1, <3>2 DEF TypeOK, Disks
  <2>. QED
    BY <1>1, <1>10, <2>3, <2>4 DEF Restart, Fault, TypeOK, Idle, cluster, Disks, Quotas
<1>11. CASE UNCHANGED vars
  BY <1>11 DEF vars, manager, cluster, worker, TypeOK
<1>. QED
  BY <1>3, <1>4, <1>5, <1>6, <1>7, <1>8, <1>9, <1>10, <1>11 DEF Next

-----------------------------------------------------------------------------
(* The order of the report. *)

\* Disks are sorted, none of them before one that comes first in DiskInfoList.
LEMMA SortedFacts ==
  ASSUME NEW infos \in SUBSET DiskInfo, IsFiniteSet(infos)
  PROVE  /\ Sorted(infos) \in Seq(DiskInfo)
         /\ \A i, j \in DOMAIN Sorted(infos) :
              i < j => Sorted(infos)[i].Allocatable >= Sorted(infos)[j].Allocatable
<1>. DEFINE n == Cardinality(infos)
            R == {x \in DiskInfo \X DiskInfo : ~Less(x[2], x[1])}
            InOrder(t) == \A i, j \in DOMAIN t : i < j => ~Less(t[j], t[i])
<1>1. n \in Nat /\ \E f : f \in Bijection(1 .. n, infos)
  BY FS_CardinalityType DEF ExistsBijection
<1>2. PICK f : f \in Bijection(1 .. n, infos)
  BY <1>1
<1>3. \A x, y \in DiskInfo : <<x, y>> \in R <=> ~Less(y, x)
  OBVIOUS
<1>4. \A x \in DiskInfo : x.Allocatable \in Int /\ x.MountPoint \in Nat
  BY UnitsAssumption DEF DiskInfo
<1>5. TotalOrder(R, DiskInfo)
  <2>1. \A x, y \in DiskInfo : ~Less(y, x) \/ ~Less(x, y)
    BY <1>4 DEF Less
  <2>2. \A x, y, z \in DiskInfo : ~Less(y, x) /\ ~Less(z, y) => ~Less(z, x)
    BY <1>4 DEF Less
  <2>. HIDE DEF R
  <2>. QED
    BY <1>3, <2>1, <2>2 DEF TotalOrder
<1>. HIDE DEF R, n
<1>6. /\ f \in [1 .. n -> infos] /\ f \in [1 .. n -> DiskInfo]
      /\ \A i, j \in 1 .. n : f[i] = f[j] => i = j
  <2>1. f \in [1 .. n -> infos] /\ \A i, j \in 1 .. n : f[i] = f[j] => i = j
    BY <1>2 DEF Bijection, Injection, IsInjective
  <2>. QED
    BY <2>1
<1>7. PICK p \in Bijection(1 .. n, 1 .. n) :
         \A i, j \in 1 .. n : i < j => <<f[p[i]], f[p[j]]>> \in R
  BY <1>1, <1>5, <1>6, SortExists
<1>8. p \in [1 .. n -> 1 .. n] /\ \A i, j \in 1 .. n : p[i] = p[j] => i = j
  BY <1>7 DEF Bijection, Injection, IsInjective
<1>. DEFINE t == [i \in 1 .. n |-> f[p[i]]]
            All == SetToSeqs(infos)
<1>9. All = {s \in [1 .. n -> infos] : \A i, j \in 1 .. n : i # j => s[i] # s[j]}
  BY DEF SetToSeqs, n
<1>10. t \in All
  <2>1. t \in [1 .. n -> infos]
    BY <1>6, <1>8
  <2>2. \A i, j \in 1 .. n : i # j => t[i] # t[j]
    BY <1>6, <1>8
  <2>. HIDE DEF t, All
  <2>. QED
    BY <1>9, <2>1, <2>2
<1>11. InOrder(t)
  <2>1. \A i \in 1 .. n : t[i] \in DiskInfo /\ t[i] = f[p[i]]
    BY <1>6, <1>8
  <2>2. DOMAIN t = 1 .. n
    OBVIOUS
  <2>. HIDE DEF t
  <2>3. \A i, j \in 1 .. n : i < j => <<t[i], t[j]>> \in R
    BY <1>7, <2>1
  <2>. QED
    BY <1>3, <2>1, <2>2, <2>3
<1>12. Sorted(infos) = CHOOSE s \in All : InOrder(s)
  BY DEF Sorted
<1>. DEFINE sorted == Sorted(infos)
<1>13. sorted \in All /\ InOrder(sorted)
  <2>. HIDE DEF All, InOrder, t
  <2>. QED
    BY <1>10, <1>11, <1>12
<1>. HIDE DEF sorted, All
<1>14. sorted \in [1 .. n -> DiskInfo]
  BY <1>9, <1>13
<1>15. sorted \in Seq(DiskInfo) /\ DOMAIN sorted = 1 .. n
  BY <1>1, <1>14
<1>16. \A i, j \in DOMAIN sorted : i < j => sorted[i].Allocatable >= sorted[j].Allocatable
  <2>1. \A x, y \in DiskInfo : ~Less(y, x) => x.Allocatable >= y.Allocatable
    BY <1>4 DEF Less
  <2>2. \A i \in DOMAIN sorted : sorted[i] \in DiskInfo
    BY <1>14
  <2>3. \A i, j \in DOMAIN sorted : i < j => ~Less(sorted[j], sorted[i])
    BY <1>13
  <2>. QED
    BY <2>1, <2>2, <2>3
<1>. QED
  BY <1>15, <1>16 DEF sorted

LargestFirst(sizes) ==
  /\ sizes \in Seq(Int)
  /\ \A i, j \in DOMAIN sizes : i < j => sizes[i] >= sizes[j]

\* The inductive invariant behind MatchIsPlacement, with TypeOK: the reported
\* allocatable sizes are in the order of DiskInfoList.
ReportSorted == LargestFirst(AllocatableSizes)

\* A report made from a listing is in that order.
LEMMA UsageSorted ==
  ASSUME NEW disks \in Map(Disk, DiskInfo), NEW s, s = Usage(disks).DiskStatus
  PROVE  LargestFirst([i \in DOMAIN s |-> s[i].Allocatable])
<1>. DEFINE infos == {disks[d] : d \in DOMAIN disks}
<1>1. DOMAIN disks \subseteq Disk /\ disks \in [DOMAIN disks -> DiskInfo]
  BY MapFacts
<1>2. infos \in SUBSET DiskInfo
  BY <1>1
<1>3. IsFiniteSet(infos)
  <2>1. IsFiniteSet(DOMAIN disks)
    BY <1>1, UnitsAssumption, FS_Subset
  <2>2. disks \in Surjection(DOMAIN disks, infos)
    BY <1>1 DEF Surjection
  <2>. QED
    BY <2>1, <2>2, FS_Surjection
<1>4. s = Sorted(infos)
  BY DEF Usage
<1>. HIDE DEF infos
<1>5. /\ s \in Seq(DiskInfo)
      /\ \A i, j \in DOMAIN s : i < j => s[i].Allocatable >= s[j].Allocatable
  BY <1>2, <1>3, <1>4, SortedFacts
<1>. DEFINE a == [i \in DOMAIN s |-> s[i].Allocatable]
<1>6. Len(s) \in Nat /\ DOMAIN s = 1 .. Len(s) /\ \A i \in DOMAIN s : s[i] \in DiskInfo
  BY <1>5
<1>7. \A i \in DOMAIN s : s[i].Allocatable \in Int
  BY <1>6 DEF DiskInfo
<1>8. a \in [1 .. Len(s) -> Int] /\ DOMAIN a = DOMAIN s
  BY <1>6, <1>7
<1>9. \A i, j \in DOMAIN a : i < j => a[i] >= a[j]
  BY <1>5
<1>. HIDE DEF a
<1>10. a \in Seq(Int)
  BY <1>6, <1>8
<1>. QED
  BY <1>9, <1>10 DEF LargestFirst, a

\* Before the first report there are no disks to be in order.
LEMMA InitSorted == Init => ReportSorted
<1>. SUFFICES ASSUME Init PROVE ReportSorted
  OBVIOUS
<1>1. nodeUsageAnn.DiskStatus = <<>>
  BY DEF Init, NoNodeUsage
<1>2. DOMAIN AllocatableSizes = {} /\ AllocatableSizes = <<>>
  BY <1>1 DEF AllocatableSizes
<1>. QED
  BY <1>2 DEF ReportSorted, LargestFirst

\* Only a report that arrives changes what is reported.
LEMMA NextSorted == TypeOK /\ ReportSorted /\ [Next]_vars => ReportSorted'
<1>. SUFFICES ASSUME TypeOK, ReportSorted, [Next]_vars PROVE ReportSorted'
  OBVIOUS
<1>1. ASSUME UNCHANGED nodeUsageAnn PROVE ReportSorted'
  BY <1>1 DEF ReportSorted, AllocatableSizes
<1>2. CASE SyncNodeQuotaStatus
  <2>1. nodeUsageAnn' \in {nodeUsageAnn, Usage(round.disks)}
    BY <1>2 DEF SyncNodeQuotaStatus, UpdateNodeHostPathPVUsageInfo
  <2>2. CASE nodeUsageAnn' = Usage(round.disks)
    <3>. DEFINE disks == round.disks
                s == nodeUsageAnn'.DiskStatus
    <3>1. disks \in Map(Disk, DiskInfo)
      BY DEF TypeOK
    <3>2. s = Usage(disks).DiskStatus
      BY <2>2
    <3>3. LargestFirst([i \in DOMAIN s |-> s[i].Allocatable])
      <4>. HIDE DEF s, disks
      <4>. QED
        BY <3>1, <3>2, UsageSorted
    <3>. QED
      BY <3>3 DEF ReportSorted, AllocatableSizes
  <2>. QED
    BY <1>1, <2>1, <2>2
<1>3. CASE ~SyncNodeQuotaStatus
  <2>1. UNCHANGED nodeUsageAnn
    BY <1>3 DEF Next, Worker, Allocate, ExpandVolume, Release, PodWrites,
         SetHostPathDiskDisableState, RemovePV, ListPathQuotaInfos,
         SyncQuotaPathUsage, ListQuotaDiskInfos, GetNodeFails, Restart,
         vars, cluster
  <2>. QED
    BY <1>1, <2>1
<1>. QED
  BY <1>2, <1>3

-----------------------------------------------------------------------------
(* canNodeMatch against the reference definition Fits. *)

\* How much there is left to look at; both steps of the loop make it less.
Size(left) == Len(left.requests) + Len(left.haveNow)

\* What the state of the loop is made of.
LEMMA LeftFacts ==
  ASSUME NEW left \in Left
  PROVE  /\ left.requests \in Seq(Nat) /\ left.haveNow \in Seq(Int)
         /\ Len(left.requests) \in Nat /\ Len(left.haveNow) \in Nat
         /\ Size(left) \in Nat
         /\ left = [requests |-> left.requests, haveNow |-> left.haveNow]
  BY DEF Left, Size

\* Taking a request leaves one request less.
LEMMA TakenFacts ==
  ASSUME NEW left \in Left, left.requests # <<>>, left.haveNow # <<>>
  PROVE  /\ Taken(left) \in Left
         /\ Size(Taken(left)) = Size(left) - 1
         /\ Len(Taken(left).requests) = Len(left.requests) - 1
<1>. DEFINE r == left.requests
            d == left.haveNow
            e == [d EXCEPT ![1] = @ - r[1]]
<1>1. r \in Seq(Nat) /\ d \in Seq(Int) /\ r # <<>> /\ d # <<>>
  BY LeftFacts
<1>2. Taken(left) = [requests |-> Tail(r), haveNow |-> e]
  BY DEF Taken
<1>. HIDE DEF r, d
<1>3. Tail(r) \in Seq(Nat) /\ Len(Tail(r)) = Len(r) - 1 /\ Len(r) \in Nat
  BY <1>1
<1>4. e \in Seq(Int) /\ Len(e) = Len(d) /\ Len(d) \in Nat
  BY <1>1
<1>. HIDE DEF e
<1>5. Taken(left) \in Left
  BY <1>2, <1>3, <1>4 DEF Left
<1>6. Size(left) = Len(r) + Len(d) /\ Len(left.requests) = Len(r)
  BY DEF Size, r, d
<1>7. /\ Size(Taken(left)) = Len(Tail(r)) + Len(e)
      /\ Len(Taken(left).requests) = Len(Tail(r))
  BY <1>2 DEF Size
<1>8. Size(left) \in Nat /\ Size(Taken(left)) \in Nat
  BY <1>5, LeftFacts
<1>9. Size(Taken(left)) = Size(left) - 1
  <2>1. \A a, b \in Nat : (a - 1) + b = (a + b) - 1
    OBVIOUS
  <2>2. Len(Tail(r)) + Len(e) = (Len(r) - 1) + Len(d)
    BY <1>3, <1>4, Zenon
  <2>3. (Len(r) - 1) + Len(d) = (Len(r) + Len(d)) - 1
    BY <1>3, <1>4, <2>1, Zenon
  <2>4. Size(Taken(left)) = (Len(r) + Len(d)) - 1
    BY <1>7, <2>2, <2>3, Zenon
  <2>. QED
    BY <1>6, <2>4, Zenon
<1>10. Len(Taken(left).requests) = Len(left.requests) - 1
  BY <1>3, <1>6, <1>7, Zenon
<1>. QED
  BY <1>5, <1>9, <1>10

\* Giving up a disk leaves the requests as they are.
LEMMA GivenUpFacts ==
  ASSUME NEW left \in Left, left.requests # <<>>, left.haveNow # <<>>
  PROVE  /\ GivenUp(left) \in Left
         /\ Size(GivenUp(left)) = Size(left) - 1
         /\ GivenUp(left).requests = left.requests
<1>. DEFINE r == left.requests
            d == left.haveNow
<1>1. r \in Seq(Nat) /\ d \in Seq(Int) /\ r # <<>> /\ d # <<>> /\ Len(r) \in Nat
  BY LeftFacts
<1>2. GivenUp(left) = [requests |-> r, haveNow |-> Tail(d)]
  BY DEF GivenUp
<1>. HIDE DEF r, d
<1>3. Tail(d) \in Seq(Int) /\ Len(Tail(d)) = Len(d) - 1 /\ Len(d) \in Nat
  BY <1>1
<1>4. GivenUp(left) \in Left
  BY <1>1, <1>2, <1>3 DEF Left
<1>5. Size(left) = Len(r) + Len(d) /\ left.requests = r
  BY DEF Size, r, d
<1>6. Size(GivenUp(left)) = Len(r) + Len(Tail(d)) /\ GivenUp(left).requests = r
  BY <1>2 DEF Size
<1>. QED
  BY <1>1, <1>3, <1>4, <1>5, <1>6

\* One turn of the loop, the rest of it counted by g.
Turn(g, left) ==
  IF left.requests = <<>> \/ left.haveNow = <<>> THEN 0
  ELSE IF left.requests[1] <= left.haveNow[1] THEN 1 + g[Taken(left)]
  ELSE g[GivenUp(left)]

\* What the definition of matched stands for.
LEMMA MatchedUnfolded ==
  matched = CHOOSE g : g = [left \in Left |-> Turn(g, left)]
  BY DEF matched, Turn

\* Up to some size of the state, the recursion has a solution.
Small(n) == {left \in Left : Size(left) <= n}

Counts(g, n) == \A left \in Small(n) : g[left] = Turn(g, left)

\* One turn counts no less than nothing, and looks at smaller states only.
LEMMA TurnFacts ==
  ASSUME NEW n \in Nat, NEW m \in Nat, NEW left \in Small(n), Size(left) <= m + 1,
         NEW g, \A l \in Small(n) : Size(l) <= m => g[l] \in Nat
  PROVE  Turn(g, left) \in Nat
<1>1. left \in Left /\ Size(left) \in Nat /\ Size(left) <= n
  BY LeftFacts DEF Small
<1>2. CASE left.requests = <<>> \/ left.haveNow = <<>>
  BY <1>2 DEF Turn
<1>3. CASE left.requests # <<>> /\ left.haveNow # <<>>
  <2>1. /\ Taken(left) \in Small(n) /\ Size(Taken(left)) <= m
        /\ GivenUp(left) \in Small(n) /\ Size(GivenUp(left)) <= m
    BY <1>1, <1>3, TakenFacts, GivenUpFacts DEF Small
  <2>. QED
    BY <1>3, <2>1 DEF Turn
<1>. QED
  BY <1>2, <1>3

\* A turn only depends on how the smaller states are counted.
LEMMA TurnsAgree ==
  ASSUME NEW left \in Left, NEW g, NEW f,
         \A l \in Left : Size(l) < Size(left) => g[l] = f[l]
  PROVE  Turn(g, left) = Turn(f, left)
<1>1. CASE left.requests = <<>> \/ left.haveNow = <<>>
  BY <1>1 DEF Turn
<1>2. CASE left.requests # <<>> /\ left.haveNow # <<>>
  <2>1. g[Taken(left)] = f[Taken(left)] /\ g[GivenUp(left)] = f[GivenUp(left)]
    BY <1>2, TakenFacts, GivenUpFacts, LeftFacts
  <2>. QED
    BY <1>2, <2>1 DEF Turn
<1>. QED
  BY <1>1, <1>2

\* A nonempty set of states of the loop has one of the least size.
LEMMA LeastLeft ==
  ASSUME NEW Bad \in SUBSET Left, Bad # {}
  PROVE  \E left \in Bad : \A l \in Bad : Size(left) <= Size(l)
<1>. DEFINE Lengths == {Size(l) : l \in Bad}
<1>1. Lengths \in SUBSET Nat /\ Lengths # {}
  BY LeftFacts
<1>2. PICK n \in Lengths : \A m \in Lengths : n <= m
  <2>. HIDE DEF Lengths
  <2>. QED
    BY <1>1, LeastNat
<1>. QED
  BY <1>2

\* There is a count of the states of every size.
LEMMA CountsExist ==
  ASSUME NEW n \in Nat
  PROVE  \E g \in [Small(n) -> Nat] : Counts(g, n)
<1>. DEFINE Countable(k) == \E g \in [Small(k) -> Nat] : Counts(g, k)
            Bad == {k \in Nat : ~Countable(k)}
<1>1. Countable(0)
  <2>. DEFINE g0 == [left \in Small(0) |-> 0]
  <2>1. \A left \in Small(0) : left.requests = <<>>
    <3>1. SUFFICES ASSUME NEW left \in Small(0) PROVE left.requests = <<>>
      OBVIOUS
    <3>2. left \in Left /\ Size(left) <= 0
      BY DEF Small
    <3>3. left.requests \in Seq(Nat) /\ Len(left.requests) = 0
      <4>1. /\ left.requests \in Seq(Nat) /\ Len(left.requests) \in Nat
            /\ Len(left.haveNow) \in Nat /\ Size(left) \in Nat
        BY <3>2, LeftFacts
      <4>2. Size(left) = Len(left.requests) + Len(left.haveNow)
        BY DEF Size
      <4>3. \A a, b \in Nat : a + b <= 0 => a = 0
        OBVIOUS
      <4>4. Len(left.requests) + Len(left.haveNow) <= 0
        BY <3>2, <4>2, Zenon
      <4>. QED
        BY <4>1, <4>3, <4>4, Zenon
    <3>. QED
      BY <3>3
  <2>2. g0 \in [Small(0) -> Nat] /\ Counts(g0, 0)
    BY <2>1 DEF Counts, Turn
  <2>. QED
    BY <2>2
<1>2. ASSUME NEW k \in Nat, Countable(k) PROVE Countable(k + 1)
  <2>1. PICK g \in [Small(k) -> Nat] : Counts(g, k)
    BY <1>2
  <2>. DEFINE e == [left \in Small(k + 1) |-> Turn(g, left)]
  <2>2. \A left \in Small(k + 1) : Turn(g, left) \in Nat
    <3>1. \A l \in Small(k + 1) : Size(l) <= k => g[l] \in Nat
      BY <2>1 DEF Small
    <3>2. \A left \in Small(k + 1) : Size(left) <= k + 1
      BY DEF Small
    <3>. QED
      BY <3>1, <3>2, TurnFacts
  <2>3. e \in [Small(k + 1) -> Nat]
    BY <2>2
  <2>4. \A l \in Small(k) : l \in Small(k + 1) /\ e[l] = g[l]
    BY <2>1, LeftFacts DEF Small, Counts
  <2>5. ASSUME NEW left \in Small(k + 1) PROVE e[left] = Turn(e, left)
    <3>1. left \in Left /\ Size(left) \in Nat /\ Size(left) <= k + 1
      BY LeftFacts DEF Small
    <3>2. \A l \in Left : Size(l) < Size(left) => l \in Small(k)
      BY <3>1, LeftFacts DEF Small
    <3>3. \A l \in Left : Size(l) < Size(left) => g[l] = e[l]
      BY <2>4, <3>2
    <3>4. e[left] = Turn(g, left)
      OBVIOUS
    <3>. HIDE DEF e
    <3>. QED
      BY <3>1, <3>3, <3>4, TurnsAgree
  <2>. HIDE DEF e
  <2>6. Counts(e, k + 1)
    BY <2>5 DEF Counts
  <2>. QED
    BY <2>3, <2>6
<1>. HIDE DEF Countable
<1>3. Bad = {}
  <2>1. SUFFICES ASSUME Bad # {} PROVE FALSE
    OBVIOUS
  <2>2. PICK k \in Bad : \A m \in Bad : k <= m
    <3>1. Bad \in SUBSET Nat
      OBVIOUS
    <3>. HIDE DEF Bad
    <3>. QED
      BY <2>1, <3>1, LeastNat
  <2>3. k # 0 /\ k - 1 \in Nat /\ k - 1 \notin Bad
    BY <1>1, <2>2
  <2>. QED
    BY <1>2, <2>2, <2>3
<1>4. Countable(n)
  BY <1>3
<1>. QED
  BY <1>4 DEF Countable

\* Two solutions agree where both are.
LEMMA CountsAgree ==
  ASSUME NEW n \in Nat, NEW m \in Nat, NEW g, NEW f, Counts(g, n), Counts(f, m)
  PROVE  \A left \in Left : Size(left) <= n /\ Size(left) <= m => g[left] = f[left]
<1>. DEFINE Bad == {left \in Left : /\ Size(left) <= n /\ Size(left) <= m
                                    /\ g[left] # f[left]}
<1>1. SUFFICES ASSUME Bad # {} PROVE FALSE
  OBVIOUS
<1>2. PICK left \in Bad : \A l \in Bad : Size(left) <= Size(l)
  <2>1. Bad \in SUBSET Left
    OBVIOUS
  <2>. HIDE DEF Bad
  <2>. QED
    BY <1>1, <2>1, LeastLeft
<1>3. left \in Left /\ Size(left) \in Nat /\ left \in Small(n) /\ left \in Small(m)
  BY <1>2, LeftFacts DEF Small
<1>4. ASSUME NEW l \in Left, Size(l) < Size(left) PROVE g[l] = f[l]
  <2>1. Size(l) \in Nat /\ ~(Size(left) <= Size(l)) /\ Size(l) <= n /\ Size(l) <= m
    BY <1>2, <1>3, <1>4, LeftFacts
  <2>. QED
    BY <1>2, <2>1
<1>5. Turn(g, left) = Turn(f, left)
  BY <1>3, <1>4, TurnsAgree
<1>. QED
  BY <1>2, <1>3, <1>5 DEF Counts

\* The loop as the function it computes.
LEMMA MatchedFacts ==
  ASSUME NEW left \in Left
  PROVE  matched[left] = Turn(matched, left)
<1>. DEFINE at(l) == CHOOSE g \in [Small(Size(l)) -> Nat] : Counts(g, Size(l))
            G == [l \in Left |-> at(l)[l]]
<1>1. \A l \in Left : Size(l) \in Nat /\ Counts(at(l), Size(l))
  BY LeftFacts, CountsExist
<1>. HIDE DEF at
<1>2. ASSUME NEW l \in Left PROVE G[l] = Turn(G, l)
  <2>1. \A k \in Left : Size(k) < Size(l) => at(l)[k] = G[k]
    <3>1. SUFFICES ASSUME NEW k \in Left, Size(k) < Size(l) PROVE at(l)[k] = G[k]
      OBVIOUS
    <3>2. Size(k) \in Nat /\ Size(l) \in Nat /\ Size(k) <= Size(l) /\ Size(k) <= Size(k)
      BY <1>1, <3>1
    <3>3. at(l)[k] = at(k)[k]
      BY <1>1, <3>2, CountsAgree
    <3>. QED
      BY <3>3
  <2>2. at(l)[l] = Turn(at(l), l)
    BY <1>1 DEF Counts, Small
  <2>3. G[l] = at(l)[l]
    OBVIOUS
  <2>. HIDE DEF G
  <2>. QED
    BY <2>1, <2>2, <2>3, TurnsAgree
<1>3. G = [l \in Left |-> Turn(G, l)]
  <2>1. G = [l \in Left |-> G[l]]
    OBVIOUS
  <2>. HIDE DEF G
  <2>. QED
    BY <1>2, <2>1
<1>. HIDE DEF G
<1>4. matched = [l \in Left |-> Turn(matched, l)]
  BY <1>3, MatchedUnfolded
<1>. QED
  BY <1>4

\* The loop counts requests.
LEMMA MatchedNat ==
  ASSUME NEW left \in Left
  PROVE  matched[left] \in Nat
<1>. DEFINE Bad == {l \in Left : matched[l] \notin Nat}
<1>1. SUFFICES ASSUME Bad # {} PROVE FALSE
  OBVIOUS
<1>2. PICK l \in Bad : \A k \in Bad : Size(l) <= Size(k)
  <2>1. Bad \in SUBSET Left
    OBVIOUS
  <2>. HIDE DEF Bad
  <2>. QED
    BY <1>1, <2>1, LeastLeft
<1>3. l \in Left /\ matched[l] \notin Nat
  BY <1>2
<1>4. CASE l.requests = <<>> \/ l.haveNow = <<>>
  BY <1>3, <1>4, MatchedFacts DEF Turn
<1>5. CASE l.requests # <<>> /\ l.haveNow # <<>>
  <2>1. /\ Taken(l) \in Left /\ GivenUp(l) \in Left
        /\ Size(Taken(l)) = Size(l) - 1 /\ Size(GivenUp(l)) = Size(l) - 1
    BY <1>3, <1>5, TakenFacts, GivenUpFacts
  <2>2. Size(l) \in Nat
    BY <1>3, LeftFacts
  <2>3. Taken(l) \notin Bad /\ GivenUp(l) \notin Bad
    <3>1. ~(Size(l) <= Size(l) - 1)
      BY <2>2
    <3>. HIDE DEF Bad
    <3>. QED
      BY <1>2, <2>1, <3>1
  <2>4. matched[Taken(l)] \in Nat /\ matched[GivenUp(l)] \in Nat
    BY <2>1, <2>3
  <2>. QED
    BY <1>3, <1>5, <2>4, MatchedFacts DEF Turn
<1>. QED
  BY <1>4, <1>5

\* The sum over part of a sequence, with its first element and without it.
\* (The hypotheses are kept out of the steps about sums, in which the domain of
\* the sequence is any finite set.)
Shifted(n, r, t, A, B) ==
  /\ n \in Nat /\ n >= 1
  /\ r \in [1 .. n -> Nat] /\ t \in [1 .. n - 1 -> Nat]
  /\ A \in SUBSET (1 .. n) /\ B \in SUBSET (1 .. n - 1)
  /\ \A i \in 1 .. n - 1 : t[i] = r[i + 1] /\ (i \in B <=> i + 1 \in A)

\* The sum over the shifted sequence, without and with the first element.
LEMMA ShiftedSum ==
  ASSUME NEW n, NEW r, NEW t, NEW A, NEW B, Shifted(n, r, t, A, B)
  PROVE  /\ SumFunctionOnSet(t, B) \in Nat
         /\ 1 \in A => SumFunctionOnSet(r, A) = r[1] + SumFunctionOnSet(t, B)
         /\ 1 \notin A => SumFunctionOnSet(r, A) = SumFunctionOnSet(t, B)
<1>. DEFINE D == 1 .. n
            E == 1 .. n - 1
            f == [i \in E |-> i + 1]
            C == A \ {1}
<1>1. IsFiniteSet(D) /\ IsFiniteSet(E)
  <2>1. \A a, b \in Int : IsFiniteSet(a .. b)
    BY FS_Interval
  <2>. QED
    BY <2>1 DEF Shifted
<1>2. /\ r \in [D -> Nat] /\ t \in [E -> Nat] /\ A \in SUBSET D /\ B \in SUBSET E
      /\ C \in SUBSET D
  BY DEF Shifted
<1>3. f \in [E -> D]
  BY DEF Shifted
<1>4. \A x, y \in E : f[x] = f[y] => x = y
  BY DEF Shifted
<1>5. \A x \in E : t[x] = r[f[x]]
  BY DEF Shifted
<1>6. (\A i \in B : f[i] \in C) /\ \A j \in C : \E i \in B : f[i] = j
  <2>1. ASSUME NEW i \in B PROVE f[i] \in C
    <3>1. i \in 1 .. n - 1 /\ f[i] = i + 1 /\ i + 1 # 1 /\ i + 1 \in A
      BY DEF Shifted
    <3>. QED
      BY <3>1
  <2>2. ASSUME NEW j \in C PROVE \E i \in B : f[i] = j
    <3>1. j - 1 \in 1 .. n - 1 /\ (j - 1) + 1 = j /\ j - 1 \in B
      BY DEF Shifted
    <3>2. f[j - 1] = j
      BY <3>1
    <3>. QED
      BY <3>1, <3>2
  <2>. HIDE DEF f, C
  <2>. QED
    BY <2>1, <2>2
<1>7. r[1] \in Nat
  BY DEF Shifted
<1>8. 1 \notin A => C = A
  OBVIOUS
<1>. HIDE DEF D, E, f
<1>9. 1 \in A => SumFunctionOnSet(r, A) = r[1] + SumFunctionOnSet(r, C)
  BY <1>1, <1>2, SumRemove
<1>. HIDE DEF C
<1>10. SumFunctionOnSet(t, B) = SumFunctionOnSet(r, C)
  BY <1>1, <1>2, <1>3, <1>4, <1>5, <1>6, SumRenamed
<1>11. SumFunctionOnSet(t, B) \in Nat
  BY <1>1, <1>2, SumNat
<1>. QED
  BY <1>7, <1>8, <1>9, <1>10, <1>11

\* The requests placed on one disk, with the first request and without it.
LEMMA TailLoad ==
  ASSUME NEW r, NEW place, NEW rest, NEW k
  PROVE  /\ r \in Seq(Nat) /\ r # <<>>
         /\ \A i \in 1 .. Len(r) - 1 : rest[i] = place[i + 1]
         => /\ Load(Tail(r), rest, k) \in Nat
            /\ place[1] = k => Load(r, place, k) = r[1] + Load(Tail(r), rest, k)
            /\ place[1] # k => Load(r, place, k) = Load(Tail(r), rest, k)
<1>. DEFINE n == Len(r)
            t == Tail(r)
            A == {i \in 1 .. n : place[i] = k}
            B == {i \in 1 .. n - 1 : rest[i] = k}
<1>0. SUFFICES ASSUME r \in Seq(Nat), r # <<>>,
                      \A i \in 1 .. n - 1 : rest[i] = place[i + 1]
               PROVE  /\ Load(t, rest, k) \in Nat
                      /\ place[1] = k => Load(r, place, k) = r[1] + Load(t, rest, k)
                      /\ place[1] # k => Load(r, place, k) = Load(t, rest, k)
  OBVIOUS
<1>1. n \in Nat /\ n >= 1 /\ DOMAIN r = 1 .. n /\ r \in [1 .. n -> Nat]
  BY <1>0
<1>2. t \in Seq(Nat) /\ Len(t) = n - 1
  BY <1>0
<1>3. \A i \in 1 .. n - 1 : t[i] = r[i + 1]
  BY <1>0
<1>4. t \in [1 .. n - 1 -> Nat] /\ DOMAIN t = 1 .. n - 1
  <2>. HIDE DEF t, n
  <2>. QED
    BY <1>2
<1>5. /\ A \in SUBSET (1 .. n) /\ B \in SUBSET (1 .. n - 1)
      /\ 1 \in A <=> place[1] = k
  BY <1>1
<1>6. \A i \in 1 .. n - 1 : i \in B <=> i + 1 \in A
  BY <1>0, <1>1
<1>7. Load(r, place, k) = SumFunctionOnSet(r, A)
  BY <1>1 DEF Load
<1>8. Load(t, rest, k) = SumFunctionOnSet(t, B)
  BY <1>4 DEF Load
<1>. HIDE DEF n, t, A, B
<1>9. Shifted(n, r, t, A, B)
  BY <1>1, <1>3, <1>4, <1>5, <1>6 DEF Shifted
<1>10. /\ SumFunctionOnSet(t, B) \in Nat
       /\ 1 \in A => SumFunctionOnSet(r, A) = r[1] + SumFunctionOnSet(t, B)
       /\ 1 \notin A => SumFunctionOnSet(r, A) = SumFunctionOnSet(t, B)
  BY <1>9, ShiftedSum
<1>. QED
  BY <1>5, <1>7, <1>8, <1>10, Zenon

\* What is accepted by the loop can be placed.
LEMMA TakenFits ==
  ASSUME NEW r, NEW d
  PROVE  /\ r \in Seq(Nat) /\ d \in Seq(Int) /\ r # <<>> /\ d # <<>>
         /\ r[1] <= d[1] /\ Fits(Tail(r), [d EXCEPT ![1] = @ - r[1]])
         => Fits(r, d)
<1>. DEFINE t == Tail(r)
            e == [d EXCEPT ![1] = @ - r[1]]
            n == Len(r)
<1>0. SUFFICES ASSUME r \in Seq(Nat), d \in Seq(Int), r # <<>>, d # <<>>,
                      r[1] <= d[1], Fits(t, e)
               PROVE  Fits(r, d)
  OBVIOUS
<1>1. /\ n \in Nat /\ n >= 1 /\ DOMAIN r = 1 .. n /\ r[1] \in Nat
      /\ DOMAIN e = DOMAIN d /\ 1 \in DOMAIN d
      /\ e[1] = d[1] - r[1] /\ \A k \in DOMAIN d \ {1} : e[k] = d[k]
      /\ \A k \in DOMAIN d : d[k] \in Int
  BY <1>0
<1>2. DOMAIN t = 1 .. n - 1
  BY <1>0
<1>3. PICK rest \in [DOMAIN t -> DOMAIN e] :
         \A i \in DOMAIN t : Load(t, rest, rest[i]) <= e[rest[i]]
  BY <1>0 DEF Fits
<1>. DEFINE place == [i \in 1 .. n |-> IF i = 1 THEN 1 ELSE rest[i - 1]]
<1>. HIDE DEF t, e, n
<1>4. place \in [DOMAIN r -> DOMAIN d]
  BY <1>1, <1>2, <1>3
<1>5. place[1] = 1 /\ \A i \in 1 .. n - 1 : rest[i] = place[i + 1]
  BY <1>1
<1>6. ASSUME NEW i \in 1 .. n, i # 1
      PROVE  \E j \in DOMAIN t : rest[j] = place[i]
  <2>1. i - 1 \in DOMAIN t /\ rest[i - 1] = place[i]
    BY <1>1, <1>2, <1>6
  <2>. QED
    BY <2>1
<1>. HIDE DEF place
<1>7. \A k : /\ Load(t, rest, k) \in Nat
             /\ place[1] = k => Load(r, place, k) = r[1] + Load(t, rest, k)
             /\ place[1] # k => Load(r, place, k) = Load(t, rest, k)
  <2>1. \A i \in 1 .. Len(r) - 1 : rest[i] = place[i + 1]
    BY <1>5 DEF n
  <2>2. r \in Seq(Nat) /\ r # <<>>
    BY <1>0
  <2>. QED
    BY <2>1, <2>2, TailLoad DEF t
<1>8. \A k : Load(t, rest, k) = 0 \/ \E j \in DOMAIN t : rest[j] = k
  <2>1. SUFFICES ASSUME NEW k, \A j \in DOMAIN t : rest[j] # k
                 PROVE  Load(t, rest, k) = 0
    OBVIOUS
  <2>2. {j \in DOMAIN t : rest[j] = k} = {}
    BY <2>1
  <2>3. SumFunctionOnSet(t, {}) = 0
    <3>1. t \in Seq(Nat)
      BY <1>0 DEF t
    <3>2. t \in [DOMAIN t -> Nat]
      BY <3>1
    <3>3. IsFiniteSet(DOMAIN t)
      BY <1>1, <1>2, FS_Interval
    <3>. QED
      BY <3>2, <3>3, SumNat
  <2>. QED
    BY <2>2, <2>3 DEF Load
<1>9. ASSUME NEW k \in DOMAIN d, \E i \in 1 .. n : place[i] = k
      PROVE  Load(r, place, k) <= d[k]
  <2>1. CASE k = 1
    <3>1. Load(r, place, k) = r[1] + Load(t, rest, k) /\ Load(t, rest, k) \in Nat
      BY <1>5, <1>7, <2>1
    <3>2. CASE Load(t, rest, k) = 0
      BY <1>0, <1>1, <2>1, <3>1, <3>2
    <3>3. CASE \E j \in DOMAIN t : rest[j] = k
      <4>1. Load(t, rest, k) <= d[1] - r[1]
        BY <1>1, <1>3, <2>1, <3>3
      <4>. QED
        BY <1>1, <2>1, <3>1, <4>1
    <3>. QED
      BY <1>8, <3>2, <3>3
  <2>2. CASE k # 1
    <3>1. Load(r, place, k) = Load(t, rest, k)
      BY <1>5, <1>7, <2>2
    <3>2. \E j \in DOMAIN t : rest[j] = k
      BY <1>5, <1>6, <1>9, <2>2
    <3>. QED
      BY <1>1, <1>3, <2>2, <3>1, <3>2
  <2>. QED
    BY <2>1, <2>2
<1>10. \A i \in DOMAIN r : Load(r, place, place[i]) <= d[place[i]]
  BY <1>1, <1>4, <1>9
<1>. QED
  BY <1>4, <1>10 DEF Fits

\* What can be placed on the rest of the disks can be placed on all of them.
LEMMA GivenUpFits ==
  ASSUME NEW r \in Seq(Nat), NEW d \in Seq(Int), d # <<>>, Fits(r, Tail(d))
  PROVE  Fits(r, d)
<1>. DEFINE e == Tail(d)
<1>1. PICK rest \in [DOMAIN r -> DOMAIN e] :
         \A i \in DOMAIN r : Load(r, rest, rest[i]) <= e[rest[i]]
  BY DEF Fits
<1>2. \A k \in DOMAIN e : k + 1 \in DOMAIN d /\ e[k] = d[k + 1] /\ k \in Nat
  OBVIOUS
<1>. HIDE DEF e
<1>. DEFINE place == [i \in DOMAIN r |-> rest[i] + 1]
<1>3. place \in [DOMAIN r -> DOMAIN d]
  BY <1>1, <1>2
<1>4. ASSUME NEW i \in DOMAIN r PROVE Load(r, place, place[i]) <= d[place[i]]
  <2>1. {j \in DOMAIN r : place[j] = place[i]} = {j \in DOMAIN r : rest[j] = rest[i]}
    <3>1. \A j \in DOMAIN r : place[j] = rest[j] + 1 /\ rest[j] \in Nat
      BY <1>1, <1>2
    <3>2. \A j \in DOMAIN r : place[j] = place[i] <=> rest[j] = rest[i]
      <4>1. SUFFICES ASSUME NEW j \in DOMAIN r
                     PROVE  place[j] = place[i] <=> rest[j] = rest[i]
        OBVIOUS
      <4>2. /\ place[j] = rest[j] + 1 /\ rest[j] \in Nat
            /\ place[i] = rest[i] + 1 /\ rest[i] \in Nat
        BY <3>1
      <4>. HIDE DEF place
      <4>. QED
        BY <4>2
    <3>. QED
      BY <3>2, Zenon
  <2>2. d[place[i]] = e[rest[i]]
    BY <1>1, <1>2
  <2>. HIDE DEF place
  <2>3. Load(r, place, place[i]) = Load(r, rest, rest[i])
    BY <2>1 DEF Load
  <2>. QED
    BY <1>1, <2>2, <2>3
<1>. HIDE DEF place
<1>. QED
  BY <1>3, <1>4 DEF Fits

\* If the loop gets past all requests, they can be placed.
LEMMA MatchedFits ==
  ASSUME NEW left \in Left, matched[left] >= Len(left.requests)
  PROVE  Fits(left.requests, left.haveNow)
<1>. DEFINE Unplaced(l) == /\ matched[l] >= Len(l.requests)
                        /\ ~Fits(l.requests, l.haveNow)
            Bad == {l \in Left : Unplaced(l)}
<1>1. SUFFICES ASSUME Bad # {} PROVE FALSE
  OBVIOUS
<1>2. PICK l \in Bad : \A k \in Bad : Size(l) <= Size(k)
  <2>1. Bad \in SUBSET Left
    OBVIOUS
  <2>. HIDE DEF Bad
  <2>. QED
    BY <1>1, <2>1, LeastLeft
<1>3. l \in Left /\ Unplaced(l) /\ Size(l) \in Nat /\ Len(l.requests) \in Nat
  BY <1>2, LeftFacts
<1>4. \A k \in Left : Size(k) = Size(l) - 1 => ~Unplaced(k)
  <2>1. ~(Size(l) <= Size(l) - 1)
    BY <1>3
  <2>2. \A k \in Left : Unplaced(k) => k \in Bad
    OBVIOUS
  <2>. HIDE DEF Bad, Unplaced
  <2>. QED
    BY <1>2, <2>1, <2>2
<1>. DEFINE r == l.requests
            d == l.haveNow
<1>5. r \in Seq(Nat) /\ d \in Seq(Int) /\ l = [requests |-> r, haveNow |-> d]
  BY <1>3, LeftFacts
<1>6. CASE r = <<>>
  <2>1. DOMAIN r = {}
    BY <1>6
  <2>. DEFINE place == [i \in DOMAIN r |-> 1]
  <2>2. place \in [DOMAIN r -> DOMAIN d]
    BY <2>1
  <2>3. Fits(r, d)
    <3>. HIDE DEF r, d, place
    <3>. QED
      BY <2>1, <2>2 DEF Fits
  <2>. QED
    BY <1>3, <2>3
<1>7. CASE r # <<>> /\ d = <<>>
  <2>1. matched[l] = 0
    BY <1>3, <1>7, MatchedFacts DEF Turn
  <2>2. Len(r) # 0
    BY <1>5, <1>7
  <2>. QED
    BY <1>3, <2>1, <2>2
<1>8. CASE r # <<>> /\ d # <<>> /\ r[1] <= d[1]
  <2>1. matched[l] = 1 + matched[Taken(l)]
    BY <1>3, <1>8, MatchedFacts DEF Turn
  <2>2. /\ Taken(l) \in Left /\ Size(Taken(l)) = Size(l) - 1
        /\ Len(Taken(l).requests) = Len(l.requests) - 1
    BY <1>3, <1>8, TakenFacts
  <2>3. matched[Taken(l)] \in Nat
    BY <2>2, MatchedNat
  <2>4. matched[Taken(l)] >= Len(Taken(l).requests)
    BY <1>3, <2>1, <2>2, <2>3
  <2>5. Fits(Taken(l).requests, Taken(l).haveNow)
    BY <1>4, <2>2, <2>4
  <2>6. Fits(Tail(r), [d EXCEPT ![1] = @ - r[1]])
    BY <2>5 DEF Taken
  <2>7. Fits(r, d)
    <3>. HIDE DEF r, d
    <3>. QED
      BY <1>5, <1>8, <2>6, TakenFits
  <2>. QED
    BY <1>3, <2>7
<1>9. CASE r # <<>> /\ d # <<>> /\ ~(r[1] <= d[1])
  <2>1. matched[l] = matched[GivenUp(l)]
    BY <1>3, <1>9, MatchedFacts DEF Turn
  <2>2. /\ GivenUp(l) \in Left /\ Size(GivenUp(l)) = Size(l) - 1
        /\ GivenUp(l).requests = l.requests
    BY <1>3, <1>9, GivenUpFacts
  <2>3. Fits(GivenUp(l).requests, GivenUp(l).haveNow)
    BY <1>3, <1>4, <2>1, <2>2
  <2>4. Fits(r, Tail(d))
    BY <2>3 DEF GivenUp
  <2>5. Fits(r, d)
    <3>. HIDE DEF r, d
    <3>. QED
      BY <1>5, <1>9, <2>4, GivenUpFits
  <2>. QED
    BY <1>3, <2>5
<1>. QED
  BY <1>6, <1>7, <1>8, <1>9

\* Whether requests can be placed does not depend on their order.
Permuted(s, p) == [i \in DOMAIN s |-> s[p[i]]]

\* Requests that can be placed can be placed in another order ...
LEMMA PermutedFits ==
  ASSUME NEW D, IsFiniteSet(D), NEW s \in [D -> Nat],
         NEW p \in Bijection(D, D), NEW d, Fits(s, d)
  PROVE  Fits(Permuted(s, p), d)
<1>. DEFINE t == Permuted(s, p)
<1>1. /\ p \in [D -> D] /\ \A i, j \in D : p[i] = p[j] => i = j
      /\ \A y \in D : \E i \in D : p[i] = y
  BY DEF Bijection, Injection, Surjection, IsInjective
<1>2. t \in [D -> Nat] /\ \A i \in D : t[i] = s[p[i]]
  BY <1>1 DEF Permuted
<1>. HIDE DEF t
<1>3. PICK place \in [D -> DOMAIN d] :
         \A i \in D : Load(s, place, place[i]) <= d[place[i]]
  BY DEF Fits
<1>. DEFINE new == [i \in D |-> place[p[i]]]
<1>4. new \in [D -> DOMAIN d] /\ \A i \in D : new[i] = place[p[i]]
  BY <1>1
<1>. HIDE DEF new
<1>5. ASSUME NEW k PROVE Load(t, new, k) = Load(s, place, k)
  <2>. DEFINE T == {i \in D : new[i] = k}
              V == {i \in D : place[i] = k}
  <2>1. (\A x \in T : p[x] \in V) /\ \A y \in V : \E x \in T : p[x] = y
    BY <1>1, <1>4
  <2>2. T \in SUBSET D
    OBVIOUS
  <2>3. Load(t, new, k) = SumFunctionOnSet(t, T) /\ Load(s, place, k) = SumFunctionOnSet(s, V)
    BY <1>2 DEF Load
  <2>. HIDE DEF T, V
  <2>4. IsFiniteSet(D)
    OBVIOUS
  <2>5. SumFunctionOnSet(t, T) = SumFunctionOnSet(s, V)
    <3>1. /\ p \in [D -> D] /\ t \in [D -> Nat] /\ s \in [D -> Nat] /\ T \in SUBSET D
      BY <1>1, <1>2, <2>2
    <3>2. \A x, y \in D : p[x] = p[y] => x = y
      BY <1>1
    <3>3. \A x \in D : t[x] = s[p[x]]
      BY <1>2
    <3>4. \A x \in T : p[x] \in V
      BY <2>1
    <3>5. \A y \in V : \E x \in T : p[x] = y
      BY <2>1
    <3>. QED
      BY <2>4, <3>1, <3>2, <3>3, <3>4, <3>5, SumRenamed
  <2>. QED
    BY <2>3, <2>5
<1>6. \A i \in D : Load(t, new, new[i]) <= d[new[i]]
  BY <1>1, <1>3, <1>4, <1>5
<1>7. Fits(t, d)
  BY <1>2, <1>4, <1>6 DEF Fits
<1>. QED
  BY <1>7 DEF t

\* ... and back.
LEMMA PermutedBack ==
  ASSUME NEW D, IsFiniteSet(D), NEW s \in [D -> Nat],
         NEW p \in Bijection(D, D), NEW d, Fits(Permuted(s, p), d)
  PROVE  Fits(s, d)
<1>. DEFINE q == [j \in D |-> CHOOSE i \in D : p[i] = j]
            t == Permuted(s, p)
<1>1. /\ p \in [D -> D] /\ \A i, j \in D : p[i] = p[j] => i = j
      /\ \A y \in D : \E i \in D : p[i] = y
  BY DEF Bijection, Injection, Surjection, IsInjective
<1>2. q \in [D -> D] /\ \A j \in D : p[q[j]] = j
  BY <1>1
<1>3. t \in [D -> Nat] /\ \A i \in D : t[i] = s[p[i]]
  BY <1>1 DEF Permuted
<1>. HIDE DEF q, t
<1>4. q \in Bijection(D, D)
  <2>1. \A i, j \in D : q[i] = q[j] => i = j
    BY <1>2
  <2>2. ASSUME NEW y \in D PROVE \E i \in D : q[i] = y
    <3>1. p[y] \in D /\ p[q[p[y]]] = p[y] /\ q[p[y]] \in D
      BY <1>1, <1>2
    <3>. QED
      BY <1>1, <3>1
  <2>. QED
    BY <1>2, <2>1, <2>2 DEF Bijection, Injection, Surjection, IsInjective
<1>5. Permuted(t, q) = s
  BY <1>2, <1>3 DEF Permuted
<1>6. Fits(t, d)
  BY DEF t
<1>. QED
  BY <1>3, <1>4, <1>5, <1>6, PermutedFits

\* What sort.Slice leaves: the same requests, in descending order.
LEMMA DescendingFacts ==
  ASSUME NEW s \in Seq(Nat)
  PROVE  \E p \in Bijection(DOMAIN s, DOMAIN s) :
           /\ Descending(s) = Permuted(s, p)
           /\ Descending(s) \in Seq(Nat) /\ Len(Descending(s)) = Len(s)
           /\ DOMAIN Descending(s) = DOMAIN s
           /\ \A i, j \in DOMAIN s : i < j => Descending(s)[i] >= Descending(s)[j]
<1>. DEFINE n == Len(s)
            R == {x \in Nat \X Nat : x[1] >= x[2]}
            All == {Permuted(s, p) : p \in Bijection(DOMAIN s, DOMAIN s)}
            Desc(t) == \A i, j \in DOMAIN t : i < j => t[i] >= t[j]
<1>1. n \in Nat /\ DOMAIN s = 1 .. n /\ s \in [1 .. n -> Nat]
  OBVIOUS
<1>2. TotalOrder(R, Nat)
  BY DEF TotalOrder
<1>3. PICK p \in Bijection(1 .. n, 1 .. n) :
         \A i, j \in 1 .. n : i < j => <<s[p[i]], s[p[j]]>> \in R
  <2>. HIDE DEF R, n
  <2>. QED
    BY <1>1, <1>2, SortExists
<1>4. \A q \in Bijection(1 .. n, 1 .. n) : q \in [1 .. n -> 1 .. n]
  BY DEF Bijection, Injection
<1>5. \A q \in Bijection(1 .. n, 1 .. n) :
         /\ Permuted(s, q) \in [1 .. n -> Nat]
         /\ \A i \in 1 .. n : Permuted(s, q)[i] = s[q[i]]
  <2>. HIDE DEF n
  <2>. QED
    BY <1>1, <1>4 DEF Permuted
<1>6. Desc(Permuted(s, p)) /\ Permuted(s, p) \in All
  <2>1. \A i, j \in 1 .. n : i < j => s[p[i]] >= s[p[j]]
    BY <1>3
  <2>. HIDE DEF n
  <2>2. DOMAIN Permuted(s, p) = 1 .. n
    BY <1>5
  <2>3. \A i \in 1 .. n : Permuted(s, p)[i] = s[p[i]]
    BY <1>5
  <2>4. Permuted(s, p) \in All
    BY <1>1, Zenon
  <2>. HIDE DEF All
  <2>. QED
    BY <2>1, <2>2, <2>3, <2>4, Zenon
<1>7. Descending(s) = CHOOSE t \in All : Desc(t)
  BY DEF Descending, Permuted
<1>8. Descending(s) \in All /\ Desc(Descending(s))
  <2>. HIDE DEF All, Desc
  <2>. QED
    BY <1>6, <1>7
<1>9. PICK q \in Bijection(1 .. n, 1 .. n) : Descending(s) = Permuted(s, q)
  BY <1>1, <1>8
<1>. HIDE DEF n
<1>10. Descending(s) \in [1 .. n -> Nat]
  BY <1>5, <1>9
<1>11. Descending(s) \in Seq(Nat) /\ Len(Descending(s)) = n /\ DOMAIN Descending(s) = 1 .. n
  BY <1>1, <1>10
<1>12. \A i, j \in DOMAIN s : i < j => Descending(s)[i] >= Descending(s)[j]
  BY <1>1, <1>8, <1>11
<1>13. Len(Descending(s)) = Len(s)
  BY <1>11 DEF n
<1>. QED
  BY <1>1, <1>9, <1>11, <1>12, <1>13

\* What is on a disk is at least any one, or two, of the requests placed there.
LEMMA LoadBounds ==
  ASSUME NEW D, IsFiniteSet(D), NEW r \in [D -> Nat], NEW place, NEW i \in D
  PROVE  /\ Load(r, place, place[i]) \in Nat
         /\ r[i] <= Load(r, place, place[i])
         /\ \A j \in D \ {i} : place[j] = place[i] =>
              r[i] + r[j] <= Load(r, place, place[i])
<1>. DEFINE A == {j \in D : place[j] = place[i]}
<1>1. Load(r, place, place[i]) = SumFunctionOnSet(r, A) /\ A \in SUBSET D /\ i \in A
  BY DEF Load
<1>2. \A T \in SUBSET D : SumFunctionOnSet(r, T) \in Nat
  BY SumNat
<1>3. \A j \in D \ {i} : place[j] = place[i] => j \in A \ {i}
  OBVIOUS
<1>. HIDE DEF A
<1>4. SumFunctionOnSet(r, A) = r[i] + SumFunctionOnSet(r, A \ {i})
  BY <1>1, SumRemove
<1>5. A \ {i} \in SUBSET D /\ SumFunctionOnSet(r, A \ {i}) \in Nat
  BY <1>1, <1>2
<1>6. ASSUME NEW j \in D \ {i}, place[j] = place[i]
      PROVE  r[i] + r[j] <= Load(r, place, place[i])
  <2>1. j \in A \ {i}
    BY <1>3, <1>6
  <2>2. SumFunctionOnSet(r, A \ {i}) = r[j] + SumFunctionOnSet(r, (A \ {i}) \ {j})
    BY <1>5, <2>1, SumRemove
  <2>3. SumFunctionOnSet(r, (A \ {i}) \ {j}) \in Nat
    BY <1>2, <1>5
  <2>4. r[i] \in Nat /\ r[j] \in Nat
    OBVIOUS
  <2>. QED
    BY <1>1, <1>4, <2>2, <2>3, <2>4
<1>7. r[i] \in Nat
  OBVIOUS
<1>8. Load(r, place, place[i]) \in Nat /\ r[i] <= Load(r, place, place[i])
  BY <1>1, <1>4, <1>5, <1>7
<1>. QED
  BY <1>6, <1>8, Zenon

\* What a sequence of two or more keeps without its first element.
LEMMA TailFacts ==
  ASSUME NEW S, NEW s \in Seq(S), Len(s) >= 2
  PROVE  s # <<>> /\ Tail(s) # <<>> /\ Tail(s)[1] = s[2]
<1>1. Len(Tail(s)) = Len(s) - 1 /\ Len(s) \in Nat /\ Tail(s) \in Seq(S)
  OBVIOUS
<1>2. s # <<>> /\ Tail(s) # <<>>
  <2>1. Len(s) # 0 /\ Len(Tail(s)) # 0
    BY <1>1
  <2>. QED
    BY <2>1, EmptySeq, Zenon
<1>3. Tail(s)[1] = s[2]
  BY <1>1
<1>. QED
  BY <1>2, <1>3

\* A last request that fits on the next disk is matched.
LEMMA LastMatched ==
  ASSUME NEW left \in Left, Len(left.requests) = 1, left.haveNow # <<>>,
         left.requests[1] <= left.haveNow[1]
  PROVE  matched[left] = 1
<1>1. left.requests # <<>>
  BY LeftFacts
<1>2. Taken(left) \in Left /\ Len(Taken(left).requests) = 0
  <2>1. Taken(left) \in Left /\ Len(Taken(left).requests) = Len(left.requests) - 1
    BY <1>1, TakenFacts
  <2>. QED
    BY <2>1
<1>3. Taken(left).requests = <<>>
  BY <1>2, LeftFacts
<1>4. matched[Taken(left)] = 0
  BY <1>2, <1>3, MatchedFacts DEF Turn
<1>. QED
  BY <1>1, <1>4, MatchedFacts DEF Turn

\* Up to two requests that can be placed are matched, if both the requests and
\* the disks are in descending order.
LEMMA FitsMatched ==
  ASSUME NEW r \in Seq(Nat), NEW d \in Seq(Int), Len(r) <= 2,
         \A i, j \in DOMAIN r : i < j => r[i] >= r[j],
         \A i, j \in DOMAIN d : i < j => d[i] >= d[j],
         Fits(r, d)
  PROVE  matched[[requests |-> r, haveNow |-> d]] >= Len(r)
<1>. DEFINE left == [requests |-> r, haveNow |-> d]
            n == Len(r)
<1>1. /\ n \in 0 .. 2 /\ DOMAIN r = 1 .. n
      /\ \A i \in 1 .. n : r[i] \in Nat
      /\ \A k \in DOMAIN d : d[k] \in Int
  <2>1. n \in Nat /\ DOMAIN r = 1 .. n
    OBVIOUS
  <2>2. \A i \in 1 .. n : r[i] \in Nat
    OBVIOUS
  <2>3. \A k \in DOMAIN d : d[k] \in Int
    OBVIOUS
  <2>4. n \in 0 .. 2
    BY <2>1
  <2>. QED
    BY <2>1, <2>2, <2>3, <2>4
<1>2. left \in Left
  BY DEF Left
<1>3. PICK place \in [DOMAIN r -> DOMAIN d] :
         \A i \in DOMAIN r : Load(r, place, place[i]) <= d[place[i]]
  BY DEF Fits
<1>4. IsFiniteSet(DOMAIN r) /\ r \in [DOMAIN r -> Nat]
  <2>1. IsFiniteSet(1 .. n)
    BY <1>1, FS_Interval
  <2>2. r \in [1 .. n -> Nat]
    OBVIOUS
  <2>. QED
    BY <1>1, <2>1, <2>2, Zenon
<1>5. \A i \in DOMAIN r :
         /\ Load(r, place, place[i]) \in Nat
         /\ r[i] <= Load(r, place, place[i])
         /\ \A j \in DOMAIN r \ {i} : place[j] = place[i] =>
              r[i] + r[j] <= Load(r, place, place[i])
  <2>. DEFINE D == DOMAIN r
  <2>1. IsFiniteSet(D) /\ r \in [D -> Nat]
    BY <1>4
  <2>. HIDE DEF D
  <2>2. \A i \in D :
           /\ Load(r, place, place[i]) \in Nat
           /\ r[i] <= Load(r, place, place[i])
           /\ \A j \in D \ {i} : place[j] = place[i] =>
                r[i] + r[j] <= Load(r, place, place[i])
    BY <2>1, LoadBounds, Zenon
  <2>. QED
    BY <2>2 DEF D
<1>6. \A i \in 1 .. n :
         /\ place[i] \in DOMAIN d /\ r[i] <= d[place[i]]
         /\ \A j \in 1 .. n : j # i /\ place[j] = place[i] =>
              r[i] + r[j] <= d[place[i]]
  <2>1. SUFFICES ASSUME NEW i \in 1 .. n
                 PROVE  /\ place[i] \in DOMAIN d /\ r[i] <= d[place[i]]
                        /\ \A j \in 1 .. n : j # i /\ place[j] = place[i] =>
                             r[i] + r[j] <= d[place[i]]
    OBVIOUS
  <2>. DEFINE load == Load(r, place, place[i])
              have == d[place[i]]
  <2>2. i \in DOMAIN r /\ DOMAIN r = 1 .. n
    BY <1>1
  <2>3. /\ place[i] \in DOMAIN d /\ load <= have
        /\ load \in Nat /\ r[i] <= load
        /\ \A j \in 1 .. n : j # i /\ place[j] = place[i] => r[i] + r[j] <= load
    BY <1>3, <1>5, <2>2, Zenon
  <2>4. r[i] \in Nat /\ have \in Int /\ \A j \in 1 .. n : r[i] + r[j] \in Nat
    BY <1>1, <2>3
  <2>5. \A x \in Nat : x <= load => x <= have
    <3>. HIDE DEF load, have
    <3>. QED
      BY <2>3, <2>4
  <2>. HIDE DEF load, have
  <2>6. r[i] <= have
    BY <2>3, <2>4, <2>5, Zenon
  <2>7. \A j \in 1 .. n : j # i /\ place[j] = place[i] => r[i] + r[j] <= have
    BY <2>3, <2>4, <2>5, Zenon
  <2>. QED
    BY <2>3, <2>6, <2>7, Zenon DEF have
<1>7. matched[left] \in Nat
  BY <1>2, MatchedNat
<1>8. CASE n = 0
  BY <1>7, <1>8
<1>9. CASE n = 1
  <2>1. d # <<>> /\ 1 \in DOMAIN d /\ d[1] >= d[place[1]]
    BY <1>1, <1>6, <1>9
  <2>2. r[1] <= d[1]
    BY <1>1, <1>6, <1>9, <2>1
  <2>3. matched[left] = 1
    BY <1>2, <1>9, <2>1, <2>2, LastMatched
  <2>. QED
    BY <1>9, <2>3
<1>10. CASE n = 2
  <2>1. d # <<>> /\ 1 \in DOMAIN d /\ d[1] >= d[place[1]] /\ d[1] >= d[place[2]]
    BY <1>1, <1>6, <1>10
  <2>2. /\ r[1] \in Nat /\ r[2] \in Nat /\ d[1] \in Int /\ r[2] <= r[1]
        /\ d[place[1]] \in Int /\ d[place[2]] \in Int
    BY <1>1, <1>6, <1>10, <2>1
  <2>3. r[1] <= d[1]
    BY <1>1, <1>6, <1>10, <2>1, <2>2
  <2>4. r # <<>> /\ left.requests = r /\ left.haveNow = d
    <3>1. r # <<>>
      BY <1>10, TailFacts
    <3>. QED
      BY <3>1
  <2>5. matched[left] = 1 + matched[Taken(left)]
    BY <1>2, <2>1, <2>3, <2>4, MatchedFacts DEF Turn
  <2>. DEFINE next == Taken(left)
  <2>6. /\ next \in Left /\ Len(next.requests) = 1
        /\ next.requests = Tail(r) /\ next.haveNow = [d EXCEPT ![1] = @ - r[1]]
    <3>1. next.requests = Tail(r) /\ next.haveNow = [d EXCEPT ![1] = @ - r[1]]
      BY DEF Taken
    <3>2. next \in Left /\ Len(next.requests) = Len(left.requests) - 1
      BY <1>2, <2>1, <2>4, TakenFacts
    <3>3. Len(left.requests) = 2
      BY <1>10, <2>4
    <3>4. Len(next.requests) = 2 - 1
      BY <3>2, <3>3, Zenon
    <3>5. Len(next.requests) = 1
      BY <3>4
    <3>. QED
      BY <3>1, <3>2, <3>5
  <2>7. /\ next.requests[1] = r[2] /\ next.haveNow # <<>> /\ next.requests # <<>>
        /\ next.haveNow[1] = d[1] - r[1]
        /\ Tail(next.haveNow) = Tail(d)
    <3>1. Tail(r) # <<>> /\ Tail(r)[1] = r[2]
      BY <1>10, TailFacts
    <3>2. \A x \in Int : LET e == [d EXCEPT ![1] = x]
                        IN  e # <<>> /\ e[1] = x /\ Tail(e) = Tail(d)
      <4>1. ASSUME NEW x \in Int, NEW e \in Seq(Int), e = [d EXCEPT ![1] = x]
            PROVE  e # <<>> /\ e[1] = x /\ Tail(e) = Tail(d)
        <5>1. DOMAIN e = DOMAIN d /\ Len(e) = Len(d) /\ e[1] = x
          BY <2>1, <4>1
        <5>2. e # <<>>
          BY <2>1, <5>1
        <5>3. /\ Tail(e) \in Seq(Int) /\ Tail(d) \in Seq(Int)
              /\ Len(Tail(e)) = Len(Tail(d))
          BY <2>1, <5>1, <5>2
        <5>4. \A k \in 1 .. Len(Tail(d)) : Tail(e)[k] = Tail(d)[k]
          BY <2>1, <4>1, <5>1, <5>2
        <5>5. Tail(e) = Tail(d)
          BY <5>3, <5>4, SeqEqual
        <5>. QED
          BY <5>1, <5>2, <5>5
      <4>2. \A x \in Int : [d EXCEPT ![1] = x] \in Seq(Int)
        BY <2>1
      <4>. QED
        BY <4>1, <4>2
    <3>3. d[1] - r[1] \in Int
      BY <2>2
    <3>. QED
      BY <2>6, <3>1, <3>2, <3>3
  <2>. HIDE DEF next
  <2>8. CASE r[2] <= d[1] - r[1]
    <3>1. matched[next] = 1
      BY <2>6, <2>7, <2>8, LastMatched
    <3>. QED
      BY <1>10, <2>5, <3>1 DEF next
  <2>9. CASE ~(r[2] <= d[1] - r[1])
    <3>1. place[1] # place[2]
      BY <1>1, <1>6, <1>10, <2>1, <2>2, <2>9
    <3>2. 2 \in DOMAIN d /\ r[2] <= d[2]
      <4>1. CASE place[2] # 1
        <5>1. 2 \in DOMAIN d /\ d[2] >= d[place[2]]
          BY <1>1, <1>6, <1>10, <4>1
        <5>. QED
          BY <1>1, <1>6, <1>10, <2>2, <5>1
      <4>2. CASE place[2] = 1
        <5>1. 2 \in DOMAIN d /\ d[2] >= d[place[1]]
          BY <1>1, <1>6, <1>10, <3>1, <4>2
        <5>. QED
          BY <1>1, <1>6, <1>10, <2>2, <5>1
      <4>. QED
        BY <4>1, <4>2
    <3>3. matched[next] = matched[GivenUp(next)]
      BY <2>6, <2>7, <2>9, MatchedFacts DEF Turn
    <3>4. /\ GivenUp(next) \in Left /\ GivenUp(next).requests = next.requests
          /\ GivenUp(next).haveNow = Tail(d)
      BY <2>6, <2>7, GivenUpFacts DEF GivenUp
    <3>5. Tail(d) # <<>> /\ Tail(d)[1] = d[2]
      <4>1. Len(d) >= 2
        BY <3>2
      <4>. QED
        BY <4>1, TailFacts
    <3>6. matched[GivenUp(next)] = 1
      BY <2>6, <2>7, <3>2, <3>4, <3>5, LastMatched
    <3>. QED
      BY <1>10, <2>5, <3>3, <3>6 DEF next
  <2>. QED
    BY <2>8, <2>9
<1>. QED
  BY <1>1, <1>8, <1>9, <1>10

\* canNodeMatch accepts only what can be placed, and up to two requests that can
\* be placed on disks in descending order.
LEMMA MatchFacts ==
  ASSUME NEW requests \in Seq(Nat), NEW disks \in Seq(Int)
  PROVE  /\ canNodeMatch(requests, disks) => Fits(requests, disks)
         /\ /\ Len(requests) <= 2
            /\ \A i, j \in DOMAIN disks : i < j => disks[i] >= disks[j]
            => (Fits(requests, disks) => canNodeMatch(requests, disks))
<1>. DEFINE s == Descending(requests)
            D == DOMAIN requests
            left == [requests |-> s, haveNow |-> disks]
<1>1. PICK p \in Bijection(D, D) :
         /\ s = Permuted(requests, p)
         /\ s \in Seq(Nat) /\ Len(s) = Len(requests) /\ DOMAIN s = D
         /\ \A i, j \in D : i < j => s[i] >= s[j]
  BY DescendingFacts
<1>2. IsFiniteSet(D) /\ requests \in [D -> Nat]
  <2>1. D = 1 .. Len(requests) /\ Len(requests) \in Nat
    OBVIOUS
  <2>2. IsFiniteSet(D)
    <3>1. IsFiniteSet(1 .. Len(requests))
      BY <2>1, FS_Interval
    <3>. QED
      BY <2>1, <3>1, Zenon
  <2>3. requests \in [D -> Nat]
    OBVIOUS
  <2>. QED
    BY <2>2, <2>3
<1>. HIDE DEF s, D
<1>3. Fits(requests, disks) <=> Fits(s, disks)
  BY <1>1, <1>2, PermutedFits, PermutedBack
<1>4. canNodeMatch(requests, disks) <=> matched[left] >= Len(requests)
  BY DEF canNodeMatch, s
<1>5. left \in Left /\ left.requests = s /\ left.haveNow = disks
  BY <1>1 DEF Left
<1>6. matched[left] >= Len(requests) => Fits(s, disks)
  <2>. HIDE DEF left
  <2>. QED
    BY <1>1, <1>5, MatchedFits
<1>7. /\ Len(requests) <= 2
      /\ \A i, j \in DOMAIN disks : i < j => disks[i] >= disks[j]
      /\ Fits(s, disks)
      => matched[left] >= Len(requests)
  BY <1>1, FitsMatched
<1>. QED
  BY <1>3, <1>4, <1>6, <1>7, Zenon

-----------------------------------------------------------------------------
(* The theorems. *)

\* Every size NodeStatus keeps, lists and reports is a natural number, but for
\* the allocatable size of a disk: across restarts and whatever is changed
\* between a listing and its report.
THEOREM NodeTypeCorrect == Spec => []TypeOK
<1>. QED
  BY InitType, NextType, PTL DEF Spec

\* Whatever the node reports, and against any other nodes, its score follows the
\* free share it has reported (mapScoringNode, reduceScoringNode).
THEOREM ScoresFollowReports == Spec => []ScoresFollowFreeShare
<1>1. TypeOK => ScoresFollowFreeShare
  BY ScoresFollow DEF TypeOK
<1>. QED
  BY <1>1, NodeTypeCorrect, PTL

\* What can be placed on the enabled disks can be placed on the reported ones.
LEMMA UsableFits ==
  ASSUME NEW requests \in Seq(Nat), AllocatableSizes \in Seq(Int),
         Fits(requests, Usable)
  PROVE  Fits(requests, AllocatableSizes)
<1>. DEFINE D == DOMAIN requests
<1>1. DOMAIN Usable = DOMAIN AllocatableSizes
  BY DEF Usable, AllocatableSizes
<1>2. PICK place \in [D -> DOMAIN AllocatableSizes] :
         \A r \in D : Load(requests, place, place[r]) <= Usable[place[r]]
  BY <1>1 DEF Fits
<1>3. IsFiniteSet(D) /\ requests \in [D -> Nat]
  <2>1. D = 1 .. Len(requests) /\ Len(requests) \in Nat
    OBVIOUS
  <2>2. IsFiniteSet(1 .. Len(requests))
    BY <2>1, FS_Interval
  <2>3. IsFiniteSet(D)
    BY <2>1, <2>2, Zenon
  <2>4. requests \in [D -> Nat]
    OBVIOUS
  <2>. QED
    BY <2>3, <2>4
<1>4. ASSUME NEW r \in D
      PROVE  Load(requests, place, place[r]) <= AllocatableSizes[place[r]]
  <2>. DEFINE load == Load(requests, place, place[r])
              i == place[r]
  <2>1. load \in Nat
    BY <1>3, LoadBounds
  <2>2. i \in DOMAIN AllocatableSizes /\ load <= Usable[i]
    BY <1>2
  <2>. HIDE DEF load, i
  <2>3. Usable[i] = -1 \/ Usable[i] = AllocatableSizes[i]
    BY <2>2 DEF Usable, AllocatableSizes
  <2>4. Usable[i] # -1
    BY <2>1, <2>2
  <2>5. load <= AllocatableSizes[i]
    BY <2>2, <2>3, <2>4
  <2>. QED
    BY <2>5 DEF load, i
<1>. QED
  BY <1>2, <1>4 DEF Fits

\* Whatever the node reports, and for any pods: canNodeMatch refuses no pod with
\* up to two new volumes that can be placed on the reported disks that are
\* enabled, and accepts only what can be placed there if no disk is reported as
\* disabled (canNodeMatch, DiskInfoList).
THEOREM MatchFollowsReports == Spec => []MatchIsPlacement
<1>1. ReportSorted => MatchIsPlacement
  <2>. SUFFICES ASSUME ReportSorted, NEW requests \in RequestLists
                PROVE  /\ /\ canNodeMatch(requests, AllocatableSizes)
                          /\ NoneDisabled
                          => Fits(requests, Usable)
                       /\ /\ ~canNodeMatch(requests, AllocatableSizes)
                          /\ Len(requests) <= 2
                          => ~Fits(requests, Usable)
    BY DEF MatchIsPlacement
  <2>. DEFINE disks == AllocatableSizes
  <2>1. requests \in Seq(Nat)
    BY ExtenderAssumption
  <2>2. /\ disks \in Seq(Int)
        /\ \A i, j \in DOMAIN disks : i < j => disks[i] >= disks[j]
    BY DEF ReportSorted, LargestFirst
  <2>3. NoneDisabled => Usable = disks
    BY DEF NoneDisabled, Usable, AllocatableSizes
  <2>4. Fits(requests, Usable) => Fits(requests, disks)
    BY <2>1, <2>2, UsableFits
  <2>. HIDE DEF disks
  <2>5. /\ canNodeMatch(requests, disks) => Fits(requests, disks)
        /\ Len(requests) <= 2 =>
             (Fits(requests, disks) => canNodeMatch(requests, disks))
    BY <2>1, <2>2, MatchFacts
  <2>. QED
    BY <2>3, <2>4, <2>5 DEF disks
<1>2. Spec => []ReportSorted
  BY InitSorted, NextSorted, NodeTypeCorrect, PTL DEF Spec
<1>. QED
  BY <1>1, <1>2, PTL
=============================================================================
