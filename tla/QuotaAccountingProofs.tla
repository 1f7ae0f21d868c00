----------------------- MODULE QuotaAccountingProofs -----------------------
(***************************************************************************)
(* Theorems about the sizes QuotaManager keeps: a disk's QuotaSize is the  *)
(* sum of the quotas of its volumes, across crashes and restarts, and      *)
(* until the first restart that sum stays within the disk's capacity.      *)
(***************************************************************************)
EXTENDS QuotaManagerRestartProofs, QuotaHistory, SumTheorems

-----------------------------------------------------------------------------
(* The quotas of a disk, added up, as entries come and go in m.quotas. *)

\* Committed for an arbitrary m.quotas.
CommittedIn(q, d) ==
  SumFunctionOnSet([v \in DOMAIN q |-> q[v].hard],
                   {v \in DOMAIN q : q[v].disk = d})

\* QuotaSizeAccounts in terms of CommittedIn, before and after a step.
LEMMA AccountsUnfolded ==
  /\ QuotaSizeAccounts <=>
       \A d \in DOMAIN diskQuotaInfos :
         diskQuotaInfos[d].QuotaSize = CommittedIn(quotas, d)
  /\ QuotaSizeAccounts' <=>
       \A d \in DOMAIN diskQuotaInfos' :
         diskQuotaInfos'[d].QuotaSize = CommittedIn(quotas', d)
  BY DEF QuotaSizeAccounts, Committed, CommittedIn, HardQuota, VolumesOn

\* The quotas of finitely many volumes add up to a natural number.
LEMMA CommittedNat ==
  ASSUME NEW q, IsMap(q, Volume, PathQuotaInfo), IsFiniteSet(DOMAIN q), NEW d
  PROVE  CommittedIn(q, d) \in Nat
<1>. DEFINE h == [v \in DOMAIN q |-> q[v].hard]
<1>1. h \in [DOMAIN q -> Nat]
  BY SizesAssumption DEF IsMap, PathQuotaInfo, Uint64
<1>2. {v \in DOMAIN q : q[v].disk = d} \in SUBSET (DOMAIN q)
  OBVIOUS
<1>. HIDE DEF h
<1>3. SumFunctionOnSet(h, {v \in DOMAIN q : q[v].disk = d}) \in Nat
  BY <1>1, <1>2, SumNat
<1>. QED
  BY <1>3 DEF CommittedIn, h

\* No volume, no quota.
LEMMA CommittedEmpty ==
  ASSUME NEW d
  PROVE  CommittedIn(EmptyMap, d) = 0
<1>. DEFINE h == [v \in DOMAIN EmptyMap |-> EmptyMap[v].hard]
<1>1. h \in [{} -> Nat] /\ IsFiniteSet({})
  BY EmptyMapFacts, FS_EmptySet
<1>2. {v \in DOMAIN EmptyMap : EmptyMap[v].disk = d} = {}
  BY EmptyMapFacts
<1>. HIDE DEF h
<1>3. SumFunctionOnSet(h, {}) = 0
  BY <1>1, SumNat
<1>. QED
  BY <1>2, <1>3 DEF CommittedIn, h

\* An entry adds its quota to its disk and to no other.
LEMMA CommittedEntry ==
  ASSUME NEW q, IsMap(q, Volume, PathQuotaInfo), IsFiniteSet(DOMAIN q),
         NEW v \in DOMAIN q, NEW r, DOMAIN r = DOMAIN q \ {v},
         \A w \in DOMAIN r : r[w] = q[w], NEW d
  PROVE  CommittedIn(q, d) = CommittedIn(r, d)
                             + (IF q[v].disk = d THEN q[v].hard ELSE 0)
<1>. DEFINE hq == [w \in DOMAIN q |-> q[w].hard]
            hr == [w \in DOMAIN r |-> r[w].hard]
            Q == {w \in DOMAIN q : q[w].disk = d}
            R == {w \in DOMAIN r : r[w].disk = d}
<1>1. hq \in [DOMAIN q -> Nat] /\ hr \in [DOMAIN r -> Nat]
  BY SizesAssumption DEF IsMap, PathQuotaInfo, Uint64
<1>2. IsFiniteSet(DOMAIN r)
  BY FS_RemoveElement
<1>3. /\ R = Q \ {v} /\ Q \in SUBSET (DOMAIN q)
      /\ R \subseteq DOMAIN r /\ R \subseteq DOMAIN q
      /\ v \in Q <=> q[v].disk = d
      /\ hq[v] = q[v].hard
      /\ \A w \in R : hq[w] = hr[w]
  OBVIOUS
<1>. HIDE DEF hq, hr, Q, R
<1>4. SumFunctionOnSet(hq, R) = SumFunctionOnSet(hr, R)
  BY <1>1, <1>2, <1>3, SumCongruent
<1>5. SumFunctionOnSet(hq, R) \in Nat
  BY <1>1, <1>3, SumNat
<1>6. CASE v \in Q
  <2>1. SumFunctionOnSet(hq, Q) = hq[v] + SumFunctionOnSet(hq, R)
    BY <1>1, <1>3, <1>6, SumRemove
  <2>2. hq[v] \in Nat
    BY <1>1
  <2>3. SumFunctionOnSet(hq, Q) = SumFunctionOnSet(hr, R) + q[v].hard
    BY <1>3, <1>4, <1>5, <2>1, <2>2
  <2>. QED
    BY <1>3, <1>6, <2>3 DEF CommittedIn, hq, hr, Q, R
<1>7. CASE v \notin Q
  <2>1. Q = R
    BY <1>3, <1>7
  <2>2. SumFunctionOnSet(hq, Q) = SumFunctionOnSet(hr, R) + 0
    BY <1>4, <1>5, <2>1
  <2>. QED
    BY <1>3, <1>7, <2>2 DEF CommittedIn, hq, hr, Q, R
<1>. QED
  BY <1>6, <1>7

-----------------------------------------------------------------------------
(* What the operations do to the sizes. *)

\* WithQuotaSize sets the sizes of one disk.
LEMMA WithQuotaSizeValues ==
  ASSUME IsMap(diskQuotaInfos, Disk, DiskQuotaInfo),
         NEW d \in DOMAIN diskQuotaInfos, NEW q,
         diskQuotaInfos' = WithQuotaSize(d, q)
  PROVE  /\ DOMAIN diskQuotaInfos' = DOMAIN diskQuotaInfos
         /\ diskQuotaInfos'[d].QuotaSize = q
         /\ diskQuotaInfos'[d].AllocatableSize = Sub64(Capacity[d], q)
         /\ \A e \in DOMAIN diskQuotaInfos \ {d} :
               diskQuotaInfos'[e] = diskQuotaInfos[e]
  BY DEF WithQuotaSize, IsMap, DiskQuotaInfo

\* Adding the new and subtracting the old size is exact in uint64 when the
\* result is, even if the sum in between wraps around.
LEMMA AddThenSub ==
  ASSUME NEW a \in Uint64, NEW b \in Uint64, NEW c \in Uint64,
         c <= a + b, (a + b) - c < Word
  PROVE  Sub64(Add64(a, b), c) = (a + b) - c
  BY SizesAssumption DEF Uint64, Add64, Sub64

\* The end of an operation commits the new size in place of the old one.
LEMMA CompleteCommits ==
  ASSUME TypeOK, OpInv, op # Nil, Complete, IsFiniteSet(DOMAIN quotas)
  PROVE  /\ IsFiniteSet(DOMAIN quotas')
         /\ OldSize \in Nat /\ OldSize <= CommittedIn(quotas, op.disk)
         /\ CommittedIn(quotas, op.disk) \in Nat
         /\ CommittedIn(quotas', op.disk)
              = (CommittedIn(quotas, op.disk) + op.size) - OldSize
         /\ \A d : d # op.disk => CommittedIn(quotas', d) = CommittedIn(quotas, d)
<1>1. /\ op.disk \in Disk /\ op.vol \in Volume /\ op.size \in Nat
      /\ op.kind \in {"get", "expand"}
      /\ IsMap(quotas, Volume, PathQuotaInfo)
  BY SizesAssumption DEF TypeOK, Op, Uint64
<1>2. /\ IsMap(quotas', Volume, PathQuotaInfo)
      /\ DOMAIN quotas' = DOMAIN quotas \cup {op.vol}
      /\ quotas'[op.vol] = [disk |-> op.disk, hard |-> op.size]
      /\ \A w \in DOMAIN quotas \ {op.vol} : quotas'[w] = quotas[w]
  BY CompleteFacts
<1>3. IsFiniteSet(DOMAIN quotas')
  BY <1>2, FS_AddElement
<1>. DEFINE r == Drop(quotas, op.vol)
<1>4. /\ DOMAIN r = DOMAIN quotas \ {op.vol}
      /\ \A w \in DOMAIN r : r[w] = quotas[w]
      /\ DOMAIN r = DOMAIN quotas' \ {op.vol}
      /\ \A w \in DOMAIN r : r[w] = quotas'[w]
      /\ IsMap(r, Volume, PathQuotaInfo)
  BY <1>1, <1>2 DEF Drop, Restrict, IsMap
<1>. HIDE DEF r
<1>5. ASSUME NEW d
      PROVE  /\ CommittedIn(quotas', d)
                  = CommittedIn(r, d)
                    + (IF op.disk = d THEN op.size ELSE 0)
             /\ CommittedIn(r, d) \in Nat
  <2>1. IsFiniteSet(DOMAIN r)
    BY <1>4, FS_RemoveElement
  <2>2. op.vol \in DOMAIN quotas'
    BY <1>2
  <2>3. CommittedIn(quotas', d)
          = CommittedIn(r, d)
            + (IF quotas'[op.vol].disk = d THEN quotas'[op.vol].hard ELSE 0)
    BY <1>2, <1>3, <1>4, <2>2, CommittedEntry
  <2>4. CommittedIn(r, d) \in Nat
    BY <1>4, <2>1, CommittedNat
  <2>. QED
    BY <1>2, <2>3, <2>4
<1>6. ASSUME NEW d
      PROVE  CommittedIn(quotas, d)
               = CommittedIn(r, d) + (IF op.disk = d THEN OldSize ELSE 0)
  <2>1. CASE op.kind = "expand"
    <3>1. op.vol \in DOMAIN quotas /\ quotas[op.vol].disk = op.disk
      BY <2>1 DEF OpInv
    <3>2. OldSize = quotas[op.vol].hard
      BY <2>1 DEF OldSize
    <3>3. CommittedIn(quotas, d)
            = CommittedIn(r, d)
              + (IF quotas[op.vol].disk = d THEN quotas[op.vol].hard ELSE 0)
      BY <1>1, <1>4, <3>1, CommittedEntry
    <3>. QED
      BY <3>1, <3>2, <3>3
  <2>2. CASE op.kind = "get"
    <3>1. op.vol \notin DOMAIN quotas /\ OldSize = 0
      BY <2>2 DEF OpInv, OldSize
    <3>2. r = quotas
      BY <1>1, <3>1 DEF r, Drop, Restrict, IsMap
    <3>. QED
      BY <1>5, <3>1, <3>2
  <2>. QED
    BY <1>1, <2>1, <2>2
<1>7. OldSize \in Nat
  BY <1>1, SizesAssumption DEF OldSize, OpInv, IsMap, PathQuotaInfo, Uint64
<1>8. /\ OldSize <= CommittedIn(quotas, op.disk)
      /\ CommittedIn(quotas, op.disk) \in Nat
      /\ CommittedIn(quotas', op.disk)
           = (CommittedIn(quotas, op.disk) + op.size) - OldSize
  BY <1>1, <1>5, <1>6, <1>7
<1>9. \A d : d # op.disk => CommittedIn(quotas', d) = CommittedIn(quotas, d)
  BY <1>5, <1>6
<1>. QED
  BY <1>3, <1>7, <1>8, <1>9

\* The end of an operation leaves QuotaSize the sum of the quotas, unless the
\* quotas add up to more than a uint64.
LEMMA CompleteAccounts ==
  ASSUME TypeOK, OpInv, op # Nil, Complete, IsFiniteSet(DOMAIN quotas),
         QuotaSizeAccounts, CommittedIn(quotas', op.disk) < Word
  PROVE  /\ QuotaSizeAccounts'
         /\ diskQuotaInfos'[op.disk].AllocatableSize
              = Sub64(Capacity[op.disk], CommittedIn(quotas', op.disk))
         /\ \A e \in DOMAIN diskQuotaInfos \ {op.disk} :
               diskQuotaInfos'[e] = diskQuotaInfos[e]
<1>. DEFINE q == Sub64(Add64(diskQuotaInfos[op.disk].QuotaSize, op.size), OldSize)
<1>1. /\ op.disk \in DOMAIN diskQuotaInfos
      /\ IsMap(diskQuotaInfos, Disk, DiskQuotaInfo)
      /\ op.size \in Uint64
  BY DEF TypeOK, OpInv, Op
<1>2. diskQuotaInfos[op.disk].QuotaSize \in Uint64
  BY <1>1 DEF IsMap, DiskQuotaInfo
<1>3. diskQuotaInfos[op.disk].QuotaSize = CommittedIn(quotas, op.disk)
  BY <1>1, AccountsUnfolded
<1>4. OldSize \in Uint64
  BY SizesAssumption
    DEF OldSize, OpInv, TypeOK, IsMap, PathQuotaInfo, Uint64
<1>5. q = CommittedIn(quotas', op.disk)
  <2>. DEFINE a == diskQuotaInfos[op.disk].QuotaSize
  <2>1. (a + op.size) - OldSize = CommittedIn(quotas', op.disk)
    BY <1>3, CompleteCommits
  <2>2. OldSize <= a
    BY <1>3, CompleteCommits
  <2>3. OldSize <= a + op.size
    BY <1>1, <1>2, <1>4, <2>2, SizesAssumption DEF Uint64
  <2>. HIDE DEF a
  <2>4. a \in Uint64
    BY <1>2 DEF a
  <2>5. Sub64(Add64(a, op.size), OldSize) = (a + op.size) - OldSize
    BY <1>1, <1>4, <2>1, <2>3, <2>4, AddThenSub
  <2>. QED
    BY <2>1, <2>5 DEF a
<1>6. diskQuotaInfos' = WithQuotaSize(op.disk, q)
  BY DEF Complete
<1>. HIDE DEF q
<1>7. /\ DOMAIN diskQuotaInfos' = DOMAIN diskQuotaInfos
      /\ diskQuotaInfos'[op.disk].QuotaSize = q
      /\ diskQuotaInfos'[op.disk].AllocatableSize = Sub64(Capacity[op.disk], q)
      /\ \A e \in DOMAIN diskQuotaInfos \ {op.disk} :
            diskQuotaInfos'[e] = diskQuotaInfos[e]
  BY <1>1, <1>6, WithQuotaSizeValues
<1>8. \A e \in DOMAIN diskQuotaInfos \ {op.disk} :
        diskQuotaInfos'[e].QuotaSize = CommittedIn(quotas', e)
  BY <1>7, CompleteCommits, AccountsUnfolded
<1>. QED
  BY <1>5, <1>7, <1>8, AccountsUnfolded

\* A release gives the volume's quota back to its disk.
LEMMA ReleaseAccounts ==
  ASSUME TypeOK, IsFiniteSet(DOMAIN quotas), QuotaSizeAccounts,
         NEW v \in Volume, ReleaseVolumePath(v)
  PROVE  /\ IsFiniteSet(DOMAIN quotas')
         /\ QuotaSizeAccounts'
         /\ LET d == quotas[v].disk IN
              /\ d \in DOMAIN diskQuotaInfos
              /\ CommittedIn(quotas', d) <= CommittedIn(quotas, d)
              /\ CommittedIn(quotas', d) \in Nat
              /\ diskQuotaInfos'[d].AllocatableSize
                   = Sub64(Capacity[d], CommittedIn(quotas', d))
              /\ \A e \in DOMAIN diskQuotaInfos \ {d} :
                    diskQuotaInfos'[e] = diskQuotaInfos[e]
<1>. DEFINE d == quotas[v].disk
            hard == quotas[v].hard
            q == Sub64(diskQuotaInfos[d].QuotaSize, hard)
<1>1. /\ v \in DOMAIN quotas /\ d \in DOMAIN diskQuotaInfos
      /\ quotas' = Drop(quotas, v)
      /\ diskQuotaInfos' = WithQuotaSize(d, q)
  BY DEF ReleaseVolumePath
<1>2. /\ IsMap(quotas, Volume, PathQuotaInfo)
      /\ IsMap(diskQuotaInfos, Disk, DiskQuotaInfo)
  BY DEF TypeOK
<1>3. hard \in Uint64 /\ diskQuotaInfos[d].QuotaSize \in Uint64
  BY <1>1, <1>2 DEF IsMap, PathQuotaInfo, DiskQuotaInfo
<1>4. /\ DOMAIN quotas' = DOMAIN quotas \ {v}
      /\ \A w \in DOMAIN quotas' : quotas'[w] = quotas[w]
      /\ IsMap(quotas', Volume, PathQuotaInfo)
  BY <1>1, <1>2 DEF Drop, Restrict, IsMap
<1>5. IsFiniteSet(DOMAIN quotas')
  BY <1>4, FS_RemoveElement
<1>6. /\ \A e : CommittedIn(quotas', e) \in Nat
      /\ \A e : CommittedIn(quotas, e)
                  = CommittedIn(quotas', e) + (IF d = e THEN hard ELSE 0)
  BY <1>1, <1>2, <1>4, <1>5, CommittedEntry, CommittedNat
<1>. HIDE DEF d, hard
<1>7. /\ diskQuotaInfos[d].QuotaSize = CommittedIn(quotas', d) + hard
      /\ CommittedIn(quotas', d) \in Nat
      /\ CommittedIn(quotas, d) = CommittedIn(quotas', d) + hard
  BY <1>1, <1>6, AccountsUnfolded
<1>8. /\ q = CommittedIn(quotas', d)
      /\ CommittedIn(quotas', d) <= CommittedIn(quotas, d)
  BY <1>3, <1>7 DEF Sub64, Uint64
<1>. HIDE DEF q
<1>9. /\ DOMAIN diskQuotaInfos' = DOMAIN diskQuotaInfos
      /\ diskQuotaInfos'[d].QuotaSize = q
      /\ diskQuotaInfos'[d].AllocatableSize = Sub64(Capacity[d], q)
      /\ \A e \in DOMAIN diskQuotaInfos \ {d} :
            diskQuotaInfos'[e] = diskQuotaInfos[e]
  BY <1>1, <1>2, WithQuotaSizeValues
<1>10. ASSUME NEW e \in DOMAIN diskQuotaInfos, e # d
       PROVE  diskQuotaInfos'[e].QuotaSize = CommittedIn(quotas', e)
  <2>1. CommittedIn(quotas, e) = CommittedIn(quotas', e)
    BY <1>6, <1>10
  <2>. QED
    BY <1>9, <1>10, <2>1, AccountsUnfolded
<1>11. QuotaSizeAccounts'
  BY <1>8, <1>9, <1>10, AccountsUnfolded
<1>. QED
  BY <1>1, <1>5, <1>6, <1>8, <1>9, <1>11 DEF d

-----------------------------------------------------------------------------
(* FirstRun is inductive relative to Inv, until the process stops. *)

\* A disk whose quotas are within its capacity has the rest of it left.
LEMMA LeftOver ==
  ASSUME NEW d \in Disk, NEW q \in Nat, q <= Capacity[d]
  PROVE  Sub64(Capacity[d], q) = Capacity[d] - q
  BY DEF Sub64

\* The end of an operation, which was checked against what its disk had left.
LEMMA CompleteFirstRun ==
  ASSUME Inv, FirstRun, op # Nil, Complete, UNCHANGED <<mode>>
  PROVE  FirstRun'
<1>1. /\ TypeOK /\ ModeInv /\ OpInv /\ QuotasOnline /\ NothingToLoad /\ OpFits
      /\ IsFiniteSet(DOMAIN quotas) /\ QuotaSizeAccounts /\ WithinCapacity
  BY DEF Inv, FirstRun
<1>2. /\ op.disk \in DOMAIN diskQuotaInfos /\ op.disk \in Disk
      /\ op.size \in Nat /\ op.kind \in {"get", "expand"}
      /\ Capacity[op.disk] \in Nat /\ Capacity[op.disk] < Word
  BY <1>1, SizesAssumption DEF OpInv, TypeOK, Op, Uint64
<1>3. /\ IsFiniteSet(DOMAIN quotas')
      /\ OldSize \in Nat /\ OldSize <= CommittedIn(quotas, op.disk)
      /\ CommittedIn(quotas, op.disk) \in Nat
      /\ CommittedIn(quotas', op.disk)
           = (CommittedIn(quotas, op.disk) + op.size) - OldSize
  BY <1>1, CompleteCommits
<1>4. /\ CommittedIn(quotas, op.disk) <= Capacity[op.disk]
      /\ diskQuotaInfos[op.disk].AllocatableSize
           = Capacity[op.disk] - CommittedIn(quotas, op.disk)
  BY <1>1, <1>2, AccountsUnfolded DEF WithinCapacity
<1>5. op.size - OldSize <= diskQuotaInfos[op.disk].AllocatableSize
  BY <1>1, <1>2, <1>3 DEF OpFits, OldSize
<1>6. /\ CommittedIn(quotas', op.disk) \in Nat
      /\ CommittedIn(quotas', op.disk) <= Capacity[op.disk]
      /\ CommittedIn(quotas', op.disk) < Word
  BY <1>2, <1>3, <1>4, <1>5, SizesAssumption
<1>7. /\ QuotaSizeAccounts'
      /\ diskQuotaInfos'[op.disk].AllocatableSize
           = Sub64(Capacity[op.disk], CommittedIn(quotas', op.disk))
      /\ \A e \in DOMAIN diskQuotaInfos \ {op.disk} :
            diskQuotaInfos'[e] = diskQuotaInfos[e]
  BY <1>1, <1>6, CompleteAccounts
<1>8. DOMAIN diskQuotaInfos' = DOMAIN diskQuotaInfos
  BY <1>1, CompleteFacts
<1>9. WithinCapacity'
  <2>1. diskQuotaInfos'[op.disk].QuotaSize = CommittedIn(quotas', op.disk)
    BY <1>2, <1>7, <1>8, AccountsUnfolded
  <2>2. Sub64(Capacity[op.disk], CommittedIn(quotas', op.disk))
          = Capacity[op.disk] - CommittedIn(quotas', op.disk)
    BY <1>2, <1>6, LeftOver
  <2>. QED
    BY <1>1, <1>6, <1>7, <1>8, <2>1, <2>2 DEF WithinCapacity
<1>10. mode = "xfs" /\ op' = Nil
  BY <1>1 DEF ModeInv, Complete
<1>. QED
  BY <1>3, <1>7, <1>9, <1>10 DEF FirstRun, NothingToLoad, OpFits

\* A release leaves more of the disk, and never wraps around.
LEMMA ReleaseFirstRun ==
  ASSUME Inv, FirstRun, NEW v \in Volume, ReleaseVolumePath(v)
  PROVE  FirstRun'
<1>1. /\ TypeOK /\ ModeInv /\ IsFiniteSet(DOMAIN quotas) /\ QuotaSizeAccounts
      /\ WithinCapacity
  BY DEF Inv, FirstRun
<1>. DEFINE d == quotas[v].disk
<1>2. /\ IsFiniteSet(DOMAIN quotas')
      /\ QuotaSizeAccounts'
      /\ d \in DOMAIN diskQuotaInfos
      /\ CommittedIn(quotas', d) <= CommittedIn(quotas, d)
      /\ CommittedIn(quotas', d) \in Nat
      /\ diskQuotaInfos'[d].AllocatableSize
           = Sub64(Capacity[d], CommittedIn(quotas', d))
      /\ \A e \in DOMAIN diskQuotaInfos \ {d} :
            diskQuotaInfos'[e] = diskQuotaInfos[e]
  BY <1>1, ReleaseAccounts
<1>3. DOMAIN diskQuotaInfos' = DOMAIN diskQuotaInfos
  BY <1>1, <1>2, WithQuotaSizeValues DEF ReleaseVolumePath, TypeOK
<1>4. mode' = "xfs" /\ op' = Nil
  BY DEF ReleaseVolumePath, Serving
<1>. HIDE DEF d
<1>5. /\ CommittedIn(quotas, d) <= Capacity[d]
      /\ Capacity[d] \in Nat /\ d \in Disk
      /\ CommittedIn(quotas, d) \in Nat
  <2>1. diskQuotaInfos[d].QuotaSize = CommittedIn(quotas, d)
    BY <1>1, <1>2, AccountsUnfolded
  <2>. QED
    BY <1>1, <1>2, <2>1, SizesAssumption
      DEF WithinCapacity, TypeOK, IsMap, DiskQuotaInfo, Uint64
<1>6. CommittedIn(quotas', d) <= Capacity[d]
  BY <1>2, <1>5
<1>7. WithinCapacity'
  <2>1. diskQuotaInfos'[d].QuotaSize = CommittedIn(quotas', d)
    BY <1>2, <1>3, AccountsUnfolded
  <2>2. Sub64(Capacity[d], CommittedIn(quotas', d))
          = Capacity[d] - CommittedIn(quotas', d)
    BY <1>2, <1>5, <1>6, LeftOver
  <2>. QED
    BY <1>1, <1>2, <1>3, <1>6, <2>1, <2>2 DEF WithinCapacity
<1>. QED
  BY <1>2, <1>4, <1>7 DEF FirstRun, NothingToLoad, OpFits

\* The steps that leave every size and every volume as it is.
LEMMA QuietFirstRun ==
  ASSUME FirstRun, NothingToLoad', OpFits', UNCHANGED quotas,
         DOMAIN diskQuotaInfos' = DOMAIN diskQuotaInfos,
         \A d \in DOMAIN diskQuotaInfos :
           /\ diskQuotaInfos'[d].QuotaSize = diskQuotaInfos[d].QuotaSize
           /\ diskQuotaInfos'[d].AllocatableSize
                = diskQuotaInfos[d].AllocatableSize
  PROVE  FirstRun'
<1>1. IsFiniteSet(DOMAIN quotas)' /\ WithinCapacity'
  BY DEF FirstRun, WithinCapacity
<1>2. QuotaSizeAccounts'
  BY AccountsUnfolded DEF FirstRun
<1>. QED
  BY <1>1, <1>2 DEF FirstRun

\* The steps that leave the caches empty.
LEMMA EmptyFirstRun ==
  ASSUME TypeOK, NothingToLoad', op' = Nil, quotas' = EmptyMap,
         \A d \in DOMAIN diskQuotaInfos' :
           /\ d \in Disk
           /\ diskQuotaInfos'[d].QuotaSize = 0
           /\ diskQuotaInfos'[d].AllocatableSize = Capacity[d]
  PROVE  FirstRun'
<1>1. WithinCapacity'
  BY SizesAssumption DEF WithinCapacity, Uint64
<1>2. QuotaSizeAccounts'
  BY CommittedEmpty, AccountsUnfolded
<1>3. IsFiniteSet(DOMAIN quotas')
  BY EmptyMapFacts, FS_EmptySet
<1>. QED
  BY <1>1, <1>2, <1>3 DEF FirstRun, OpFits

\* An operation begins: the sizes were compared with what the disk has left.
LEMMA BeginFirstRun ==
  ASSUME Inv, FirstRun, NEW v \in Volume, NEW size \in Sizes,
         GetVolumeQuotaPath(v, size) \/ ExpandVolume(v, size)
  PROVE  FirstRun'
<1>1. /\ TypeOK /\ UNCHANGED <<mode, quotas, diskQuotaInfos>> /\ mode = "xfs"
  BY DEF Inv, GetVolumeQuotaPath, ExpandVolume, Serving
<1>2. OpFits'
  <2>1. CASE GetVolumeQuotaPath(v, size)
    <3>1. PICK d \in FirstDisks(AvailableDisks(size)) :
            op' = [kind |-> "get", disk |-> d, vol |-> v, size |-> size,
                   id |-> Nil]
      BY <2>1 DEF GetVolumeQuotaPath
    <3>2. size <= diskQuotaInfos[d].AllocatableSize
      BY DEF FirstDisks, AvailableDisks
    <3>. QED
      BY <1>1, <3>1, <3>2 DEF OpFits
  <2>2. CASE ExpandVolume(v, size)
    BY <1>1, <2>2 DEF ExpandVolume, OpFits
  <2>. QED
    BY <2>1, <2>2
<1>3. NothingToLoad'
  BY <1>1 DEF NothingToLoad
<1>. QED
  BY <1>1, <1>2, <1>3, QuietFirstRun

\* Every step but the one that stops the process keeps FirstRun.
LEMMA FirstRunStep ==
  ASSUME Inv, FirstRun, Next, mode # "down" => mode' # "down"
  PROVE  FirstRun'
<1>0. /\ TypeOK /\ ModeInv /\ OpInv /\ TodoInv
      /\ NothingToLoad /\ OpFits
  BY DEF Inv, FirstRun
<1>1. ASSUME NEW v \in Volume, NEW size \in Sizes,
             GetVolumeQuotaPath(v, size) \/ ExpandVolume(v, size)
      PROVE  FirstRun'
  BY <1>1, BeginFirstRun
<1>2. CASE SetProjectQuotaKnownPath \/ SetProjectLimit
  BY <1>2, CompleteFirstRun DEF SetProjectQuotaKnownPath, SetProjectLimit
<1>3. CASE SetProjectId
  <2>1. /\ op # Nil /\ mode = "xfs"
        /\ UNCHANGED <<mode, quotas, diskQuotaInfos>>
    BY <1>0, <1>3 DEF SetProjectId, AllocateNext, ModeInv
  <2>2. PICK i \in ProjId : op' = [op EXCEPT !.id = i]
    BY <1>3 DEF SetProjectId, AllocateNext
  <2>3. OpFits'
    BY <1>0, <2>1, <2>2 DEF OpFits, TypeOK, Op
  <2>. QED
    BY <2>1, <2>3, QuietFirstRun DEF NothingToLoad
<1>4. CASE SetProjectIdFails \/ SetProjectLimitFails
  <2>1. /\ op' = Nil /\ mode = "xfs"
        /\ UNCHANGED <<mode, quotas, diskQuotaInfos>>
    BY <1>0, <1>4
      DEF SetProjectIdFails, SetProjectLimitFails, Abort, ModeInv, ReleaseId
  <2>. QED
    BY <2>1, QuietFirstRun DEF NothingToLoad, OpFits
<1>5. ASSUME NEW v \in Volume, ReleaseVolumePath(v)
      PROVE  FirstRun'
  BY <1>5, ReleaseFirstRun
<1>6. ASSUME NEW v \in Volume, ReleaseVolumePathFails(v)
      PROVE  FirstRun'
  BY <1>6, QuietFirstRun
    DEF ReleaseVolumePathFails, Serving, NothingToLoad, OpFits
<1>7. CASE ListPathQuotaInfos
  BY <1>7, QuietFirstRun DEF ListPathQuotaInfos, Serving, NothingToLoad, OpFits
<1>8. ASSUME NEW d \in Disk, NEW b \in BOOLEAN,
             SetQuotaDiskDisabledState(d, b)
      PROVE  FirstRun'
  <2>1. /\ mode' = "xfs" /\ op' = Nil /\ UNCHANGED quotas
        /\ d \in DOMAIN diskQuotaInfos
        /\ diskQuotaInfos' = [diskQuotaInfos EXCEPT ![d].Disabled = b]
    BY <1>8 DEF SetQuotaDiskDisabledState, Serving
  <2>2. /\ DOMAIN diskQuotaInfos' = DOMAIN diskQuotaInfos
        /\ \A e \in DOMAIN diskQuotaInfos :
             /\ diskQuotaInfos'[e].QuotaSize = diskQuotaInfos[e].QuotaSize
             /\ diskQuotaInfos'[e].AllocatableSize
                  = diskQuotaInfos[e].AllocatableSize
    BY <1>0, <2>1 DEF TypeOK, IsMap, DiskQuotaInfo
  <2>. QED
    BY <2>1, <2>2, QuietFirstRun DEF NothingToLoad, OpFits
<1>9. CASE Crash
  BY <1>9 DEF Crash
<1>10. CASE Start
  <2>1. PICK mounted \in SUBSET Disk, s \in ReadDisableStates :
          diskQuotaInfos' = [d \in mounted |-> RestoredDiskInfo(d, s[d])]
    BY <1>10 DEF Start
  <2>2. /\ mode = "down" /\ UNCHANGED <<quotas, op, dirs>>
    BY <1>10 DEF Start, GetSubDirs
  <2>3. quotas' = EmptyMap /\ op' = Nil /\ NothingToLoad'
    BY <1>0, <2>2 DEF ModeInv, NothingToLoad
  <2>. QED
    BY <1>0, <2>1, <2>3, EmptyFirstRun DEF RestoredDiskInfo
<1>11. CASE StartFails
  BY <1>0, <1>11, QuietFirstRun
    DEF StartFails, memory, NothingToLoad, OpFits
<1>12. ASSUME NEW p \in todo, LoadPath(p)
       PROVE  FirstRun'
  <2>1. mode = "restoring" /\ dirs[p] \in ProjId /\ p \in DOMAIN dirs
    BY <1>0, <1>12 DEF LoadPath, CanLoad, TodoInv
  <2>. QED
    BY <1>0, <2>1, NilAssumption DEF NothingToLoad
<1>13. ASSUME NEW p \in todo, LoadPathFails(p)
       PROVE  FirstRun'
  BY <1>0, <1>13, EmptyMapFacts, EmptyFirstRun
    DEF LoadPathFails, Forget, NothingToLoad
<1>14. CASE FinishRestore
  BY <1>0, <1>14, QuietFirstRun DEF FinishRestore, ModeInv, NothingToLoad, OpFits
<1>15. ASSUME NEW d \in Disk, MakeForeignDir(d)
       PROVE  FirstRun'
  <2>1. /\ UNCHANGED <<mode, quotas, diskQuotaInfos, op>>
        /\ dirs' = Put(dirs, <<d, ForeignName>>, Nil)
    BY <1>15 DEF MakeForeignDir, memory
  <2>2. NothingToLoad' /\ OpFits'
    BY <1>0, <2>1 DEF NothingToLoad, OpFits, Put
  <2>. QED
    BY <2>1, <2>2, QuietFirstRun
<1>. QED
  BY <1>1, <1>2, <1>3, <1>4, <1>5, <1>6, <1>7, <1>8, <1>9, <1>10, <1>11,
     <1>12, <1>13, <1>14, <1>15 DEF Next

\* Whatever fails, and for every set of disks, volumes and sizes: until the
\* process is restarted, no disk is promised beyond its capacity and
\* AllocatableSize never wraps around.
THEOREM CapacityKeptUntilRestart == HistorySpec => []WithinCapacityUntilRestart
<1>1. HistorySpec => []Inv
  <2>1. HistoryInit => Init
    BY DEF HistoryInit
  <2>2. [HistoryNext]_historyVars => [Next]_vars
    BY DEF HistoryNext, historyVars, vars, memory
  <2>3. HistorySpec => Spec
    BY <2>1, <2>2, PTL DEF HistorySpec, Spec
  <2>. QED
    BY <2>3, Invariance, PTL
<1>2. HistoryInit => FirstRunInv
  <2>1. SUFFICES ASSUME HistoryInit PROVE FirstRun
    BY DEF FirstRunInv
  <2>2. Init
    BY <2>1 DEF HistoryInit
  <2>3. NothingToLoad /\ OpFits /\ WithinCapacity
    BY <2>2, EmptyMapFacts DEF Init, NothingToLoad, OpFits, WithinCapacity
  <2>4. IsFiniteSet(DOMAIN quotas)
    BY <2>2, EmptyMapFacts, FS_EmptySet DEF Init
  <2>5. QuotaSizeAccounts
    BY <2>2, EmptyMapFacts DEF Init, QuotaSizeAccounts
  <2>. QED
    BY <2>3, <2>4, <2>5 DEF FirstRun
<1>3. Inv /\ FirstRunInv /\ [HistoryNext]_historyVars => FirstRunInv'
  <2>1. SUFFICES ASSUME Inv, FirstRunInv, [HistoryNext]_historyVars
                 PROVE  FirstRunInv'
    OBVIOUS
  <2>2. CASE HistoryNext
    BY <2>1, <2>2, FirstRunStep DEF HistoryNext, FirstRunInv
  <2>3. CASE UNCHANGED historyVars
    <3>1. /\ UNCHANGED <<mode, quotas, diskQuotaInfos, op, dirs, restarted>>
      BY <2>3 DEF historyVars, vars, memory
    <3>2. FirstRun => NothingToLoad' /\ OpFits'
      BY <3>1 DEF FirstRun, NothingToLoad, OpFits
    <3>. QED
      BY <2>1, <3>1, <3>2, QuietFirstRun DEF FirstRunInv
  <2>. QED
    BY <2>1, <2>2, <2>3
<1>4. FirstRunInv => WithinCapacityUntilRestart
  BY DEF FirstRunInv, FirstRun, WithinCapacityUntilRestart
<1>. QED
  BY <1>1, <1>2, <1>3, <1>4, PTL DEF HistorySpec

-----------------------------------------------------------------------------
(* QuotaSizeAccounts across crashes and restarts.  After a restart the     *)
(* quotas of a disk may exceed its capacity, so their sum is bounded by    *)
(* the number of project ids instead: a volume in m.quotas has its own.    *)

\* As many volumes as there are project ids, each of the largest size asked
\* for, add up to a uint64.
SizesFit(m) ==
  /\ IsFiniteSet(ProjId)
  /\ m \in Nat
  /\ \A n \in Sizes : n <= m
  /\ m * Cardinality(ProjId) < Word

\* No size in memory, in the kernel or asked for exceeds m.
Bounded(m) ==
  /\ op # Nil => op.size <= m
  /\ \A v \in DOMAIN quotas : quotas[v].hard <= m
  /\ \A d \in Disk, i \in ProjId : limit[d][i] <= m

\* The volumes are no more than the project ids.
LEMMA VolumesFinite ==
  ASSUME Inv, UniqueInv, IsFiniteSet(ProjId)
  PROVE  /\ IsFiniteSet(DOMAIN quotas)
         /\ Cardinality(DOMAIN quotas) <= Cardinality(ProjId)
<1>1. /\ IsMap(quotaPathAndId, Path, ProjId) /\ IsInjective(quotaPathAndId)
      /\ \A v \in DOMAIN quotas : PathOf(v) \in DOMAIN quotaPathAndId
  BY DEF Inv, TypeOK, IdPoolExact, UniqueInv, AllTracked, Untracked
<1>. DEFINE f == [v \in DOMAIN quotas |-> quotaPathAndId[PathOf(v)]]
<1>2. f \in [DOMAIN quotas -> ProjId]
  BY <1>1 DEF IsMap
<1>3. ASSUME NEW v \in DOMAIN quotas, NEW w \in DOMAIN quotas, f[v] = f[w]
      PROVE  v = w
  <2>1. PathOf(v) = PathOf(w)
    BY <1>1, <1>3 DEF IsInjective
  <2>. QED
    BY <2>1 DEF PathOf
<1>4. f \in Injection(DOMAIN quotas, ProjId)
  BY <1>2, <1>3 DEF Injection, IsInjective
<1>. HIDE DEF f
<1>. QED
  BY <1>4, FS_Injection

\* The quotas of any disk add up to a uint64.
LEMMA CommittedFits ==
  ASSUME NEW m, SizesFit(m), Inv, UniqueInv, Bounded(m), NEW d
  PROVE  CommittedIn(quotas, d) < Word
<1>. DEFINE h == [v \in DOMAIN quotas |-> quotas[v].hard]
            S == {v \in DOMAIN quotas : quotas[v].disk = d}
            hS == [v \in S |-> quotas[v].hard]
<1>1. /\ IsFiniteSet(DOMAIN quotas)
      /\ Cardinality(DOMAIN quotas) <= Cardinality(ProjId)
  BY VolumesFinite DEF SizesFit
<1>2. /\ h \in [DOMAIN quotas -> Nat] /\ hS \in [S -> Nat]
      /\ \A v \in S : hS[v] = h[v] /\ hS[v] <= m
      /\ S \in SUBSET (DOMAIN quotas)
  BY SizesAssumption DEF Inv, TypeOK, IsMap, PathQuotaInfo, Uint64, Bounded
<1>. HIDE DEF h, hS, S
<1>3. /\ IsFiniteSet(S) /\ Cardinality(S) <= Cardinality(DOMAIN quotas)
      /\ Cardinality(S) \in Nat /\ Cardinality(DOMAIN quotas) \in Nat
      /\ Cardinality(ProjId) \in Nat
  BY <1>1, <1>2, FS_Subset, FS_CardinalityType DEF SizesFit
<1>4. SumFunctionOnSet(h, S) = SumFunctionOnSet(hS, S)
  BY <1>1, <1>2, <1>3, SumCongruent
<1>5. SumFunctionOnSet(hS, S) <= m * Cardinality(S)
  BY <1>2, <1>3, SumBound DEF SizesFit
<1>6. SumFunctionOnSet(hS, S) \in Nat
  BY <1>2, <1>3, SumNat
<1>7. Cardinality(S) <= Cardinality(ProjId)
  BY <1>1, <1>3
<1>8. m * Cardinality(S) <= m * Cardinality(ProjId)
  <2>1. \A a, b, c \in Nat : b <= c => a * b <= a * c
    OBVIOUS
  <2>. QED
    BY <1>3, <1>7, <2>1 DEF SizesFit
<1>9. m * Cardinality(S) \in Nat /\ m * Cardinality(ProjId) \in Nat
  BY <1>3 DEF SizesFit
<1>10. SumFunctionOnSet(h, S) < Word
  BY <1>4, <1>5, <1>6, <1>8, <1>9, SizesAssumption DEF SizesFit
<1>. QED
  BY <1>10 DEF CommittedIn, h, S

\* The same of the next state.
LEMMA CommittedFitsNext ==
  ASSUME NEW m, SizesFit(m)
  PROVE  (Inv /\ UniqueInv /\ Bounded(m) => \A d : CommittedIn(quotas, d) < Word)'
<1>1. Inv /\ UniqueInv /\ Bounded(m) => \A d : CommittedIn(quotas, d) < Word
  BY CommittedFits
<1>. QED
  BY <1>1, PTL

\* The steps that leave the volumes, the limits and the disks' sizes alone.
LEMMA QuietAccounts ==
  ASSUME NEW m, Bounded(m), QuotaSizeAccounts, op' # Nil => op'.size <= m,
         UNCHANGED <<quotas, limit>>,
         DOMAIN diskQuotaInfos' = DOMAIN diskQuotaInfos,
         \A d \in DOMAIN diskQuotaInfos :
           diskQuotaInfos'[d].QuotaSize = diskQuotaInfos[d].QuotaSize
  PROVE  Bounded(m)' /\ QuotaSizeAccounts'
<1>1. Bounded(m)'
  BY DEF Bounded
<1>2. QuotaSizeAccounts'
  BY AccountsUnfolded
<1>. QED
  BY <1>1, <1>2

\* The steps that leave the caches empty.
LEMMA EmptyAccounts ==
  ASSUME NEW m, Bounded(m), op' = Nil, quotas' = EmptyMap, UNCHANGED limit,
         \A d \in DOMAIN diskQuotaInfos' : diskQuotaInfos'[d].QuotaSize = 0
  PROVE  Bounded(m)' /\ QuotaSizeAccounts'
<1>1. Bounded(m)'
  BY EmptyMapFacts DEF Bounded
<1>2. QuotaSizeAccounts'
  BY CommittedEmpty, AccountsUnfolded
<1>. QED
  BY <1>1, <1>2

\* The end of an operation that has set no limit above m.
LEMMA CompleteBounded ==
  ASSUME NEW m, SizesFit(m), Inv, Inv', UniqueInv, UniqueInv', Bounded(m),
         QuotaSizeAccounts, op # Nil, Complete,
         (\A d \in Disk, i \in ProjId : limit[d][i] <= m)'
  PROVE  Bounded(m)' /\ QuotaSizeAccounts'
<1>1. TypeOK /\ OpInv /\ IsFiniteSet(DOMAIN quotas)
  BY VolumesFinite DEF Inv, SizesFit
<1>2. /\ op' = Nil
      /\ DOMAIN quotas' = DOMAIN quotas \cup {op.vol}
      /\ quotas'[op.vol] = [disk |-> op.disk, hard |-> op.size]
      /\ \A w \in DOMAIN quotas \ {op.vol} : quotas'[w] = quotas[w]
  BY <1>1, CompleteFacts
<1>3. Bounded(m)'
  BY <1>2 DEF Bounded
<1>4. CommittedIn(quotas', op.disk) < Word
  BY <1>3, CommittedFitsNext
<1>. QED
  BY <1>1, <1>3, <1>4, CompleteAccounts

\* A loaded path is a volume's that was not loaded yet, so its limit is
\* counted once, on the disk that has the directory.
LEMMA LoadPathAccounts ==
  ASSUME NEW m, SizesFit(m), Inv, Inv', UniqueInv, UniqueInv', Bounded(m),
         QuotaSizeAccounts, NEW p \in todo, LoadPath(p)
  PROVE  Bounded(m)' /\ QuotaSizeAccounts'
<1>1. /\ TypeOK /\ ModeInv /\ TodoInv /\ ForeignUnowned /\ QuotasHaveDirs
      /\ OneDirPerVolume /\ AllTracked /\ IsFiniteSet(DOMAIN quotas)
  BY VolumesFinite DEF Inv, UniqueInv, SizesFit
<1>. DEFINE d == p[1]
            v == p[2]
            hard == limit[d][dirs[p]]
<1>2. /\ dirs[p] \in ProjId /\ op = Nil
      /\ diskQuotaInfos' =
            [diskQuotaInfos EXCEPT ![d].QuotaSize = Add64(@, hard)]
      /\ quotas' = Put(quotas, v, [disk |-> d, hard |-> hard])
      /\ UNCHANGED <<op, limit>>
  BY <1>1 DEF LoadPath, CanLoad, ModeInv
<1>3. /\ p \in DOMAIN dirs /\ p \notin DOMAIN quotaPathAndId
      /\ d \in DOMAIN diskQuotaInfos /\ p = <<d, v>> /\ d \in Disk
      /\ v \in Volume \cup {ForeignName}
  BY <1>1 DEF TodoInv, TypeOK, Path
<1>4. v # ForeignName /\ v \in Volume
  BY <1>1, <1>2, <1>3, NilAssumption DEF ForeignUnowned
<1>5. v \notin DOMAIN quotas
  <2>1. SUFFICES ASSUME v \in DOMAIN quotas PROVE FALSE
    OBVIOUS
  <2>2. PathOf(v) \in VolumeDirs /\ p \in VolumeDirs
    BY <1>1, <1>3, <1>4, <2>1 DEF QuotasHaveDirs, VolumeDirs, PathOf
  <2>3. PathOf(v) = p
    BY <1>1, <2>2 DEF OneDirPerVolume, PathOf
  <2>. QED
    BY <1>1, <1>3, <2>1, <2>3 DEF AllTracked, Untracked
<1>6. hard \in Uint64 /\ hard <= m
  BY <1>1, <1>2, <1>3 DEF TypeOK, Bounded
<1>. HIDE DEF hard, d, v
<1>7. /\ DOMAIN quotas' = DOMAIN quotas \cup {v}
      /\ quotas'[v] = [disk |-> d, hard |-> hard]
      /\ \A w \in DOMAIN quotas : quotas'[w] = quotas[w]
  BY <1>2, <1>5 DEF Put
<1>8. Bounded(m)'
  BY <1>2, <1>6, <1>7 DEF Bounded
<1>9. \A e : CommittedIn(quotas', e) < Word
  BY <1>8, CommittedFitsNext
<1>10. /\ \A e : CommittedIn(quotas, e) \in Nat
       /\ \A e : CommittedIn(quotas', e)
                   = CommittedIn(quotas, e) + (IF d = e THEN hard ELSE 0)
  <2>1. IsMap(quotas, Volume, PathQuotaInfo) /\ IsMap(quotas', Volume, PathQuotaInfo)
    BY DEF Inv, TypeOK
  <2>2. /\ IsFiniteSet(DOMAIN quotas') /\ v \in DOMAIN quotas'
        /\ DOMAIN quotas = DOMAIN quotas' \ {v}
        /\ \A w \in DOMAIN quotas : quotas[w] = quotas'[w]
    BY <1>1, <1>5, <1>7, FS_AddElement
  <2>3. ASSUME NEW e
        PROVE  CommittedIn(quotas', e)
                 = CommittedIn(quotas, e)
                   + (IF quotas'[v].disk = e THEN quotas'[v].hard ELSE 0)
    BY <2>1, <2>2, CommittedEntry
  <2>4. \A e : CommittedIn(quotas, e) \in Nat
    BY <1>1, <2>1, CommittedNat
  <2>. QED
    BY <1>7, <2>3, <2>4
<1>11. /\ DOMAIN diskQuotaInfos' = DOMAIN diskQuotaInfos
       /\ diskQuotaInfos'[d].QuotaSize
            = Add64(diskQuotaInfos[d].QuotaSize, hard)
       /\ \A e \in DOMAIN diskQuotaInfos \ {d} :
             diskQuotaInfos'[e] = diskQuotaInfos[e]
  BY <1>1, <1>2, <1>3 DEF TypeOK, IsMap, DiskQuotaInfo
<1>12. Add64(CommittedIn(quotas, d), hard) = CommittedIn(quotas', d)
  <2>1. CommittedIn(quotas', d) = CommittedIn(quotas, d) + hard
    BY <1>10
  <2>. QED
    BY <1>9, <2>1 DEF Add64
<1>13. ASSUME NEW e \in DOMAIN diskQuotaInfos
       PROVE  diskQuotaInfos'[e].QuotaSize = CommittedIn(quotas', e)
  <2>1. diskQuotaInfos[e].QuotaSize = CommittedIn(quotas, e)
    BY AccountsUnfolded
  <2>2. CASE e = d
    BY <1>11, <1>12, <2>1, <2>2
  <2>3. CASE e # d
    <3>1. CommittedIn(quotas', e) = CommittedIn(quotas, e)
      BY <1>10, <2>3
    <3>. QED
      BY <1>11, <2>1, <2>3, <3>1
  <2>. QED
    BY <2>2, <2>3
<1>. QED
  BY <1>8, <1>11, <1>13, AccountsUnfolded

\* Every step keeps the accounting exact, when removals, listings and mounts
\* work.
LEMMA AccountsStep ==
  ASSUME NEW m, SizesFit(m), DisksWork, Inv, Inv', UniqueInv, UniqueInv',
         Bounded(m), QuotaSizeAccounts, [Next]_vars
  PROVE  Bounded(m)' /\ QuotaSizeAccounts'
<1>0. /\ TypeOK /\ ModeInv /\ OpInv /\ AllTracked
      /\ IsFiniteSet(DOMAIN quotas)
  BY VolumesFinite DEF Inv, UniqueInv, SizesFit
<1>1. ASSUME NEW v \in Volume, NEW size \in Sizes,
             GetVolumeQuotaPath(v, size) \/ ExpandVolume(v, size)
      PROVE  Bounded(m)' /\ QuotaSizeAccounts'
  <2>1. op'.size = size /\ UNCHANGED <<quotas, limit, diskQuotaInfos>>
    <3>1. CASE GetVolumeQuotaPath(v, size)
      BY <3>1 DEF GetVolumeQuotaPath
    <3>2. CASE ExpandVolume(v, size)
      BY <3>2 DEF ExpandVolume
    <3>. QED
      BY <1>1, <3>1, <3>2
  <2>. QED
    BY <2>1, QuietAccounts DEF SizesFit
<1>2. CASE SetProjectQuotaKnownPath
  <2>1. op # Nil /\ Complete /\ UNCHANGED limit
    BY <1>2 DEF SetProjectQuotaKnownPath
  <2>2. (\A d \in Disk, i \in ProjId : limit[d][i] <= m)'
    BY <2>1 DEF Bounded
  <2>. QED
    BY <2>1, <2>2, CompleteBounded
<1>3. CASE SetProjectLimit
  <2>1. /\ op # Nil /\ Complete /\ op.size \in Uint64 /\ op.size <= m
        /\ limit' = [limit EXCEPT ![op.disk][op.id] = Truncate(op.size)]
    BY <1>0, <1>3 DEF SetProjectLimit, TypeOK, Op, Bounded
  <2>2. Truncate(op.size) \in Uint64 /\ Truncate(op.size) <= op.size
    BY <2>1, TruncateFacts
  <2>3. Truncate(op.size) <= m
    BY <2>1, <2>2, SizesAssumption DEF Uint64, SizesFit
  <2>4. ASSUME NEW d \in Disk, NEW i \in ProjId PROVE limit'[d][i] <= m
    BY <1>0, <2>1, <2>3 DEF TypeOK, Bounded
  <2>. QED
    BY <2>1, <2>4, CompleteBounded
<1>4. CASE SetProjectId
  <2>1. PICK i \in ProjId : op' = [op EXCEPT !.id = i]
    BY <1>4 DEF SetProjectId, AllocateNext
  <2>2. op'.size = op.size /\ op # Nil
    BY <1>0, <1>4, <2>1 DEF TypeOK, Op, SetProjectId, AllocateNext
  <2>3. UNCHANGED <<quotas, limit, diskQuotaInfos>>
    BY <1>4 DEF SetProjectId, AllocateNext
  <2>. QED
    BY <2>2, <2>3, QuietAccounts DEF Bounded
<1>5. CASE SetProjectIdFails \/ SetProjectLimitFails
  <2>1. op' = Nil /\ UNCHANGED <<quotas, limit, diskQuotaInfos>>
    BY <1>5 DEF SetProjectIdFails, SetProjectLimitFails, Abort, ReleaseId
  <2>. QED
    BY <2>1, QuietAccounts
<1>6. ASSUME NEW v \in Volume, ReleaseVolumePath(v)
      PROVE  Bounded(m)' /\ QuotaSizeAccounts'
  <2>1. QuotaSizeAccounts'
    BY <1>0, <1>6, ReleaseAccounts
  <2>2. /\ quotas' = Drop(quotas, v) /\ op' = Nil /\ UNCHANGED limit
    BY <1>6 DEF ReleaseVolumePath, Serving
  <2>3. Bounded(m)'
    BY <2>2 DEF Bounded, Drop, Restrict
  <2>. QED
    BY <2>1, <2>3
<1>7. ASSUME NEW v \in Volume, ReleaseVolumePathFails(v)
      PROVE  Bounded(m)' /\ QuotaSizeAccounts'
  BY <1>7 DEF ReleaseVolumePathFails, DisksWork
<1>8. CASE ListPathQuotaInfos
  BY <1>8, QuietAccounts DEF ListPathQuotaInfos, Serving
<1>9. ASSUME NEW d \in Disk, NEW b \in BOOLEAN,
             SetQuotaDiskDisabledState(d, b)
      PROVE  Bounded(m)' /\ QuotaSizeAccounts'
  <2>1. /\ op' = Nil /\ UNCHANGED <<quotas, limit>>
        /\ d \in DOMAIN diskQuotaInfos
        /\ diskQuotaInfos' = [diskQuotaInfos EXCEPT ![d].Disabled = b]
    BY <1>9 DEF SetQuotaDiskDisabledState, Serving
  <2>2. /\ DOMAIN diskQuotaInfos' = DOMAIN diskQuotaInfos
        /\ \A e \in DOMAIN diskQuotaInfos :
             diskQuotaInfos'[e].QuotaSize = diskQuotaInfos[e].QuotaSize
    BY <1>0, <2>1 DEF TypeOK, IsMap, DiskQuotaInfo
  <2>. QED
    BY <2>1, <2>2, QuietAccounts
<1>10. CASE Crash
  BY <1>10, EmptyMapFacts, EmptyAccounts DEF Crash, Forget
<1>11. CASE Start
  <2>1. PICK mounted \in SUBSET Disk, s \in ReadDisableStates :
          diskQuotaInfos' = [d \in mounted |-> RestoredDiskInfo(d, s[d])]
    BY <1>11 DEF Start
  <2>2. mode = "down" /\ UNCHANGED <<quotas, op, limit>>
    BY <1>11 DEF Start, GetSubDirs
  <2>3. quotas' = EmptyMap /\ op' = Nil
    BY <1>0, <2>2 DEF ModeInv
  <2>. QED
    BY <2>1, <2>2, <2>3, EmptyAccounts DEF RestoredDiskInfo
<1>12. CASE StartFails \/ FinishRestore
  <2>1. op = Nil /\ UNCHANGED <<quotas, limit, diskQuotaInfos, op>>
    BY <1>0, <1>12 DEF StartFails, FinishRestore, memory, ModeInv
  <2>. QED
    BY <2>1, QuietAccounts
<1>13. ASSUME NEW p \in todo, LoadPath(p)
       PROVE  Bounded(m)' /\ QuotaSizeAccounts'
  BY <1>13, LoadPathAccounts
<1>14. ASSUME NEW p \in todo, LoadPathFails(p)
       PROVE  Bounded(m)' /\ QuotaSizeAccounts'
  BY <1>14, EmptyMapFacts, EmptyAccounts DEF LoadPathFails, Forget
<1>15. ASSUME NEW d \in Disk, MakeForeignDir(d)
       PROVE  Bounded(m)' /\ QuotaSizeAccounts'
  BY <1>15, QuietAccounts DEF MakeForeignDir, memory, Bounded
<1>16. CASE UNCHANGED vars
  BY <1>16, QuietAccounts DEF vars, memory, Bounded
<1>. QED
  BY <1>1, <1>2, <1>3, <1>4, <1>5, <1>6, <1>7, <1>8, <1>9, <1>10, <1>11,
     <1>12, <1>13, <1>14, <1>15, <1>16 DEF Next

\* If removals, listings and the mounts at start succeed, and the project ids
\* are too few for their volumes' quotas to overflow a uint64, a disk's
\* QuotaSize is the sum of the quotas of its volumes: after any sequence of
\* allocations, expansions, releases and failed kernel calls, wherever the
\* process dies, and throughout the restore.
THEOREM QuotaSizeIsSum ==
  ASSUME DisksWork, NEW m, SizesFit(m)
  PROVE  Spec => []QuotaSizeAccounts
<1>1. Init => Bounded(m) /\ QuotaSizeAccounts
  BY EmptyMapFacts DEF Init, Bounded, QuotaSizeAccounts, SizesFit
<1>2. /\ Inv /\ Inv' /\ UniqueInv /\ UniqueInv'
      /\ Bounded(m) /\ QuotaSizeAccounts /\ [Next]_vars
      => Bounded(m)' /\ QuotaSizeAccounts'
  BY AccountsStep
<1>3. Spec => [](Inv /\ UniqueInv)
  BY UniqueInvariance
<1>. QED
  BY <1>1, <1>2, <1>3, PTL DEF Spec
=============================================================================
