------------------------- MODULE QuotaManagerProofs -------------------------
(***************************************************************************)
(* Theorems about QuotaManager, for every set of disks, volumes, project   *)
(* ids and sizes.                                                          *)
(***************************************************************************)
EXTENDS QuotaManager, TLAPS

(* What Put and Drop do to a map: its domain, its values, its type. *)

\* Storing a key in a Go map adds that key and changes no other.
LEMMA PutFacts ==
  ASSUME NEW K, NEW V, NEW f, IsMap(f, K, V), NEW k \in K, NEW x \in V
  PROVE  /\ IsMap(Put(f, k, x), K, V)
         /\ DOMAIN Put(f, k, x) = DOMAIN f \cup {k}
         /\ Put(f, k, x)[k] = x
         /\ \A y \in DOMAIN f \ {k} : Put(f, k, x)[y] = f[y]
  BY DEF Put, IsMap

\* Deleting a key from a Go map removes that key and changes no other.
LEMMA DropFacts ==
  ASSUME NEW K, NEW V, NEW f, IsMap(f, K, V), NEW k
  PROVE  /\ IsMap(Drop(f, k), K, V)
         /\ DOMAIN Drop(f, k) = DOMAIN f \ {k}
         /\ \A y \in DOMAIN f \ {k} : Drop(f, k)[y] = f[y]
  BY DEF Drop, Restrict, IsMap

\* A new key with a new value keeps a map injective.
LEMMA RangePut ==
  ASSUME NEW f, NEW k, k \notin DOMAIN f, NEW x
  PROVE  /\ Range(Put(f, k, x)) = Range(f) \cup {x}
         /\ IsInjective(f) /\ x \notin Range(f) => IsInjective(Put(f, k, x))
  BY DEF Put, Range, IsInjective

\* Deleting a key of an injective map takes its value out of the range.
LEMMA RangeDrop ==
  ASSUME NEW f, NEW k, IsInjective(f)
  PROVE  /\ IsInjective(Drop(f, k))
         /\ Range(Drop(f, k)) = IF k \in DOMAIN f THEN Range(f) \ {f[k]}
                                ELSE Range(f)
  BY DEF Drop, Restrict, Range, IsInjective

\* An empty Go map is a map of every type.
LEMMA EmptyMapFacts ==
  /\ DOMAIN EmptyMap = {}
  /\ \A K, V : IsMap(EmptyMap, K, V)
  BY DEF EmptyMap, IsMap

\* uint64 addition and subtraction stay within uint64.
LEMMA Uint64Closed ==
  ASSUME NEW a \in Uint64, NEW b \in Uint64
  PROVE  Add64(a, b) \in Uint64 /\ Sub64(a, b) \in Uint64
  BY SizesAssumption DEF Uint64, Add64, Sub64

\* A limit in whole blocks is a uint64 that does not exceed the size.
LEMMA TruncateFacts ==
  ASSUME NEW n \in Uint64
  PROVE  Truncate(n) \in Uint64 /\ Truncate(n) <= n
  BY SizesAssumption DEF Uint64, Truncate

\* Updating a disk's accounting keeps the disks and the types.
LEMMA WithQuotaSizeFacts ==
  ASSUME IsMap(diskQuotaInfos, Disk, DiskQuotaInfo), NEW d \in Disk,
         NEW q \in Uint64
  PROVE  /\ IsMap(WithQuotaSize(d, q), Disk, DiskQuotaInfo)
         /\ DOMAIN WithQuotaSize(d, q) = DOMAIN diskQuotaInfos
<1>1. Sub64(Capacity[d], q) \in Uint64
  BY SizesAssumption, Uint64Closed
<1>. QED
  BY <1>1 DEF WithQuotaSize, IsMap, DiskQuotaInfo

-----------------------------------------------------------------------------
(* Inv is inductive.  One lemma per group of actions. *)

\* The state of a node on which the plugin has never run satisfies Inv.
LEMMA InitInv == Init => Inv
<1>. SUFFICES ASSUME Init PROVE Inv
  OBVIOUS
<1>. USE EmptyMapFacts DEF Init
<1>1. TypeOK
  BY SizesAssumption DEF TypeOK, Uint64
<1>2. ModeInv /\ OpInv /\ TodoInv /\ ForeignUnowned /\ QuotasOnline
  BY DEF ModeInv, OpInv, TodoInv, ForeignUnowned, QuotasOnline
<1>3. IdPoolExact
  BY DEF IdPoolExact, Range, OpIds, IsInjective
<1>4. TrackedDirHasId /\ QuotasHaveDirs
  BY DEF TrackedDirHasId, QuotasHaveDirs
<1>. QED
  BY <1>1, <1>2, <1>3, <1>4 DEF Inv

\* A new volume's directory is made before anything is recorded about it.
LEMMA GetVolumeQuotaPathInv ==
  ASSUME Inv, NEW v \in Volume, NEW size \in Sizes,
         GetVolumeQuotaPath(v, size)
  PROVE  Inv'
<1>. USE DEF Inv, GetVolumeQuotaPath, Serving
<1>1. PICK d \in FirstDisks(AvailableDisks(size)) :
        /\ dirs' = IF <<d, v>> \in DOMAIN dirs THEN dirs
                   ELSE Put(dirs, <<d, v>>, Nil)
        /\ op' = [kind |-> "get", disk |-> d, vol |-> v, size |-> size,
                  id |-> Nil]
  OBVIOUS
<1>2. d \in DOMAIN diskQuotaInfos /\ d \in Disk /\ <<d, v>> \in Path
  BY <1>1 DEF FirstDisks, AvailableDisks, TypeOK, IsMap, Path
<1>3. /\ IsMap(dirs', Path, DirId)
      /\ DOMAIN dirs' = DOMAIN dirs \cup {<<d, v>>}
      /\ \A p \in DOMAIN dirs : dirs'[p] = dirs[p]
      /\ <<d, v>> \notin DOMAIN dirs => dirs'[<<d, v>>] = Nil
  <2>1. IsMap(dirs, Path, DirId)
    BY DEF TypeOK
  <2>2. CASE <<d, v>> \in DOMAIN dirs
    BY <1>1, <2>1, <2>2
  <2>3. CASE <<d, v>> \notin DOMAIN dirs
    <3>1. Nil \in DirId
      BY DEF DirId
    <3>2. dirs' = Put(dirs, <<d, v>>, Nil)
      BY <1>1, <2>3
    <3>3. /\ IsMap(dirs', Path, DirId)
          /\ DOMAIN dirs' = DOMAIN dirs \cup {<<d, v>>}
          /\ dirs'[<<d, v>>] = Nil
          /\ \A p \in DOMAIN dirs \ {<<d, v>>} : dirs'[p] = dirs[p]
      BY <1>2, <2>1, <3>1, <3>2 DEF Put, IsMap
    <3>. QED
      BY <2>3, <3>3
  <2>. QED
    BY <2>2, <2>3
<1>4. op' \in Op /\ op' # Nil
  BY <1>1, <1>2, SizesAssumption, NilAssumption DEF Op, DirId
<1>5. TypeOK'
  BY <1>3, <1>4 DEF TypeOK
<1>6. ModeInv' /\ TodoInv' /\ QuotasOnline' /\ TrackedDirHasId'
  BY <1>3 DEF ModeInv, TodoInv, QuotasOnline, TrackedDirHasId
<1>7. OpInv'
  BY <1>1, <1>2, <1>3 DEF OpInv, OpPath
<1>8. ForeignUnowned'
  BY <1>3, NamesAssumption DEF ForeignUnowned
<1>9. IdPoolExact'
  BY <1>1, <1>4 DEF IdPoolExact, OpIds, Range, IsInjective
<1>10. QuotasHaveDirs'
  BY <1>3 DEF QuotasHaveDirs, PathOf
<1>. QED
  BY <1>5, <1>6, <1>7, <1>8, <1>9, <1>10

\* An expansion first only checks the cache.
LEMMA ExpandVolumeInv ==
  ASSUME Inv, NEW v \in Volume, NEW size \in Sizes, ExpandVolume(v, size)
  PROVE  Inv'
<1>. USE DEF Inv, ExpandVolume, Serving
<1>1. quotas[v].disk \in Disk
  BY DEF TypeOK, IsMap
<1>2. op' \in Op /\ op' # Nil /\ op'.id = Nil
  BY <1>1, SizesAssumption, NilAssumption DEF Op, DirId
<1>3. TypeOK'
  BY <1>2 DEF TypeOK
<1>4. /\ ModeInv' /\ TodoInv' /\ QuotasOnline' /\ TrackedDirHasId'
      /\ ForeignUnowned' /\ QuotasHaveDirs'
  BY DEF ModeInv, TodoInv, QuotasOnline, TrackedDirHasId, ForeignUnowned,
         QuotasHaveDirs, PathOf
<1>5. OpInv'
  BY <1>2 DEF OpInv, OpPath, QuotasHaveDirs, PathOf
<1>6. IdPoolExact'
  BY <1>2 DEF IdPoolExact, OpIds, Range, IsInjective
<1>. QED
  BY <1>3, <1>4, <1>5, <1>6

\* What the end of a successful operation does to the caches.
LEMMA CompleteFacts ==
  ASSUME TypeOK, OpInv, op # Nil, Complete
  PROVE  /\ op' = Nil
         /\ IsMap(quotas', Volume, PathQuotaInfo)
         /\ DOMAIN quotas' = DOMAIN quotas \cup {op.vol}
         /\ quotas'[op.vol] = [disk |-> op.disk, hard |-> op.size]
         /\ \A w \in DOMAIN quotas \ {op.vol} : quotas'[w] = quotas[w]
         /\ IsMap(diskQuotaInfos', Disk, DiskQuotaInfo)
         /\ DOMAIN diskQuotaInfos' = DOMAIN diskQuotaInfos
<1>1. /\ op \in Op
      /\ op.disk \in Disk /\ op.vol \in Volume /\ op.size \in Uint64
  BY DEF TypeOK, Op
<1>2. IsMap(quotas, Volume, PathQuotaInfo)
  BY DEF TypeOK
<1>3. [disk |-> op.disk, hard |-> op.size] \in PathQuotaInfo
  BY <1>1 DEF PathQuotaInfo
<1>4. quotas' = Put(quotas, op.vol, [disk |-> op.disk, hard |-> op.size])
  BY DEF Complete
<1>5. /\ IsMap(quotas', Volume, PathQuotaInfo)
      /\ DOMAIN quotas' = DOMAIN quotas \cup {op.vol}
      /\ quotas'[op.vol] = [disk |-> op.disk, hard |-> op.size]
      /\ \A w \in DOMAIN quotas \ {op.vol} : quotas'[w] = quotas[w]
  BY ONLY <1>1, <1>2, <1>3, <1>4, PutFacts
<1>6. IsMap(diskQuotaInfos, Disk, DiskQuotaInfo)
  BY DEF TypeOK
<1>7. diskQuotaInfos[op.disk].QuotaSize \in Uint64
  BY <1>6 DEF OpInv, IsMap, DiskQuotaInfo
<1>8. OldSize \in Uint64
  BY <1>2, SizesAssumption
    DEF OldSize, OpInv, IsMap, PathQuotaInfo, Uint64
<1>9. Sub64(Add64(diskQuotaInfos[op.disk].QuotaSize, op.size), OldSize)
        \in Uint64
  BY <1>1, <1>7, <1>8, Uint64Closed
<1>10. /\ IsMap(diskQuotaInfos', Disk, DiskQuotaInfo)
       /\ DOMAIN diskQuotaInfos' = DOMAIN diskQuotaInfos
  BY <1>1, <1>6, <1>9, WithQuotaSizeFacts DEF Complete
<1>. QED
  BY <1>5, <1>10 DEF Complete

\* What the end of a failed operation does to the directories.
LEMMA AbortFacts ==
  ASSUME TypeOK, op # Nil, Abort
  PROVE  /\ op' = Nil
         /\ IsMap(dirs', Path, DirId)
         /\ DOMAIN dirs' \subseteq DOMAIN dirs
         /\ DOMAIN dirs \ {OpPath} \subseteq DOMAIN dirs'
         /\ \A p \in DOMAIN dirs' : dirs'[p] = dirs[p]
         /\ op.kind = "expand" => dirs' = dirs
<1>1. IsMap(dirs, Path, DirId)
  BY DEF TypeOK
<1>2. /\ op' = Nil
      /\ \/ dirs' = dirs
         \/ op.kind = "get" /\ dirs' = Drop(dirs, OpPath)
  BY DEF Abort
<1>3. CASE dirs' = dirs
  BY <1>1, <1>2, <1>3
<1>4. CASE op.kind = "get" /\ dirs' = Drop(dirs, OpPath)
  <2>1. /\ IsMap(dirs', Path, DirId)
        /\ DOMAIN dirs' = DOMAIN dirs \ {OpPath}
        /\ \A p \in DOMAIN dirs \ {OpPath} : dirs'[p] = dirs[p]
    BY ONLY <1>1, <1>4, DropFacts
  <2>. QED
    BY <1>2, <1>4, <2>1
<1>. QED
  BY <1>2, <1>3, <1>4

\* SetProjectQuota of a known path changes only the caches.
LEMMA SetProjectQuotaKnownPathInv ==
  ASSUME Inv, SetProjectQuotaKnownPath
  PROVE  Inv'
<1>1. /\ TypeOK /\ ModeInv /\ OpInv /\ TodoInv /\ ForeignUnowned
      /\ QuotasOnline /\ IdPoolExact /\ TrackedDirHasId /\ QuotasHaveDirs
  BY DEF Inv
<1>2. /\ op # Nil /\ op.id = Nil /\ Complete
      /\ UNCHANGED <<mode, todo, scanning, allocated, quotaPathAndId, dirs,
                     limit, disableAttr>>
  BY DEF SetProjectQuotaKnownPath
<1>3. /\ op' = Nil
      /\ IsMap(quotas', Volume, PathQuotaInfo)
      /\ DOMAIN quotas' = DOMAIN quotas \cup {op.vol}
      /\ quotas'[op.vol] = [disk |-> op.disk, hard |-> op.size]
      /\ \A w \in DOMAIN quotas \ {op.vol} : quotas'[w] = quotas[w]
      /\ IsMap(diskQuotaInfos', Disk, DiskQuotaInfo)
      /\ DOMAIN diskQuotaInfos' = DOMAIN diskQuotaInfos
  BY <1>1, <1>2, CompleteFacts
<1>4. TypeOK'
  BY <1>1, <1>2, <1>3 DEF TypeOK
<1>5. ModeInv'
  BY <1>1, <1>2, <1>3 DEF ModeInv
<1>6. OpInv' /\ TodoInv' /\ ForeignUnowned' /\ TrackedDirHasId'
  BY <1>1, <1>2, <1>3 DEF OpInv, TodoInv, ForeignUnowned, TrackedDirHasId
<1>7. QuotasOnline'
  BY <1>1, <1>2, <1>3 DEF QuotasOnline, OpInv
<1>8. IdPoolExact'
  BY <1>1, <1>2, <1>3 DEF IdPoolExact, OpIds
<1>9. QuotasHaveDirs'
  BY <1>1, <1>2, <1>3 DEF QuotasHaveDirs, PathOf, OpPath, OpInv
<1>. QED
  BY <1>4, <1>5, <1>6, <1>7, <1>8, <1>9 DEF Inv

\* A fresh id goes on the directory of the operation under way only.
LEMMA SetProjectIdInv ==
  ASSUME Inv, SetProjectId
  PROVE  Inv'
<1>1. /\ TypeOK /\ ModeInv /\ OpInv /\ TodoInv /\ ForeignUnowned
      /\ QuotasOnline /\ IdPoolExact /\ TrackedDirHasId /\ QuotasHaveDirs
  BY DEF Inv
<1>2. /\ op # Nil /\ op.id = Nil
      /\ OpPath \notin DOMAIN quotaPathAndId
      /\ OpPath \in DOMAIN dirs
      /\ UNCHANGED <<mode, todo, scanning, diskQuotaInfos, quotas,
                     quotaPathAndId, limit, disableAttr>>
  BY DEF SetProjectId, AllocateNext
<1>3. PICK i \in ProjId \ allocated :
        /\ allocated' = allocated \cup {i}
        /\ dirs' = [dirs EXCEPT ![OpPath] = i]
        /\ op' = [op EXCEPT !.id = i]
  BY DEF SetProjectId, AllocateNext
<1>4. /\ op \in Op /\ op' \in Op /\ op' # Nil
      /\ op'.id = i /\ op'.kind = op.kind /\ op'.disk = op.disk
      /\ op'.vol = op.vol /\ i # Nil
  BY <1>1, <1>2, <1>3, NilAssumption DEF TypeOK, Op, DirId
<1>5. OpPath' = OpPath
  BY <1>4 DEF OpPath
<1>6. /\ IsMap(dirs', Path, DirId)
      /\ DOMAIN dirs' = DOMAIN dirs
      /\ dirs'[OpPath] = i
      /\ \A p \in DOMAIN dirs \ {OpPath} : dirs'[p] = dirs[p]
  BY <1>1, <1>2, <1>3 DEF TypeOK, IsMap, DirId
<1>7. TypeOK'
  BY <1>1, <1>2, <1>3, <1>4, <1>6 DEF TypeOK
<1>8. ModeInv' /\ TodoInv' /\ QuotasOnline'
  BY <1>1, <1>2, <1>3, <1>6 DEF ModeInv, TodoInv, QuotasOnline
<1>9. OpInv'
  BY <1>1, <1>2, <1>4, <1>5, <1>6 DEF OpInv
<1>10. ForeignUnowned'
  BY <1>1, <1>2, <1>4, <1>6, NamesAssumption
    DEF ForeignUnowned, OpPath, Op
<1>11. IdPoolExact'
  <2>1. OpIds = {} /\ OpIds' = {i}
    BY <1>2, <1>4 DEF OpIds
  <2>. QED
    BY <1>1, <1>2, <1>3, <2>1 DEF IdPoolExact
<1>12. TrackedDirHasId'
  BY <1>1, <1>2, <1>6 DEF TrackedDirHasId
<1>13. QuotasHaveDirs'
  BY <1>1, <1>2, <1>6 DEF QuotasHaveDirs, PathOf
<1>. QED
  BY <1>7, <1>8, <1>9, <1>10, <1>11, <1>12, <1>13 DEF Inv

\* A failed operation gives its id back and leaves the tracked paths alone.
LEMMA AbortInv ==
  ASSUME Inv, op # Nil, Abort, OpPath \notin DOMAIN quotaPathAndId,
         allocated' = allocated \ OpIds,
         UNCHANGED <<mode, todo, scanning, diskQuotaInfos, quotas,
                     quotaPathAndId, limit, disableAttr>>
  PROVE  Inv'
<1>1. /\ TypeOK /\ ModeInv /\ OpInv /\ TodoInv /\ ForeignUnowned
      /\ QuotasOnline /\ IdPoolExact /\ TrackedDirHasId /\ QuotasHaveDirs
  BY DEF Inv
<1>2. /\ op' = Nil
      /\ IsMap(dirs', Path, DirId)
      /\ DOMAIN dirs' \subseteq DOMAIN dirs
      /\ DOMAIN dirs \ {OpPath} \subseteq DOMAIN dirs'
      /\ \A p \in DOMAIN dirs' : dirs'[p] = dirs[p]
      /\ op.kind = "expand" => dirs' = dirs
  BY <1>1, AbortFacts
<1>3. TypeOK'
  BY <1>1, <1>2 DEF TypeOK
<1>4. mode = "xfs" /\ todo = {}
  BY <1>1 DEF ModeInv
<1>5. ModeInv' /\ TodoInv' /\ QuotasOnline' /\ OpInv' /\ ForeignUnowned'
  BY <1>1, <1>2, <1>4
    DEF ModeInv, TodoInv, QuotasOnline, OpInv, ForeignUnowned
<1>6. IdPoolExact'
  <2>1. OpIds' = {}
    BY <1>2 DEF OpIds
  <2>. QED
    BY <1>1, <2>1 DEF IdPoolExact
<1>7. TrackedDirHasId'
  BY <1>1, <1>2 DEF TrackedDirHasId
<1>8. QuotasHaveDirs'
  <2>1. CASE op.kind = "expand"
    BY <1>1, <1>2, <2>1 DEF QuotasHaveDirs, PathOf
  <2>2. CASE op.kind # "expand"
    <3>1. op.vol \notin DOMAIN quotas
      BY <1>1, <2>2 DEF OpInv
    <3>. QED
      BY <1>1, <1>2, <3>1 DEF QuotasHaveDirs, PathOf, OpPath
  <2>. QED
    BY <2>1, <2>2
<1>. QED
  BY <1>3, <1>5, <1>6, <1>7, <1>8 DEF Inv

\* Both failures of SetProjectQuota are such ends of an operation.
LEMMA SetProjectQuotaFailsInv ==
  ASSUME Inv, SetProjectIdFails \/ SetProjectLimitFails
  PROVE  Inv'
<1>1. CASE SetProjectIdFails
  <2>1. OpIds = {}
    BY <1>1 DEF SetProjectIdFails, OpIds
  <2>. QED
    BY <1>1, <2>1, AbortInv DEF SetProjectIdFails
<1>2. CASE SetProjectLimitFails
  <2>1. OpIds = {op.id} /\ OpPath \notin DOMAIN quotaPathAndId
    BY <1>2 DEF SetProjectLimitFails, ReleaseId, OpIds, Inv, OpInv
  <2>. QED
    BY <1>2, <2>1, AbortInv DEF SetProjectLimitFails, ReleaseId
<1>. QED
  BY <1>1, <1>2

\* The limit is set: the path becomes tracked with the operation's id.
LEMMA SetProjectLimitInv ==
  ASSUME Inv, SetProjectLimit
  PROVE  Inv'
<1>1. /\ TypeOK /\ ModeInv /\ OpInv /\ TodoInv /\ ForeignUnowned
      /\ QuotasOnline /\ IdPoolExact /\ TrackedDirHasId /\ QuotasHaveDirs
  BY DEF Inv
<1>2. /\ op # Nil /\ op.id # Nil /\ Complete
      /\ limit' = [limit EXCEPT ![op.disk][op.id] = Truncate(op.size)]
      /\ quotaPathAndId' = Put(quotaPathAndId, OpPath, op.id)
      /\ UNCHANGED <<mode, todo, scanning, allocated, dirs, disableAttr>>
  BY DEF SetProjectLimit
<1>3. /\ op' = Nil
      /\ IsMap(quotas', Volume, PathQuotaInfo)
      /\ DOMAIN quotas' = DOMAIN quotas \cup {op.vol}
      /\ quotas'[op.vol] = [disk |-> op.disk, hard |-> op.size]
      /\ \A w \in DOMAIN quotas \ {op.vol} : quotas'[w] = quotas[w]
      /\ IsMap(diskQuotaInfos', Disk, DiskQuotaInfo)
      /\ DOMAIN diskQuotaInfos' = DOMAIN diskQuotaInfos
  BY <1>1, <1>2, CompleteFacts
<1>4. /\ op.id \in ProjId /\ op.size \in Uint64 /\ OpPath \in Path
      /\ OpPath \notin DOMAIN quotaPathAndId
      /\ OpPath \in DOMAIN dirs /\ dirs[OpPath] = op.id
      /\ op.disk \in DOMAIN diskQuotaInfos
  BY <1>1, <1>2 DEF TypeOK, Op, DirId, OpPath, OpInv, Path
<1>5. /\ IsMap(quotaPathAndId', Path, ProjId)
      /\ DOMAIN quotaPathAndId' = DOMAIN quotaPathAndId \cup {OpPath}
      /\ quotaPathAndId'[OpPath] = op.id
      /\ \A p \in DOMAIN quotaPathAndId \ {OpPath} :
            quotaPathAndId'[p] = quotaPathAndId[p]
  <2>1. IsMap(quotaPathAndId, Path, ProjId)
    BY <1>1 DEF TypeOK
  <2>. QED
    BY ONLY <1>2, <1>4, <2>1, PutFacts
<1>6. limit' \in [Disk -> [ProjId -> Uint64]]
  <2>1. Truncate(op.size) \in Uint64
    BY <1>4, TruncateFacts
  <2>. QED
    BY <1>1, <1>2, <2>1 DEF TypeOK
<1>7. TypeOK'
  BY <1>1, <1>2, <1>3, <1>5, <1>6 DEF TypeOK
<1>8. mode = "xfs" /\ todo = {}
  BY <1>1, <1>2 DEF ModeInv
<1>9. ModeInv' /\ OpInv' /\ TodoInv' /\ ForeignUnowned'
  BY <1>1, <1>2, <1>3, <1>8 DEF ModeInv, OpInv, TodoInv, ForeignUnowned
<1>10. QuotasOnline'
  BY <1>1, <1>3, <1>4 DEF QuotasOnline
<1>11. IdPoolExact'
  <2>1. OpIds = {op.id} /\ OpIds' = {}
    BY <1>2, <1>3 DEF OpIds
  <2>2. /\ Range(quotaPathAndId') = Range(quotaPathAndId) \cup {op.id}
        /\ IsInjective(quotaPathAndId')
    BY <1>1, <1>2, <1>4, <2>1, RangePut DEF IdPoolExact
  <2>. QED
    BY <1>1, <1>2, <2>1, <2>2 DEF IdPoolExact
<1>12. TrackedDirHasId'
  BY <1>1, <1>2, <1>4, <1>5 DEF TrackedDirHasId
<1>13. QuotasHaveDirs'
  BY <1>1, <1>2, <1>3, <1>4 DEF QuotasHaveDirs, PathOf, OpPath
<1>. QED
  BY <1>7, <1>9, <1>10, <1>11, <1>12, <1>13 DEF Inv

\* DeleteProjectQuota keeps the allocator and the provider's map in step.
LEMMA ForgetPathFacts ==
  ASSUME TypeOK, IdPoolExact, op = Nil, NEW p, ForgetPath(p)
  PROVE  /\ IsMap(quotaPathAndId', Path, ProjId)
         /\ DOMAIN quotaPathAndId' = DOMAIN quotaPathAndId \ {p}
         /\ \A q \in DOMAIN quotaPathAndId \ {p} :
               quotaPathAndId'[q] = quotaPathAndId[q]
         /\ allocated' \subseteq ProjId
         /\ op' = Nil => IdPoolExact'
<1>1. IsMap(quotaPathAndId, Path, ProjId) /\ allocated \subseteq ProjId
  BY DEF TypeOK
<1>2. quotaPathAndId' = Drop(quotaPathAndId, p)
  BY DEF ForgetPath, ReleaseId
<1>3. /\ IsMap(quotaPathAndId', Path, ProjId)
      /\ DOMAIN quotaPathAndId' = DOMAIN quotaPathAndId \ {p}
      /\ \A q \in DOMAIN quotaPathAndId \ {p} :
            quotaPathAndId'[q] = quotaPathAndId[q]
  BY ONLY <1>1, <1>2, DropFacts
<1>4. /\ IsInjective(quotaPathAndId')
      /\ Range(quotaPathAndId') =
           IF p \in DOMAIN quotaPathAndId
             THEN Range(quotaPathAndId) \ {quotaPathAndId[p]}
             ELSE Range(quotaPathAndId)
  BY <1>2, RangeDrop DEF IdPoolExact
<1>5. OpIds = {} /\ (op' = Nil => OpIds' = {})
  BY DEF OpIds
<1>. QED
  BY <1>1, <1>3, <1>4, <1>5 DEF IdPoolExact, ForgetPath, ReleaseId

\* A release takes the volume out of the caches and its directory away.
LEMMA ReleaseVolumePathInv ==
  ASSUME Inv, NEW v \in Volume, ReleaseVolumePath(v)
  PROVE  Inv'
<1>1. /\ TypeOK /\ ModeInv /\ OpInv /\ TodoInv /\ ForeignUnowned
      /\ QuotasOnline /\ IdPoolExact /\ TrackedDirHasId /\ QuotasHaveDirs
  BY DEF Inv
<1>2. /\ mode = "xfs" /\ op = Nil
      /\ v \in DOMAIN quotas
      /\ quotas[v].disk \in DOMAIN diskQuotaInfos
      /\ ForgetPath(PathOf(v))
      /\ dirs' = Drop(dirs, PathOf(v))
      /\ quotas' = Drop(quotas, v)
      /\ diskQuotaInfos' =
           WithQuotaSize(quotas[v].disk,
             Sub64(diskQuotaInfos[quotas[v].disk].QuotaSize, quotas[v].hard))
      /\ UNCHANGED <<mode, todo, scanning, op, limit, disableAttr>>
  BY DEF ReleaseVolumePath, Serving
<1>3. /\ IsMap(quotaPathAndId', Path, ProjId)
      /\ DOMAIN quotaPathAndId' = DOMAIN quotaPathAndId \ {PathOf(v)}
      /\ \A q \in DOMAIN quotaPathAndId \ {PathOf(v)} :
            quotaPathAndId'[q] = quotaPathAndId[q]
      /\ allocated' \subseteq ProjId
      /\ IdPoolExact'
  BY <1>1, <1>2, ForgetPathFacts
<1>4. /\ IsMap(dirs', Path, DirId)
      /\ DOMAIN dirs' = DOMAIN dirs \ {PathOf(v)}
      /\ \A q \in DOMAIN dirs \ {PathOf(v)} : dirs'[q] = dirs[q]
  <2>1. IsMap(dirs, Path, DirId)
    BY <1>1 DEF TypeOK
  <2>2. dirs' = Drop(dirs, PathOf(v))
    BY <1>2
  <2>. QED
    BY <2>1, <2>2 DEF Drop, Restrict, IsMap
<1>5. /\ IsMap(quotas', Volume, PathQuotaInfo)
      /\ DOMAIN quotas' = DOMAIN quotas \ {v}
      /\ \A w \in DOMAIN quotas \ {v} : quotas'[w] = quotas[w]
  <2>1. IsMap(quotas, Volume, PathQuotaInfo)
    BY <1>1 DEF TypeOK
  <2>. QED
    BY ONLY <1>2, <2>1, DropFacts
<1>6. /\ IsMap(diskQuotaInfos', Disk, DiskQuotaInfo)
      /\ DOMAIN diskQuotaInfos' = DOMAIN diskQuotaInfos
  <2>1. /\ IsMap(diskQuotaInfos, Disk, DiskQuotaInfo)
        /\ quotas[v].disk \in Disk /\ quotas[v].hard \in Uint64
    BY <1>1, <1>2 DEF TypeOK, IsMap, PathQuotaInfo
  <2>2. diskQuotaInfos[quotas[v].disk].QuotaSize \in Uint64
    BY <1>2, <2>1 DEF IsMap, DiskQuotaInfo
  <2>3. Sub64(diskQuotaInfos[quotas[v].disk].QuotaSize, quotas[v].hard)
          \in Uint64
    BY <2>1, <2>2, Uint64Closed
  <2>. QED
    BY <1>2, <2>1, <2>3, WithQuotaSizeFacts
<1>7. TypeOK'
  BY <1>1, <1>2, <1>3, <1>4, <1>5, <1>6 DEF TypeOK
<1>8. todo = {}
  BY <1>1, <1>2 DEF ModeInv
<1>9. ModeInv' /\ OpInv' /\ TodoInv'
  BY <1>2, <1>8 DEF ModeInv, OpInv, TodoInv
<1>10. ForeignUnowned' /\ QuotasOnline' /\ TrackedDirHasId'
  BY <1>1, <1>3, <1>4, <1>5, <1>6
    DEF ForeignUnowned, QuotasOnline, TrackedDirHasId
<1>11. QuotasHaveDirs'
  BY <1>1, <1>4, <1>5 DEF QuotasHaveDirs, PathOf
<1>. QED
  BY <1>3, <1>7, <1>9, <1>10, <1>11 DEF Inv

\* A release whose RemoveAll fails only forgets the path and its id.
LEMMA ReleaseVolumePathFailsInv ==
  ASSUME Inv, NEW v \in Volume, ReleaseVolumePathFails(v)
  PROVE  Inv'
<1>1. /\ TypeOK /\ ModeInv /\ OpInv /\ TodoInv /\ ForeignUnowned
      /\ QuotasOnline /\ IdPoolExact /\ TrackedDirHasId /\ QuotasHaveDirs
  BY DEF Inv
<1>2. /\ mode = "xfs" /\ op = Nil
      /\ ForgetPath(PathOf(v))
      /\ UNCHANGED <<mode, todo, scanning, diskQuotaInfos, quotas, op, dirs,
                     limit, disableAttr>>
  BY DEF ReleaseVolumePathFails, Serving
<1>3. /\ IsMap(quotaPathAndId', Path, ProjId)
      /\ DOMAIN quotaPathAndId' = DOMAIN quotaPathAndId \ {PathOf(v)}
      /\ \A q \in DOMAIN quotaPathAndId \ {PathOf(v)} :
            quotaPathAndId'[q] = quotaPathAndId[q]
      /\ allocated' \subseteq ProjId
      /\ IdPoolExact'
  BY <1>1, <1>2, ForgetPathFacts
<1>4. TypeOK'
  BY <1>1, <1>2, <1>3 DEF TypeOK
<1>5. ModeInv' /\ OpInv' /\ TodoInv' /\ ForeignUnowned' /\ QuotasOnline'
  BY <1>1, <1>2, <1>3 DEF ModeInv, OpInv, TodoInv, ForeignUnowned, QuotasOnline
<1>6. TrackedDirHasId'
  BY <1>1, <1>2, <1>3 DEF TrackedDirHasId
<1>7. QuotasHaveDirs'
  BY <1>1, <1>2 DEF QuotasHaveDirs, PathOf
<1>. QED
  BY <1>3, <1>4, <1>5, <1>6, <1>7 DEF Inv

\* Listing takes the ids of untracked volumes again, each once.
LEMMA ListPathQuotaInfosInv ==
  ASSUME Inv, ListPathQuotaInfos
  PROVE  Inv'
<1>1. /\ TypeOK /\ ModeInv /\ OpInv /\ TodoInv /\ ForeignUnowned
      /\ QuotasOnline /\ IdPoolExact /\ TrackedDirHasId /\ QuotasHaveDirs
  BY DEF Inv
<1>2. /\ mode = "xfs" /\ op = Nil
      /\ UNCHANGED <<mode, todo, scanning, diskQuotaInfos, quotas, op, dirs,
                     limit, disableAttr>>
  BY DEF ListPathQuotaInfos, Serving
<1>3. PICK T \in SUBSET Untracked :
        /\ \A v \in T : /\ PathOf(v) \in DOMAIN dirs
                        /\ dirs[PathOf(v)] \in ProjId \ allocated
                        /\ \A w \in T : dirs[PathOf(v)] = dirs[PathOf(w)]
                                          => v = w
        /\ allocated' = allocated \cup {dirs[PathOf(v)] : v \in T}
        /\ quotaPathAndId' =
             [p \in DOMAIN quotaPathAndId \cup {PathOf(v) : v \in T} |->
                IF p \in DOMAIN quotaPathAndId THEN quotaPathAndId[p]
                ELSE dirs[p]]
  BY DEF ListPathQuotaInfos
<1>4. /\ DOMAIN quotaPathAndId' =
           DOMAIN quotaPathAndId \cup {PathOf(v) : v \in T}
      /\ \A p \in DOMAIN quotaPathAndId :
            quotaPathAndId'[p] = quotaPathAndId[p]
      /\ \A v \in T : /\ PathOf(v) \notin DOMAIN quotaPathAndId
                      /\ quotaPathAndId'[PathOf(v)] = dirs[PathOf(v)]
  BY <1>3 DEF Untracked
<1>5. /\ IsMap(quotaPathAndId, Path, ProjId)
      /\ DOMAIN dirs \subseteq Path
      /\ allocated \subseteq ProjId
  BY <1>1 DEF TypeOK, IsMap
<1>6. IsMap(quotaPathAndId', Path, ProjId) /\ allocated' \subseteq ProjId
  BY <1>3, <1>4, <1>5 DEF IsMap
<1>7. TypeOK'
  BY <1>1, <1>2, <1>6 DEF TypeOK
<1>8. todo = {}
  BY <1>1, <1>2 DEF ModeInv
<1>9. ModeInv' /\ OpInv' /\ TodoInv' /\ ForeignUnowned' /\ QuotasOnline'
  BY <1>1, <1>2, <1>8 DEF ModeInv, OpInv, TodoInv, ForeignUnowned, QuotasOnline
<1>10. IdPoolExact'
  <2>1. OpIds = {} /\ OpIds' = {}
    BY <1>2 DEF OpIds
  <2>2. Range(quotaPathAndId') =
          Range(quotaPathAndId) \cup {dirs[PathOf(v)] : v \in T}
    BY <1>4 DEF Range
  <2>3. IsInjective(quotaPathAndId')
    <3>1. \A p \in DOMAIN quotaPathAndId : quotaPathAndId[p] \in allocated
      BY <1>1 DEF IdPoolExact, Range
    <3>2. SUFFICES ASSUME NEW p \in DOMAIN quotaPathAndId',
                          NEW q \in DOMAIN quotaPathAndId',
                          quotaPathAndId'[p] = quotaPathAndId'[q]
                   PROVE  p = q
      BY DEF IsInjective
    <3>3. CASE p \in DOMAIN quotaPathAndId /\ q \in DOMAIN quotaPathAndId
      BY <1>1, <1>4, <3>2, <3>3 DEF IdPoolExact, IsInjective
    <3>4. CASE p \in DOMAIN quotaPathAndId /\ q \notin DOMAIN quotaPathAndId
      BY <1>3, <1>4, <3>1, <3>2, <3>4
    <3>5. CASE p \notin DOMAIN quotaPathAndId /\ q \in DOMAIN quotaPathAndId
      BY <1>3, <1>4, <3>1, <3>2, <3>5
    <3>6. CASE p \notin DOMAIN quotaPathAndId /\ q \notin DOMAIN quotaPathAndId
      BY <1>3, <1>4, <3>2, <3>6
    <3>. QED
      BY <3>3, <3>4, <3>5, <3>6
  <2>. QED
    BY <1>1, <1>3, <2>1, <2>2, <2>3 DEF IdPoolExact
<1>11. TrackedDirHasId'
  BY <1>1, <1>2, <1>3, <1>4 DEF TrackedDirHasId
<1>12. QuotasHaveDirs'
  BY <1>1, <1>2 DEF QuotasHaveDirs, PathOf
<1>. QED
  BY <1>7, <1>9, <1>10, <1>11, <1>12 DEF Inv

\* Disabling or enabling a disk touches only that flag.
LEMMA SetQuotaDiskDisabledStateInv ==
  ASSUME Inv, NEW d \in Disk, NEW b \in BOOLEAN,
         SetQuotaDiskDisabledState(d, b)
  PROVE  Inv'
<1>1. /\ TypeOK /\ ModeInv /\ OpInv /\ TodoInv /\ ForeignUnowned
      /\ QuotasOnline /\ IdPoolExact /\ TrackedDirHasId /\ QuotasHaveDirs
  BY DEF Inv
<1>2. /\ disableAttr' = [disableAttr EXCEPT ![d] = b]
      /\ diskQuotaInfos' = [diskQuotaInfos EXCEPT ![d].Disabled = b]
      /\ UNCHANGED <<mode, todo, scanning, quotas, allocated, quotaPathAndId,
                     op, dirs, limit>>
  BY DEF SetQuotaDiskDisabledState
<1>3. /\ IsMap(diskQuotaInfos', Disk, DiskQuotaInfo)
      /\ DOMAIN diskQuotaInfos' = DOMAIN diskQuotaInfos
      /\ disableAttr' \in [Disk -> BOOLEAN]
  BY <1>1, <1>2 DEF TypeOK, IsMap, DiskQuotaInfo
<1>4. TypeOK'
  BY <1>1, <1>2, <1>3 DEF TypeOK
<1>5. ModeInv' /\ OpInv' /\ TodoInv' /\ ForeignUnowned' /\ QuotasOnline'
  BY <1>1, <1>2, <1>3
    DEF ModeInv, OpInv, OpPath, TodoInv, ForeignUnowned, QuotasOnline
<1>6. IdPoolExact' /\ TrackedDirHasId' /\ QuotasHaveDirs'
  BY <1>1, <1>2
    DEF IdPoolExact, OpIds, TrackedDirHasId, QuotasHaveDirs, PathOf
<1>. QED
  BY <1>4, <1>5, <1>6 DEF Inv

\* Losing the memory keeps what is on the disks.
LEMMA ForgetInv ==
  ASSUME Inv, Forget, mode' \in {"down", "fake"},
         UNCHANGED <<dirs, limit, disableAttr>>
  PROVE  Inv'
<1>1. /\ TypeOK /\ ModeInv /\ OpInv /\ TodoInv /\ ForeignUnowned
      /\ QuotasOnline /\ IdPoolExact /\ TrackedDirHasId /\ QuotasHaveDirs
  BY DEF Inv
<1>2. /\ todo' = {} /\ scanning' = Nil /\ diskQuotaInfos' = EmptyMap
      /\ quotas' = EmptyMap /\ allocated' = {} /\ quotaPathAndId' = EmptyMap
      /\ op' = Nil
  BY DEF Forget
<1>3. TypeOK'
  <2>1. /\ IsMap(diskQuotaInfos', Disk, DiskQuotaInfo)
        /\ IsMap(quotas', Volume, PathQuotaInfo)
        /\ IsMap(quotaPathAndId', Path, ProjId)
    BY <1>2, EmptyMapFacts
  <2>. QED
    BY <1>1, <1>2, <2>1 DEF TypeOK
<1>4. ModeInv' /\ OpInv' /\ TodoInv' /\ ForeignUnowned' /\ QuotasOnline'
  BY <1>1, <1>2, EmptyMapFacts
    DEF ModeInv, OpInv, TodoInv, ForeignUnowned, QuotasOnline
<1>5. IdPoolExact' /\ TrackedDirHasId' /\ QuotasHaveDirs'
  BY <1>1, <1>2, EmptyMapFacts
    DEF IdPoolExact, OpIds, Range, IsInjective, TrackedDirHasId,
        QuotasHaveDirs
<1>. QED
  BY <1>3, <1>4, <1>5 DEF Inv

\* A start loads the disks and lists their directories.
LEMMA StartInv ==
  ASSUME Inv, Start
  PROVE  Inv'
<1>1. /\ TypeOK /\ ModeInv /\ OpInv /\ TodoInv /\ ForeignUnowned
      /\ QuotasOnline /\ IdPoolExact /\ TrackedDirHasId /\ QuotasHaveDirs
  BY DEF Inv
<1>2. /\ mode = "down" /\ mode' = "restoring"
      /\ UNCHANGED <<scanning, quotas, allocated, quotaPathAndId, op, dirs,
                     limit, disableAttr>>
  BY DEF Start, GetSubDirs
<1>3. PICK mounted \in SUBSET Disk, s \in ReadDisableStates :
        /\ diskQuotaInfos' = [d \in mounted |-> RestoredDiskInfo(d, s[d])]
        /\ \E listed \in SUBSET mounted :
             todo' = {p \in DOMAIN dirs : p[1] \in listed}
  BY DEF Start, GetSubDirs
<1>4. PICK listed \in SUBSET mounted :
        todo' = {p \in DOMAIN dirs : p[1] \in listed}
  BY <1>3
<1>5. /\ quotas = EmptyMap /\ quotaPathAndId = EmptyMap /\ op = Nil
      /\ DOMAIN quotas = {} /\ DOMAIN quotaPathAndId = {}
  BY <1>1, <1>2, EmptyMapFacts DEF ModeInv
<1>6. IsMap(diskQuotaInfos', Disk, DiskQuotaInfo)
  BY <1>3, SizesAssumption
    DEF IsMap, RestoredDiskInfo, ReadDisableStates, DiskQuotaInfo, Uint64
<1>7. TypeOK'
  BY <1>1, <1>2, <1>4, <1>6 DEF TypeOK, IsMap
<1>8. ModeInv' /\ OpInv' /\ ForeignUnowned' /\ QuotasOnline'
  BY <1>1, <1>2, <1>5 DEF ModeInv, OpInv, ForeignUnowned, QuotasOnline
<1>9. TodoInv'
  BY <1>2, <1>3, <1>4, <1>5 DEF TodoInv
<1>10. IdPoolExact' /\ TrackedDirHasId' /\ QuotasHaveDirs'
  BY <1>1, <1>2, <1>5
    DEF IdPoolExact, OpIds, TrackedDirHasId, QuotasHaveDirs
<1>. QED
  BY <1>7, <1>8, <1>9, <1>10 DEF Inv

\* Loading a path takes its id, which no loaded path has.
LEMMA LoadPathInv ==
  ASSUME Inv, NEW p \in todo, LoadPath(p)
  PROVE  Inv'
<1>1. /\ TypeOK /\ ModeInv /\ OpInv /\ TodoInv /\ ForeignUnowned
      /\ QuotasOnline /\ IdPoolExact /\ TrackedDirHasId /\ QuotasHaveDirs
  BY DEF Inv
<1>2. /\ mode = "restoring" /\ op = Nil
      /\ dirs[p] \in ProjId \ allocated
      /\ allocated' = allocated \cup {dirs[p]}
      /\ quotaPathAndId' = Put(quotaPathAndId, p, dirs[p])
      /\ diskQuotaInfos' =
           [diskQuotaInfos EXCEPT
              ![p[1]].QuotaSize = Add64(@, limit[p[1]][dirs[p]])]
      /\ quotas' = Put(quotas, p[2], [disk |-> p[1],
                                      hard |-> limit[p[1]][dirs[p]]])
      /\ todo' = todo \ {p}
      /\ scanning' = p[1]
      /\ UNCHANGED <<mode, op, dirs, limit, disableAttr>>
  BY <1>1 DEF LoadPath, CanLoad, Loaded, ModeInv
<1>3. /\ p \in Path /\ p \in DOMAIN dirs /\ p \notin DOMAIN quotaPathAndId
      /\ p[1] \in Disk /\ p[1] \in DOMAIN diskQuotaInfos
      /\ p[2] \in Volume /\ p = <<p[1], p[2]>>
  <2>1. p \in Path /\ p[1] \in Disk /\ p = <<p[1], p[2]>>
    BY <1>1 DEF TypeOK, Path
  <2>2. p \in DOMAIN dirs \ DOMAIN quotaPathAndId
        /\ p[1] \in DOMAIN diskQuotaInfos
    BY <1>1 DEF TodoInv
  <2>3. p[2] # ForeignName
    BY <1>1, <1>2, <2>2, NilAssumption DEF ForeignUnowned
  <2>. QED
    BY <2>1, <2>2, <2>3 DEF Path
<1>4. /\ IsMap(quotaPathAndId', Path, ProjId)
      /\ DOMAIN quotaPathAndId' = DOMAIN quotaPathAndId \cup {p}
      /\ quotaPathAndId'[p] = dirs[p]
      /\ \A q \in DOMAIN quotaPathAndId \ {p} :
            quotaPathAndId'[q] = quotaPathAndId[q]
  <2>1. IsMap(quotaPathAndId, Path, ProjId) /\ dirs[p] \in ProjId
    BY <1>1, <1>2 DEF TypeOK
  <2>2. quotaPathAndId' = Put(quotaPathAndId, p, dirs[p]) /\ p \in Path
    BY <1>2, <1>3
  <2>. QED
    BY ONLY <2>1, <2>2, PutFacts
<1>5. limit[p[1]][dirs[p]] \in Uint64
  BY <1>1, <1>2, <1>3 DEF TypeOK
<1>6. /\ IsMap(quotas', Volume, PathQuotaInfo)
      /\ DOMAIN quotas' = DOMAIN quotas \cup {p[2]}
      /\ quotas'[p[2]] = [disk |-> p[1], hard |-> limit[p[1]][dirs[p]]]
      /\ \A w \in DOMAIN quotas \ {p[2]} : quotas'[w] = quotas[w]
  <2>1. /\ IsMap(quotas, Volume, PathQuotaInfo) /\ p[2] \in Volume
        /\ [disk |-> p[1], hard |-> limit[p[1]][dirs[p]]] \in PathQuotaInfo
    BY <1>1, <1>3, <1>5 DEF TypeOK, PathQuotaInfo
  <2>. QED
    BY ONLY <1>2, <2>1, PutFacts
<1>7. /\ IsMap(diskQuotaInfos', Disk, DiskQuotaInfo)
      /\ DOMAIN diskQuotaInfos' = DOMAIN diskQuotaInfos
  <2>1. /\ IsMap(diskQuotaInfos, Disk, DiskQuotaInfo)
        /\ diskQuotaInfos[p[1]].QuotaSize \in Uint64
    BY <1>1, <1>3 DEF TypeOK, IsMap, DiskQuotaInfo
  <2>2. Add64(diskQuotaInfos[p[1]].QuotaSize, limit[p[1]][dirs[p]]) \in Uint64
    BY <1>5, <2>1, Uint64Closed
  <2>. QED
    BY <1>2, <2>1, <2>2 DEF IsMap, DiskQuotaInfo
<1>8. TypeOK'
  BY <1>1, <1>2, <1>3, <1>4, <1>6, <1>7 DEF TypeOK
<1>9. ModeInv' /\ OpInv' /\ ForeignUnowned'
  BY <1>1, <1>2 DEF ModeInv, OpInv, ForeignUnowned
<1>10. TodoInv' /\ QuotasOnline' /\ TrackedDirHasId'
  BY <1>1, <1>2, <1>3, <1>4, <1>6, <1>7
    DEF TodoInv, QuotasOnline, TrackedDirHasId
<1>11. IdPoolExact'
  <2>1. OpIds = {} /\ OpIds' = {}
    BY <1>2 DEF OpIds
  <2>2. /\ Range(quotaPathAndId') = Range(quotaPathAndId) \cup {dirs[p]}
        /\ IsInjective(quotaPathAndId')
    BY <1>1, <1>2, <1>3, <2>1, RangePut DEF IdPoolExact
  <2>. QED
    BY <1>1, <1>2, <2>1, <2>2 DEF IdPoolExact
<1>12. QuotasHaveDirs'
  BY <1>1, <1>2, <1>3, <1>6 DEF QuotasHaveDirs, PathOf
<1>. QED
  BY <1>8, <1>9, <1>10, <1>11, <1>12 DEF Inv

\* The steps that change only the mode of the manager.
LEMMA ModeChangeInv ==
  ASSUME Inv, StartFails \/ FinishRestore
  PROVE  Inv'
<1>1. /\ TypeOK /\ ModeInv /\ OpInv /\ TodoInv /\ ForeignUnowned
      /\ QuotasOnline /\ IdPoolExact /\ TrackedDirHasId /\ QuotasHaveDirs
  BY DEF Inv
<1>2. /\ UNCHANGED <<todo, diskQuotaInfos, quotas, allocated,
                     quotaPathAndId, op, dirs, limit, disableAttr>>
      /\ scanning' \in {scanning, Nil}
      /\ \/ mode = "down" /\ mode' = "fake"
         \/ mode = "restoring" /\ todo = {} /\ mode' = "xfs"
  BY DEF StartFails, FinishRestore, memory
<1>3. TypeOK' /\ ModeInv'
  BY <1>1, <1>2 DEF TypeOK, ModeInv
<1>4. OpInv' /\ TodoInv' /\ ForeignUnowned' /\ QuotasOnline'
  BY <1>1, <1>2 DEF OpInv, OpPath, TodoInv, ForeignUnowned, QuotasOnline
<1>5. IdPoolExact' /\ TrackedDirHasId' /\ QuotasHaveDirs'
  BY <1>1, <1>2
    DEF IdPoolExact, OpIds, TrackedDirHasId, QuotasHaveDirs, PathOf
<1>. QED
  BY <1>3, <1>4, <1>5 DEF Inv

\* A foreign directory has none of the manager's ids.
LEMMA MakeForeignDirInv ==
  ASSUME Inv, NEW d \in Disk, MakeForeignDir(d)
  PROVE  Inv'
<1>1. /\ TypeOK /\ ModeInv /\ OpInv /\ TodoInv /\ ForeignUnowned
      /\ QuotasOnline /\ IdPoolExact /\ TrackedDirHasId /\ QuotasHaveDirs
  BY DEF Inv
<1>2. /\ <<d, ForeignName>> \notin DOMAIN dirs
      /\ dirs' = Put(dirs, <<d, ForeignName>>, Nil)
      /\ UNCHANGED <<mode, todo, scanning, diskQuotaInfos, quotas, allocated,
                     quotaPathAndId, op, limit, disableAttr>>
  BY DEF MakeForeignDir, memory
<1>3. /\ IsMap(dirs', Path, DirId)
      /\ DOMAIN dirs' = DOMAIN dirs \cup {<<d, ForeignName>>}
      /\ dirs'[<<d, ForeignName>>] = Nil
      /\ \A p \in DOMAIN dirs \ {<<d, ForeignName>>} : dirs'[p] = dirs[p]
  <2>1. IsMap(dirs, Path, DirId) /\ <<d, ForeignName>> \in Path
        /\ Nil \in DirId
    BY <1>1 DEF TypeOK, Path, DirId
  <2>. QED
    BY <1>2, <2>1 DEF Put, IsMap
<1>4. TypeOK' /\ ModeInv'
  BY <1>1, <1>2, <1>3 DEF TypeOK, ModeInv
<1>5. OpInv' /\ TodoInv' /\ ForeignUnowned' /\ QuotasOnline'
  BY <1>1, <1>2, <1>3 DEF OpInv, OpPath, TodoInv, ForeignUnowned, QuotasOnline
<1>6. IdPoolExact' /\ TrackedDirHasId' /\ QuotasHaveDirs'
  BY <1>1, <1>2, <1>3
    DEF IdPoolExact, OpIds, TrackedDirHasId, QuotasHaveDirs, PathOf
<1>. QED
  BY <1>4, <1>5, <1>6 DEF Inv

\* A stuttering step keeps Inv.
LEMMA StutterInv ==
  ASSUME Inv, UNCHANGED vars
  PROVE  Inv'
  BY DEF Inv, vars, memory, TypeOK, ModeInv, OpInv, OpPath, TodoInv,
         ForeignUnowned, QuotasOnline, IdPoolExact, OpIds, TrackedDirHasId,
         QuotasHaveDirs, PathOf

\* Inv is an inductive invariant of the quota manager, whatever fails.
THEOREM Invariance == Spec => []Inv
<1>1. Inv /\ [Next]_vars => Inv'
  <2>. SUFFICES ASSUME Inv, [Next]_vars PROVE Inv'
    OBVIOUS
  <2>1. ASSUME NEW v \in Volume, NEW size \in Sizes, GetVolumeQuotaPath(v, size)
        PROVE  Inv'
    BY <2>1, GetVolumeQuotaPathInv
  <2>2. ASSUME NEW v \in Volume, NEW size \in Sizes, ExpandVolume(v, size)
        PROVE  Inv'
    BY <2>2, ExpandVolumeInv
  <2>3. CASE SetProjectQuotaKnownPath
    BY <2>3, SetProjectQuotaKnownPathInv
  <2>4. CASE SetProjectId
    BY <2>4, SetProjectIdInv
  <2>5. CASE SetProjectIdFails \/ SetProjectLimitFails
    BY <2>5, SetProjectQuotaFailsInv
  <2>6. CASE SetProjectLimit
    BY <2>6, SetProjectLimitInv
  <2>7. ASSUME NEW v \in Volume, ReleaseVolumePath(v)
        PROVE  Inv'
    BY <2>7, ReleaseVolumePathInv
  <2>8. ASSUME NEW v \in Volume, ReleaseVolumePathFails(v)
        PROVE  Inv'
    BY <2>8, ReleaseVolumePathFailsInv
  <2>9. CASE ListPathQuotaInfos
    BY <2>9, ListPathQuotaInfosInv
  <2>10. ASSUME NEW d \in Disk, NEW b \in BOOLEAN,
                SetQuotaDiskDisabledState(d, b)
         PROVE  Inv'
    BY <2>10, SetQuotaDiskDisabledStateInv
  <2>11. CASE Crash
    BY <2>11, ForgetInv DEF Crash
  <2>12. CASE Start
    BY <2>12, StartInv
  <2>13. CASE StartFails \/ FinishRestore
    BY <2>13, ModeChangeInv
  <2>14. ASSUME NEW p \in todo, LoadPath(p)
         PROVE  Inv'
    BY <2>14, LoadPathInv
  <2>15. ASSUME NEW p \in todo, LoadPathFails(p)
         PROVE  Inv'
    BY <2>15, ForgetInv DEF LoadPathFails
  <2>16. ASSUME NEW d \in Disk, MakeForeignDir(d)
         PROVE  Inv'
    BY <2>16, MakeForeignDirInv
  <2>17. CASE UNCHANGED vars
    BY <2>17, StutterInv
  <2>. QED
    BY <2>1, <2>2, <2>3, <2>4, <2>5, <2>6, <2>7, <2>8, <2>9, <2>10, <2>11,
       <2>12, <2>13, <2>14, <2>15, <2>16, <2>17 DEF Next
<1>. QED
  BY InitInv, <1>1, PTL DEF Spec

\* The caches and the disks keep their types; the uint64 fields stay uint64.
THEOREM TypeCorrect == Spec => []TypeOK
<1>1. Inv => TypeOK
  BY DEF Inv
<1>. QED
  BY <1>1, Invariance, PTL

\* The id allocator and the provider's map agree whatever fails: no project
\* id leaks and none is given to two paths.
THEOREM NoIdLeak == Spec => []IdPoolExact
<1>1. Inv => IdPoolExact
  BY DEF Inv
<1>. QED
  BY <1>1, Invariance, PTL

\* The provider's map describes the directories on the disks, whatever fails.
THEOREM TrackedPathsAreReal == Spec => []TrackedDirHasId
<1>1. Inv => TrackedDirHasId
  BY DEF Inv
<1>. QED
  BY <1>1, Invariance, PTL

\* No failure deletes the directory of a volume that is still in m.quotas.
THEOREM VolumesKeepTheirDirs == Spec => []QuotasHaveDirs
<1>1. Inv => QuotasHaveDirs
  BY DEF Inv
<1>. QED
  BY <1>1, Invariance, PTL
=============================================================================
