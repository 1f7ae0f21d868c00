---------------------- MODULE QuotaManagerRestartProofs ----------------------
(***************************************************************************)
(* Theorems about QuotaManager that need a better-behaved environment: the *)
(* project ids of the directories are unique and the caches agree with the *)
(* disks when removals, listings and mounts work; limits are enforced and  *)
(* every restart restores when, besides, the process stops only between    *)
(* two operations.                                                         *)
(***************************************************************************)
EXTENDS QuotaManagerProofs

\* Removals and listings succeed and every disk is mounted at start.
DisksWork == Faults \cap {"remove", "unmount", "readdir"} = {}

\* Nothing but clean restarts, failing kernel calls and unreadable attributes.
CleanFaults == Faults \subseteq {"restart", "projid", "limit", "xattr"}

\* Every size asked for is at least a block.
SizesAreBlocks == \A n \in Sizes : Truncate(n) # 0

-----------------------------------------------------------------------------
(* UniqueInv is inductive relative to Inv. *)

\* While the manager serves, ids known to it are unique because its own map
\* is injective.
LEMMA KnownIdsUnique ==
  ASSUME Inv, IdsKnown, mode = "xfs"
  PROVE  DirIdsUnique
<1>1. /\ IdPoolExact /\ TrackedDirHasId /\ OpInv /\ ModeInv
  BY DEF Inv
<1>2. SUFFICES ASSUME NEW p \in DOMAIN dirs, NEW q \in DOMAIN dirs,
                      dirs[p] = dirs[q], dirs[p] \in ProjId
               PROVE  p = q
  BY DEF DirIdsUnique
<1>3. ASSUME NEW r \in DOMAIN dirs, dirs[r] \in ProjId
      PROVE  \/ r \in DOMAIN quotaPathAndId /\ quotaPathAndId[r] = dirs[r]
             \/ OpIds = {dirs[r]} /\ r = OpPath
  BY <1>1, <1>3 DEF IdsKnown, Working, ModeInv, TrackedDirHasId, OpInv, OpIds
<1>4. CASE p \in DOMAIN quotaPathAndId /\ q \in DOMAIN quotaPathAndId
  BY <1>1, <1>2, <1>4 DEF IdPoolExact, IsInjective, TrackedDirHasId
<1>5. CASE p \in DOMAIN quotaPathAndId /\ q \notin DOMAIN quotaPathAndId
  BY <1>1, <1>2, <1>3, <1>5 DEF IdPoolExact, Range
<1>6. CASE p \notin DOMAIN quotaPathAndId /\ q \in DOMAIN quotaPathAndId
  BY <1>1, <1>2, <1>3, <1>6 DEF IdPoolExact, Range
<1>7. CASE p \notin DOMAIN quotaPathAndId /\ q \notin DOMAIN quotaPathAndId
  BY <1>2, <1>3, <1>7
<1>. QED
  BY <1>4, <1>5, <1>6, <1>7

\* The directory of a new volume is new: no disk has one for that volume.
LEMMA GetVolumeQuotaPathUnique ==
  ASSUME Inv, Inv', UniqueInv, NEW v \in Volume, NEW size \in Sizes,
         GetVolumeQuotaPath(v, size)
  PROVE  UniqueInv'
<1>1. /\ TypeOK /\ ModeInv /\ OpInv /\ TodoInv /\ ForeignUnowned
      /\ QuotasOnline /\ IdPoolExact /\ TrackedDirHasId /\ QuotasHaveDirs
      /\ IdsKnown /\ OneDirPerVolume /\ DirsAccounted /\ AllTracked
  BY DEF Inv, UniqueInv
<1>2. /\ mode = "xfs" /\ op = Nil /\ todo = {} /\ v \notin DOMAIN quotas
      /\ UNCHANGED <<mode, todo, quotas, quotaPathAndId>>
  BY <1>1 DEF GetVolumeQuotaPath, Serving, ModeInv
<1>3. PICK d \in FirstDisks(AvailableDisks(size)) :
        /\ dirs' = IF <<d, v>> \in DOMAIN dirs THEN dirs
                   ELSE Put(dirs, <<d, v>>, Nil)
        /\ op' = [kind |-> "get", disk |-> d, vol |-> v, size |-> size,
                  id |-> Nil]
  BY DEF GetVolumeQuotaPath
<1>4. VolumeDirs = {PathOf(w) : w \in DOMAIN quotas}
  BY <1>1, <1>2 DEF DirsAccounted, Working, OpDirs
<1>5. \A p \in VolumeDirs : p[2] # v
  BY <1>2, <1>4 DEF PathOf
<1>6. <<d, v>> \notin DOMAIN dirs /\ v # ForeignName
  BY <1>5, NamesAssumption DEF VolumeDirs
<1>7. /\ DOMAIN dirs' = DOMAIN dirs \cup {<<d, v>>}
      /\ dirs'[<<d, v>>] = Nil
      /\ \A p \in DOMAIN dirs : dirs'[p] = dirs[p]
  BY <1>3, <1>6 DEF Put
<1>8. op' # Nil /\ op'.kind = "get" /\ OpPath' = <<d, v>>
  <2>1. op' \in Op
    <3>1. d \in Disk /\ size \in Uint64
      BY <1>1, SizesAssumption DEF FirstDisks, AvailableDisks, TypeOK, IsMap
    <3>. QED
      BY <1>3, <3>1 DEF Op, DirId
  <2>. QED
    BY <1>3, <2>1, NilAssumption DEF OpPath
<1>9. VolumeDirs' = VolumeDirs \cup {<<d, v>>}
  BY <1>6, <1>7 DEF VolumeDirs
<1>10. OneDirPerVolume'
  BY <1>1, <1>5, <1>9 DEF OneDirPerVolume
<1>11. DirsAccounted'
  BY <1>2, <1>4, <1>8, <1>9 DEF DirsAccounted, OpDirs, PathOf
<1>12. AllTracked'
  BY <1>1, <1>2, <1>6, <1>8 DEF AllTracked, Untracked, PathOf, TrackedDirHasId
<1>13. IdsKnown'
  BY <1>1, <1>2, <1>7, NilAssumption DEF IdsKnown, Working
<1>14. DirIdsUnique'
  BY <1>7, NilAssumption DEF UniqueInv, DirIdsUnique
<1>. QED
  BY <1>10, <1>11, <1>12, <1>13, <1>14 DEF UniqueInv

\* The steps that change neither directories nor what is known of them.
LEMMA QuietStepUnique ==
  ASSUME UniqueInv, Inv, op = Nil, OpDirs' = {},
         op' # Nil => op'.kind # "get",
         UNCHANGED <<mode, todo, quotas, quotaPathAndId, dirs>>
  PROVE  UniqueInv'
<1>1. /\ TypeOK /\ ModeInv /\ OpInv /\ TodoInv /\ ForeignUnowned
      /\ QuotasOnline /\ IdPoolExact /\ TrackedDirHasId /\ QuotasHaveDirs
      /\ IdsKnown /\ OneDirPerVolume /\ DirsAccounted /\ AllTracked
  BY DEF Inv, UniqueInv
<1>2. DirIdsUnique' /\ OneDirPerVolume'
  BY DEF UniqueInv, DirIdsUnique, OneDirPerVolume, VolumeDirs
<1>3. IdsKnown'
  BY <1>1 DEF IdsKnown, Working
<1>4. DirsAccounted'
  <2>1. OpDirs = {}
    BY DEF OpDirs
  <2>. QED
    BY <1>1, <2>1 DEF DirsAccounted, Working, VolumeDirs, PathOf
<1>5. AllTracked'
  BY <1>1 DEF AllTracked, Untracked, PathOf
<1>. QED
  BY <1>2, <1>3, <1>4, <1>5 DEF UniqueInv

\* The end of an operation on a path that is tracked by then.
LEMMA CompleteUnique ==
  ASSUME Inv, UniqueInv, op # Nil, Complete,
         DOMAIN quotaPathAndId' = DOMAIN quotaPathAndId \cup {OpPath},
         UNCHANGED <<mode, todo, dirs>>
  PROVE  UniqueInv'
<1>1. /\ TypeOK /\ ModeInv /\ OpInv /\ TodoInv /\ ForeignUnowned
      /\ QuotasOnline /\ IdPoolExact /\ TrackedDirHasId /\ QuotasHaveDirs
      /\ IdsKnown /\ OneDirPerVolume /\ DirsAccounted /\ AllTracked
  BY DEF Inv, UniqueInv
<1>2. mode = "xfs" /\ todo = {}
  BY <1>1 DEF ModeInv
<1>3. /\ op' = Nil
      /\ DOMAIN quotas' = DOMAIN quotas \cup {op.vol}
      /\ quotas'[op.vol] = [disk |-> op.disk, hard |-> op.size]
      /\ \A w \in DOMAIN quotas \ {op.vol} : quotas'[w] = quotas[w]
  BY <1>1, CompleteFacts
<1>4. /\ \A w \in DOMAIN quotas \ {op.vol} :
            <<quotas'[w].disk, w>> = PathOf(w)
      /\ <<quotas'[op.vol].disk, op.vol>> = OpPath
  BY <1>3 DEF PathOf, OpPath
<1>5. op.kind # "get" => op.vol \in DOMAIN quotas /\ PathOf(op.vol) = OpPath
  BY <1>1 DEF OpInv, PathOf, OpPath, TypeOK, Op
<1>6. op.kind = "get" => op.vol \notin DOMAIN quotas
  BY <1>1 DEF OpInv
<1>7. DirIdsUnique' /\ OneDirPerVolume'
  BY DEF UniqueInv, DirIdsUnique, OneDirPerVolume, VolumeDirs
<1>8. IdsKnown'
  BY <1>1, <1>2 DEF IdsKnown, Working
<1>9. DirsAccounted'
  <2>1. {PathOf(w) : w \in DOMAIN quotas}' =
          {PathOf(w) : w \in DOMAIN quotas} \cup {OpPath}
    <3>1. {PathOf(w) : w \in DOMAIN quotas}' =
            {<<quotas'[w].disk, w>> : w \in DOMAIN quotas'}
      BY DEF PathOf
    <3>. QED
      BY <1>3, <1>4, <1>5, <1>6, <3>1
  <2>2. VolumeDirs' = VolumeDirs /\ OpDirs' = {}
    BY <1>3 DEF VolumeDirs, OpDirs
  <2>3. VolumeDirs = {PathOf(w) : w \in DOMAIN quotas} \cup OpDirs
    BY <1>1, <1>2 DEF DirsAccounted, Working
  <2>4. VolumeDirs = {PathOf(w) : w \in DOMAIN quotas} \cup {OpPath}
    BY <1>5, <2>3 DEF OpDirs
  <2>. QED
    BY <1>2, <2>1, <2>2, <2>4 DEF DirsAccounted
<1>10. AllTracked'
  <2>1. \A w \in DOMAIN quotas' :
          <<quotas'[w].disk, w>> \in DOMAIN quotaPathAndId'
    BY <1>1, <1>3, <1>4 DEF AllTracked, Untracked
  <2>. QED
    BY <1>3, <2>1 DEF AllTracked, Untracked, PathOf
<1>. QED
  BY <1>7, <1>8, <1>9, <1>10 DEF UniqueInv

\* The volume of an operation with an untracked path is a new one.
LEMMA UntrackedOpIsGet ==
  ASSUME Inv, UniqueInv, op # Nil, OpPath \notin DOMAIN quotaPathAndId
  PROVE  op.kind = "get" /\ op.vol \notin DOMAIN quotas
<1>1. OpInv /\ AllTracked /\ op \in Op
  BY DEF Inv, UniqueInv, TypeOK
<1>2. op.kind \in {"get", "expand"}
  BY <1>1 DEF Op
<1>3. op.kind # "expand"
  BY <1>1 DEF OpInv, AllTracked, Untracked, PathOf, OpPath
<1>. QED
  BY <1>1, <1>2, <1>3 DEF OpInv

\* The fresh id is on no directory, since every id in use is known.
LEMMA SetProjectIdUnique ==
  ASSUME Inv, Inv', UniqueInv, SetProjectId
  PROVE  UniqueInv'
<1>1. /\ TypeOK /\ ModeInv /\ OpInv /\ TodoInv /\ ForeignUnowned
      /\ QuotasOnline /\ IdPoolExact /\ TrackedDirHasId /\ QuotasHaveDirs
      /\ IdsKnown /\ OneDirPerVolume /\ DirsAccounted /\ AllTracked
  BY DEF Inv, UniqueInv
<1>2. /\ op # Nil /\ op.id = Nil
      /\ OpPath \notin DOMAIN quotaPathAndId
      /\ OpPath \in DOMAIN dirs
      /\ UNCHANGED <<mode, todo, quotas, quotaPathAndId>>
  BY DEF SetProjectId, AllocateNext
<1>3. PICK i \in ProjId \ allocated :
        /\ dirs' = [dirs EXCEPT ![OpPath] = i]
        /\ op' = [op EXCEPT !.id = i]
  BY DEF SetProjectId, AllocateNext
<1>4. /\ op' # Nil /\ op'.id = i /\ op'.kind = op.kind /\ i # Nil
      /\ op'.disk = op.disk /\ op'.vol = op.vol
  BY <1>1, <1>2, <1>3, NilAssumption DEF TypeOK, Op, DirId
<1>5. OpPath' = OpPath /\ OpDirs' = OpDirs
  BY <1>2, <1>4 DEF OpPath, OpDirs
<1>6. /\ DOMAIN dirs' = DOMAIN dirs
      /\ VolumeDirs' = VolumeDirs
      /\ \A p \in DOMAIN dirs \ {OpPath} : dirs'[p] = dirs[p]
  BY <1>3 DEF VolumeDirs
<1>7. mode = "xfs"
  BY <1>1, <1>2 DEF ModeInv
<1>8. IdsKnown'
  BY <1>1, <1>2, <1>4, <1>5, <1>6, <1>7 DEF IdsKnown, Working
<1>9. DirIdsUnique'
  <2>1. mode' = "xfs"
    BY <1>2, <1>7
  <2>2. (Inv /\ IdsKnown /\ mode = "xfs" => DirIdsUnique)'
    BY KnownIdsUnique, PTL
  <2>. QED
    BY <1>8, <2>1, <2>2
<1>10. OneDirPerVolume'
  BY <1>1, <1>6 DEF OneDirPerVolume
<1>11. DirsAccounted'
  BY <1>1, <1>2, <1>5, <1>6 DEF DirsAccounted, Working, PathOf
<1>12. AllTracked'
  BY <1>1, <1>2, <1>5 DEF AllTracked, Untracked, PathOf
<1>. QED
  BY <1>8, <1>9, <1>10, <1>11, <1>12 DEF UniqueInv

\* A failed operation takes its directory away again.
LEMMA AbortUnique ==
  ASSUME DisksWork, Inv, UniqueInv, op # Nil, Abort,
         OpPath \notin DOMAIN quotaPathAndId,
         UNCHANGED <<mode, todo, quotas, quotaPathAndId>>
  PROVE  UniqueInv'
<1>1. /\ TypeOK /\ ModeInv /\ OpInv /\ TodoInv /\ ForeignUnowned
      /\ QuotasOnline /\ IdPoolExact /\ TrackedDirHasId /\ QuotasHaveDirs
      /\ IdsKnown /\ OneDirPerVolume /\ DirsAccounted /\ AllTracked
  BY DEF Inv, UniqueInv
<1>2. op.kind = "get" /\ op.vol \notin DOMAIN quotas
  BY UntrackedOpIsGet
<1>3. op' = Nil /\ dirs' = Drop(dirs, OpPath)
  BY <1>2 DEF Abort, DisksWork
<1>4. /\ DOMAIN dirs' = DOMAIN dirs \ {OpPath}
      /\ \A p \in DOMAIN dirs' : dirs'[p] = dirs[p]
  BY <1>3 DEF Drop, Restrict
<1>5. VolumeDirs' = VolumeDirs \ {OpPath}
  BY <1>4 DEF VolumeDirs
<1>6. mode = "xfs" /\ todo = {}
  BY <1>1 DEF ModeInv
<1>7. DirIdsUnique' /\ OneDirPerVolume'
  BY <1>1, <1>4, <1>5 DEF UniqueInv, DirIdsUnique, OneDirPerVolume
<1>8. IdsKnown'
  BY <1>1, <1>4, <1>6 DEF IdsKnown, Working
<1>9. DirsAccounted'
  <2>1. OpPath \notin {PathOf(w) : w \in DOMAIN quotas}
    BY <1>2 DEF PathOf, OpPath
  <2>2. VolumeDirs = {PathOf(w) : w \in DOMAIN quotas} \cup {OpPath}
    BY <1>1, <1>2, <1>6 DEF DirsAccounted, Working, OpDirs
  <2>3. VolumeDirs' = {PathOf(w) : w \in DOMAIN quotas}
    BY <1>5, <2>1, <2>2
  <2>4. OpDirs' = {}
    BY <1>3 DEF OpDirs
  <2>. QED
    BY <1>6, <2>3, <2>4 DEF DirsAccounted, PathOf
<1>10. AllTracked'
  BY <1>1, <1>3 DEF AllTracked, Untracked, PathOf
<1>. QED
  BY <1>7, <1>8, <1>9, <1>10 DEF UniqueInv

\* A release takes the volume's only directory away.
LEMMA ReleaseVolumePathUnique ==
  ASSUME Inv, UniqueInv, NEW v \in Volume, ReleaseVolumePath(v)
  PROVE  UniqueInv'
<1>1. /\ TypeOK /\ ModeInv /\ OpInv /\ TodoInv /\ ForeignUnowned
      /\ QuotasOnline /\ IdPoolExact /\ TrackedDirHasId /\ QuotasHaveDirs
      /\ IdsKnown /\ OneDirPerVolume /\ DirsAccounted /\ AllTracked
  BY DEF Inv, UniqueInv
<1>2. /\ mode = "xfs" /\ op = Nil /\ todo = {}
      /\ v \in DOMAIN quotas
      /\ ForgetPath(PathOf(v))
      /\ dirs' = Drop(dirs, PathOf(v))
      /\ quotas' = Drop(quotas, v)
      /\ UNCHANGED <<mode, todo, op>>
  BY <1>1 DEF ReleaseVolumePath, Serving, ModeInv
<1>3. DOMAIN quotaPathAndId' = DOMAIN quotaPathAndId \ {PathOf(v)}
  BY <1>2 DEF ForgetPath, ReleaseId, Drop, Restrict
<1>4. /\ DOMAIN dirs' = DOMAIN dirs \ {PathOf(v)}
      /\ \A p \in DOMAIN dirs' : dirs'[p] = dirs[p]
  BY <1>2 DEF Drop, Restrict
<1>5. /\ DOMAIN quotas' = DOMAIN quotas \ {v}
      /\ \A w \in DOMAIN quotas' : <<quotas'[w].disk, w>> = PathOf(w)
  BY <1>2 DEF Drop, Restrict, PathOf
<1>6. VolumeDirs' = VolumeDirs \ {PathOf(v)}
  BY <1>4 DEF VolumeDirs
<1>7. \A w \in DOMAIN quotas : w # v => PathOf(w) # PathOf(v)
  BY DEF PathOf
<1>8. DirIdsUnique' /\ OneDirPerVolume'
  BY <1>1, <1>4, <1>6 DEF UniqueInv, DirIdsUnique, OneDirPerVolume
<1>9. IdsKnown'
  BY <1>1, <1>2, <1>3, <1>4 DEF IdsKnown, Working
<1>10. DirsAccounted'
  <2>1. VolumeDirs = {PathOf(w) : w \in DOMAIN quotas}
    BY <1>1, <1>2 DEF DirsAccounted, Working, OpDirs
  <2>2. VolumeDirs' = {<<quotas'[w].disk, w>> : w \in DOMAIN quotas'}
    BY <1>5, <1>6, <1>7, <2>1
  <2>3. OpDirs' = {}
    BY <1>2 DEF OpDirs
  <2>. QED
    BY <1>2, <2>2, <2>3 DEF DirsAccounted, PathOf
<1>11. AllTracked'
  <2>1. \A w \in DOMAIN quotas' :
          <<quotas'[w].disk, w>> \in DOMAIN quotaPathAndId'
    BY <1>1, <1>3, <1>5, <1>7 DEF AllTracked, Untracked
  <2>. QED
    BY <1>2, <2>1 DEF AllTracked, Untracked, PathOf
<1>. QED
  BY <1>8, <1>9, <1>10, <1>11 DEF UniqueInv

\* While the manager is not working, only the disks matter.
LEMMA NotWorkingUnique ==
  ASSUME UniqueInv, mode' \in {"down", "fake"}, quotas' = EmptyMap,
         op' = Nil, UNCHANGED dirs
  PROVE  UniqueInv'
<1>1. DirIdsUnique' /\ OneDirPerVolume'
  BY DEF UniqueInv, DirIdsUnique, OneDirPerVolume, VolumeDirs
<1>2. IdsKnown' /\ DirsAccounted'
  BY DEF IdsKnown, DirsAccounted, Working
<1>3. AllTracked'
  BY EmptyMapFacts DEF AllTracked, Untracked
<1>. QED
  BY <1>1, <1>2, <1>3 DEF UniqueInv

\* At a start every directory is listed, so none is unknown.
LEMMA StartUnique ==
  ASSUME DisksWork, Inv, UniqueInv, Start
  PROVE  UniqueInv'
<1>1. /\ TypeOK /\ ModeInv /\ OpInv /\ TodoInv /\ ForeignUnowned
      /\ QuotasOnline /\ IdPoolExact /\ TrackedDirHasId /\ QuotasHaveDirs
      /\ IdsKnown /\ OneDirPerVolume /\ DirsAccounted /\ AllTracked
  BY DEF Inv, UniqueInv
<1>2. /\ mode' = "restoring"
      /\ UNCHANGED <<quotas, quotaPathAndId, op, dirs>>
      /\ op = Nil /\ DOMAIN quotas = {}
  BY <1>1, EmptyMapFacts DEF Start, GetSubDirs, ModeInv
<1>3. todo' = {p \in DOMAIN dirs : p[1] \in Disk}
  BY DEF Start, GetSubDirs, DisksWork
<1>4. todo' = DOMAIN dirs
  BY <1>1, <1>3 DEF TypeOK, IsMap, Path
<1>5. DirIdsUnique' /\ OneDirPerVolume'
  BY <1>2 DEF UniqueInv, DirIdsUnique, OneDirPerVolume, VolumeDirs
<1>6. IdsKnown'
  BY <1>2, <1>4 DEF IdsKnown
<1>7. DirsAccounted'
  <2>1. OpDirs' = {} /\ VolumeDirs' = VolumeDirs
    BY <1>2 DEF OpDirs, VolumeDirs
  <2>2. VolumeDirs \subseteq todo'
    BY <1>4 DEF VolumeDirs
  <2>3. {PathOf(w) : w \in DOMAIN quotas}' = {}
    BY <1>2
  <2>. QED
    BY <2>1, <2>2, <2>3 DEF DirsAccounted
<1>8. AllTracked'
  BY <1>2 DEF AllTracked, Untracked
<1>. QED
  BY <1>5, <1>6, <1>7, <1>8 DEF UniqueInv

\* A loaded path is the only one of its volume.
LEMMA LoadPathUnique ==
  ASSUME Inv, UniqueInv, NEW p \in todo, LoadPath(p)
  PROVE  UniqueInv'
<1>1. /\ TypeOK /\ ModeInv /\ OpInv /\ TodoInv /\ ForeignUnowned
      /\ QuotasOnline /\ IdPoolExact /\ TrackedDirHasId /\ QuotasHaveDirs
      /\ IdsKnown /\ OneDirPerVolume /\ DirsAccounted /\ AllTracked
  BY DEF Inv, UniqueInv
<1>2. /\ mode = "restoring" /\ op = Nil
      /\ dirs[p] \in ProjId
      /\ quotaPathAndId' = Put(quotaPathAndId, p, dirs[p])
      /\ quotas' = Put(quotas, p[2], [disk |-> p[1],
                                      hard |-> limit[p[1]][dirs[p]]])
      /\ todo' = todo \ {p}
      /\ UNCHANGED <<mode, op, dirs>>
  BY <1>1 DEF LoadPath, CanLoad, ModeInv
<1>3. /\ p \in DOMAIN dirs /\ p \notin DOMAIN quotaPathAndId
      /\ p = <<p[1], p[2]>> /\ p \in VolumeDirs
  <2>1. p \in DOMAIN dirs /\ p \notin DOMAIN quotaPathAndId
    BY <1>1 DEF TodoInv
  <2>2. p = <<p[1], p[2]>>
    BY <1>1 DEF TypeOK, Path
  <2>. QED
    BY <1>1, <1>2, <2>1, <2>2, NilAssumption DEF VolumeDirs, ForeignUnowned
<1>4. DOMAIN quotaPathAndId' = DOMAIN quotaPathAndId \cup {p}
  BY <1>2 DEF Put
<1>5. /\ DOMAIN quotas' = DOMAIN quotas \cup {p[2]}
      /\ <<quotas'[p[2]].disk, p[2]>> = p
      /\ \A w \in DOMAIN quotas \ {p[2]} : <<quotas'[w].disk, w>> = PathOf(w)
  BY <1>2, <1>3 DEF Put, PathOf
<1>6. VolumeDirs = {PathOf(w) : w \in DOMAIN quotas} \cup (todo \cap VolumeDirs)
  BY <1>1, <1>2 DEF DirsAccounted, Working, OpDirs
<1>7. p[2] \notin DOMAIN quotas
  <2>1. ASSUME p[2] \in DOMAIN quotas PROVE FALSE
    <3>1. PathOf(p[2]) \in VolumeDirs /\ PathOf(p[2])[2] = p[2]
      BY <1>6, <2>1 DEF PathOf
    <3>2. PathOf(p[2]) = p
      BY <1>1, <1>3, <3>1 DEF OneDirPerVolume
    <3>. QED
      BY <1>1, <1>3, <2>1, <3>2 DEF AllTracked, Untracked
  <2>. QED
    BY <2>1
<1>8. DirIdsUnique' /\ OneDirPerVolume' /\ VolumeDirs' = VolumeDirs
  BY <1>2 DEF UniqueInv, DirIdsUnique, OneDirPerVolume, VolumeDirs
<1>9. IdsKnown'
  BY <1>1, <1>2, <1>4 DEF IdsKnown, Working
<1>10. DirsAccounted'
  <2>1. {<<quotas'[w].disk, w>> : w \in DOMAIN quotas'} =
          {PathOf(w) : w \in DOMAIN quotas} \cup {p}
    BY <1>5, <1>7
  <2>2. OpDirs' = {}
    BY <1>2 DEF OpDirs
  <2>3. VolumeDirs = {<<quotas'[w].disk, w>> : w \in DOMAIN quotas'}
                      \cup (todo' \cap VolumeDirs)
    BY <1>2, <1>3, <1>6, <2>1
  <2>. QED
    BY <1>8, <2>2, <2>3 DEF DirsAccounted, PathOf
<1>11. AllTracked'
  <2>1. \A w \in DOMAIN quotas' :
          <<quotas'[w].disk, w>> \in DOMAIN quotaPathAndId'
    BY <1>1, <1>4, <1>5 DEF AllTracked, Untracked
  <2>. QED
    BY <1>2, <2>1 DEF AllTracked, Untracked, PathOf
<1>. QED
  BY <1>8, <1>9, <1>10, <1>11 DEF UniqueInv

\* A foreign directory is no volume's and has no id.
LEMMA MakeForeignDirUnique ==
  ASSUME Inv, UniqueInv, NEW d \in Disk, MakeForeignDir(d)
  PROVE  UniqueInv'
<1>1. /\ TypeOK /\ ModeInv /\ OpInv /\ TodoInv /\ ForeignUnowned
      /\ QuotasOnline /\ IdPoolExact /\ TrackedDirHasId /\ QuotasHaveDirs
      /\ IdsKnown /\ OneDirPerVolume /\ DirsAccounted /\ AllTracked
  BY DEF Inv, UniqueInv
<1>2. /\ <<d, ForeignName>> \notin DOMAIN dirs
      /\ dirs' = Put(dirs, <<d, ForeignName>>, Nil)
      /\ UNCHANGED <<mode, todo, quotas, quotaPathAndId, op>>
  BY DEF MakeForeignDir, memory
<1>3. /\ DOMAIN dirs' = DOMAIN dirs \cup {<<d, ForeignName>>}
      /\ dirs'[<<d, ForeignName>>] = Nil
      /\ \A p \in DOMAIN dirs : dirs'[p] = dirs[p]
  BY <1>2 DEF Put
<1>4. VolumeDirs' = VolumeDirs
  BY <1>3 DEF VolumeDirs
<1>5. DirIdsUnique'
  BY <1>3, NilAssumption DEF UniqueInv, DirIdsUnique
<1>6. OneDirPerVolume' /\ AllTracked'
  BY <1>1, <1>2, <1>4 DEF OneDirPerVolume, AllTracked, Untracked, PathOf, OpPath
<1>7. IdsKnown'
  BY <1>1, <1>2, <1>3, NilAssumption DEF IdsKnown, Working, OpPath
<1>8. DirsAccounted'
  BY <1>1, <1>2, <1>4 DEF DirsAccounted, Working, PathOf, OpDirs, OpPath
<1>. QED
  BY <1>5, <1>6, <1>7, <1>8 DEF UniqueInv

\* Every step keeps UniqueInv when removals, listings and mounts work.
LEMMA UniqueStep ==
  ASSUME DisksWork, Inv, Inv', UniqueInv, [Next]_vars
  PROVE  UniqueInv'
<1>1. ASSUME NEW v \in Volume, NEW size \in Sizes, GetVolumeQuotaPath(v, size)
      PROVE  UniqueInv'
  BY <1>1, GetVolumeQuotaPathUnique
<1>2. ASSUME NEW v \in Volume, NEW size \in Sizes, ExpandVolume(v, size)
      PROVE  UniqueInv'
  <2>1. /\ op = Nil /\ op'.kind = "expand"
        /\ UNCHANGED <<mode, todo, quotas, quotaPathAndId, dirs>>
    BY <1>2 DEF ExpandVolume, Serving
  <2>2. OpDirs' = {}
    BY <2>1 DEF OpDirs
  <2>. QED
    BY <2>1, <2>2, QuietStepUnique
<1>3. CASE SetProjectQuotaKnownPath
  <2>1. DOMAIN quotaPathAndId' = DOMAIN quotaPathAndId \cup {OpPath}
    BY <1>3 DEF SetProjectQuotaKnownPath
  <2>. QED
    BY <1>3, <2>1, CompleteUnique DEF SetProjectQuotaKnownPath
<1>4. CASE SetProjectId
  BY <1>4, SetProjectIdUnique
<1>5. CASE SetProjectIdFails
  BY <1>5, AbortUnique DEF SetProjectIdFails
<1>6. CASE SetProjectLimit
  <2>1. DOMAIN quotaPathAndId' = DOMAIN quotaPathAndId \cup {OpPath}
    BY <1>6 DEF SetProjectLimit, Put
  <2>. QED
    BY <1>6, <2>1, CompleteUnique DEF SetProjectLimit
<1>7. CASE SetProjectLimitFails
  <2>1. OpPath \notin DOMAIN quotaPathAndId
    BY <1>7 DEF SetProjectLimitFails, ReleaseId, Inv, OpInv
  <2>. QED
    BY <1>7, <2>1, AbortUnique DEF SetProjectLimitFails, ReleaseId
<1>8. ASSUME NEW v \in Volume, ReleaseVolumePath(v)
      PROVE  UniqueInv'
  BY <1>8, ReleaseVolumePathUnique
<1>9. ASSUME NEW v \in Volume, ReleaseVolumePathFails(v)
      PROVE  UniqueInv'
  BY <1>9 DEF ReleaseVolumePathFails, DisksWork
<1>10. CASE ListPathQuotaInfos
  BY <1>10 DEF ListPathQuotaInfos, UniqueInv, AllTracked
<1>11. ASSUME NEW d \in Disk, NEW b \in BOOLEAN,
              SetQuotaDiskDisabledState(d, b)
       PROVE  UniqueInv'
  <2>1. /\ op = Nil /\ op' = Nil
        /\ UNCHANGED <<mode, todo, quotas, quotaPathAndId, dirs>>
    BY <1>11 DEF SetQuotaDiskDisabledState, Serving
  <2>2. OpDirs' = {}
    BY <2>1 DEF OpDirs
  <2>. QED
    BY <2>1, <2>2, QuietStepUnique
<1>12. CASE Crash
  BY <1>12, NotWorkingUnique DEF Crash, Forget
<1>13. CASE Start
  BY <1>13, StartUnique
<1>14. CASE StartFails
  BY <1>14, NotWorkingUnique DEF StartFails, memory, Inv, ModeInv
<1>15. ASSUME NEW p \in todo, LoadPath(p)
       PROVE  UniqueInv'
  BY <1>15, LoadPathUnique
<1>16. ASSUME NEW p \in todo, LoadPathFails(p)
       PROVE  UniqueInv'
  BY <1>16, NotWorkingUnique DEF LoadPathFails, Forget
<1>17. CASE FinishRestore
  <2>1. /\ mode = "restoring" /\ mode' = "xfs"
        /\ UNCHANGED <<todo, quotas, quotaPathAndId, op, dirs>>
    BY <1>17 DEF FinishRestore
  <2>2. DirIdsUnique' /\ OneDirPerVolume' /\ AllTracked'
    BY <2>1 DEF UniqueInv, DirIdsUnique, OneDirPerVolume, VolumeDirs,
                AllTracked, Untracked, PathOf, OpPath
  <2>3. IdsKnown' /\ DirsAccounted'
    BY <2>1 DEF UniqueInv, IdsKnown, DirsAccounted, Working, VolumeDirs,
                PathOf, OpDirs, OpPath
  <2>. QED
    BY <2>2, <2>3 DEF UniqueInv
<1>18. ASSUME NEW d \in Disk, MakeForeignDir(d)
       PROVE  UniqueInv'
  BY <1>18, MakeForeignDirUnique
<1>19. CASE UNCHANGED vars
  BY <1>19 DEF vars, memory, UniqueInv, DirIdsUnique, OneDirPerVolume,
       VolumeDirs, AllTracked, Untracked, PathOf, OpPath, IdsKnown,
       DirsAccounted, Working, OpDirs
<1>. QED
  BY <1>1, <1>2, <1>3, <1>4, <1>5, <1>6, <1>7, <1>8, <1>9, <1>10, <1>11,
     <1>12, <1>13, <1>14, <1>15, <1>16, <1>17, <1>18, <1>19 DEF Next

\* On an empty node there is nothing to tell apart.
LEMMA InitUnique == Init => UniqueInv
  BY EmptyMapFacts
    DEF Init, UniqueInv, DirIdsUnique, OneDirPerVolume, VolumeDirs, AllTracked,
        Untracked, IdsKnown, DirsAccounted, Working

\* UniqueInv holds throughout, crashes at any point included.
THEOREM UniqueInvariance ==
  ASSUME DisksWork
  PROVE  Spec => [](Inv /\ UniqueInv)
<1>1. Inv /\ Inv' /\ UniqueInv /\ [Next]_vars => UniqueInv'
  BY UniqueStep
<1>. QED
  BY <1>1, InitUnique, Invariance, PTL DEF Spec

\* If removals, listings and the mounts at start succeed, no two directories
\* of the node share a project id, whatever else fails and wherever the
\* process dies.
THEOREM ProjectIdsUnique ==
  ASSUME DisksWork
  PROVE  Spec => []DirIdsUnique
<1>1. UniqueInv => DirIdsUnique
  BY DEF UniqueInv
<1>. QED
  BY <1>1, UniqueInvariance, PTL

\* Under the same assumption the directories and m.quotas agree whenever no
\* operation is under way.
THEOREM CachesMatchDisks ==
  ASSUME DisksWork
  PROVE  Spec => []DirsMatchQuotas
<1>1. Inv /\ UniqueInv => DirsMatchQuotas
  BY DEF Inv, ModeInv, UniqueInv, DirsAccounted, DirsMatchQuotas, Serving,
         Working, OpDirs
<1>. QED
  BY <1>1, UniqueInvariance, PTL

-----------------------------------------------------------------------------
(* CleanInv is inductive relative to Inv and UniqueInv. *)

\* The volumes' limits and sizes, without the operator that names the path.
LEMMA LimitEnforcedUnfolded ==
  ASSUME AllTracked
  PROVE  LimitEnforced <=>
           \A w \in DOMAIN quotas :
             LET l == limit[quotas[w].disk]
                           [quotaPathAndId[<<quotas[w].disk, w>>]]
             IN  l # 0 /\ l <= quotas[w].hard
  BY DEF AllTracked, LimitEnforced, Tracked, Untracked, Limit, PathOf

\* Starting an operation leaves the limits alone.
LEMMA BeginClean ==
  ASSUME Inv, UniqueInv, CleanInv, NEW v \in Volume, NEW size \in Sizes,
         GetVolumeQuotaPath(v, size) \/ ExpandVolume(v, size)
  PROVE  CleanInv'
<1>1. /\ TypeOK /\ ModeInv /\ OpInv /\ TodoInv /\ IdPoolExact
      /\ TrackedDirHasId /\ DirIdsUnique /\ DirsAccounted /\ AllTracked
      /\ RestoreSucceeds /\ DirsComplete /\ OpGrows /\ LimitEnforced
  BY DEF Inv, UniqueInv, CleanInv
<1>2. /\ op = Nil
      /\ UNCHANGED <<mode, quotas, quotaPathAndId, limit>>
  BY DEF GetVolumeQuotaPath, ExpandVolume, Serving
<1>3. RestoreSucceeds' /\ LimitEnforced'
  BY <1>1, <1>2 DEF RestoreSucceeds, LimitEnforced, Tracked, Untracked,
                    Limit, PathOf
<1>4. CASE GetVolumeQuotaPath(v, size)
  <2>1. PICK d \in FirstDisks(AvailableDisks(size)) :
          /\ dirs' = IF <<d, v>> \in DOMAIN dirs THEN dirs
                     ELSE Put(dirs, <<d, v>>, Nil)
          /\ op' = [kind |-> "get", disk |-> d, vol |-> v, size |-> size,
                    id |-> Nil]
    BY <1>4 DEF GetVolumeQuotaPath
  <2>2. op' \in Op /\ op' # Nil
    <3>1. d \in Disk /\ size \in Uint64
      BY <1>1, SizesAssumption DEF FirstDisks, AvailableDisks, TypeOK, IsMap
    <3>. QED
      BY <2>1, <3>1, NilAssumption DEF Op, DirId
  <2>3. OpPath' = <<d, v>> /\ op'.kind = "get" /\ op'.size = size
    BY <2>1 DEF OpPath
  <2>4. /\ DOMAIN dirs' \subseteq DOMAIN dirs \cup {<<d, v>>}
        /\ \A p \in DOMAIN dirs : dirs'[p] = dirs[p]
    BY <2>1 DEF Put
  <2>5. DirsComplete'
    BY <1>1, <1>2, <2>2, <2>3, <2>4 DEF DirsComplete
  <2>6. OpGrows'
    BY <2>3 DEF OpGrows
  <2>. QED
    BY <1>3, <2>5, <2>6 DEF CleanInv
<1>5. CASE ExpandVolume(v, size)
  <2>1. /\ dirs' = dirs /\ quotas[v].hard <= size
        /\ op'.kind = "expand" /\ op'.vol = v /\ op'.size = size
    BY <1>5 DEF ExpandVolume
  <2>2. DirsComplete' /\ OpGrows'
    BY <1>1, <1>2, <2>1 DEF DirsComplete, OpGrows
  <2>. QED
    BY <1>3, <2>2 DEF CleanInv
<1>. QED
  BY <1>4, <1>5

\* Only an expansion finds its path known, and it does not shrink the volume.
LEMMA KnownPathClean ==
  ASSUME Inv, UniqueInv, UniqueInv', CleanInv, SetProjectQuotaKnownPath
  PROVE  CleanInv'
<1>1. /\ TypeOK /\ ModeInv /\ OpInv /\ TodoInv /\ IdPoolExact
      /\ TrackedDirHasId /\ DirIdsUnique /\ DirsAccounted /\ AllTracked
      /\ RestoreSucceeds /\ DirsComplete /\ OpGrows /\ LimitEnforced
  BY DEF Inv, UniqueInv, CleanInv
<1>2. /\ op # Nil /\ Complete /\ OpPath \in DOMAIN quotaPathAndId
      /\ UNCHANGED <<mode, quotaPathAndId, dirs, limit>>
  BY DEF SetProjectQuotaKnownPath
<1>3. /\ op' = Nil
      /\ DOMAIN quotas' = DOMAIN quotas \cup {op.vol}
      /\ quotas'[op.vol] = [disk |-> op.disk, hard |-> op.size]
      /\ \A w \in DOMAIN quotas \ {op.vol} : quotas'[w] = quotas[w]
  BY <1>1, <1>2, CompleteFacts
<1>4. op.kind = "expand"
  BY <1>1, <1>2 DEF AllTracked, TypeOK, Op
<1>5. /\ op.vol \in DOMAIN quotas /\ quotas[op.vol].disk = op.disk
      /\ quotas[op.vol].hard <= op.size
  BY <1>1, <1>2, <1>4 DEF OpInv, OpGrows
<1>6. \A w \in DOMAIN quotas' :
        /\ w \in DOMAIN quotas
        /\ quotas'[w].disk = quotas[w].disk
        /\ quotas[w].hard <= quotas'[w].hard
  <2>1. \A w \in DOMAIN quotas : quotas[w].hard \in Nat
    BY <1>1, SizesAssumption DEF TypeOK, IsMap, PathQuotaInfo, Uint64
  <2>. QED
    BY <1>3, <1>5, <2>1
<1>7. LimitEnforced'
  <2>1. \A w \in DOMAIN quotas :
          LET l == limit[quotas[w].disk][quotaPathAndId[<<quotas[w].disk, w>>]]
          IN  l \in Nat /\ l # 0 /\ l <= quotas[w].hard
    <3>1. \A w \in DOMAIN quotas :
            /\ quotas[w].disk \in Disk
            /\ <<quotas[w].disk, w>> \in DOMAIN quotaPathAndId
            /\ quotaPathAndId[<<quotas[w].disk, w>>] \in ProjId
      BY <1>1 DEF AllTracked, Untracked, PathOf, TypeOK, IsMap, PathQuotaInfo
    <3>2. \A d \in Disk, i \in ProjId : limit[d][i] \in Nat
      BY <1>1, SizesAssumption DEF TypeOK, Uint64
    <3>. QED
      BY <1>1, <3>1, <3>2, LimitEnforcedUnfolded
  <2>2. \A w \in DOMAIN quotas' : quotas[w].hard \in Nat /\ quotas'[w].hard \in Nat
    <3>1. IsMap(quotas', Volume, PathQuotaInfo)
      BY <1>1, <1>2, CompleteFacts
    <3>. QED
      BY <1>1, <1>6, <3>1, SizesAssumption
        DEF TypeOK, IsMap, PathQuotaInfo, Uint64
  <2>3. \A w \in DOMAIN quotas' :
          LET l == limit'[quotas'[w].disk]
                         [quotaPathAndId'[<<quotas'[w].disk, w>>]]
          IN  l # 0 /\ l <= quotas'[w].hard
    <3>1. SUFFICES ASSUME NEW w \in DOMAIN quotas'
                   PROVE  LET l == limit'[quotas'[w].disk]
                                   [quotaPathAndId'[<<quotas'[w].disk, w>>]]
                          IN  l # 0 /\ l <= quotas'[w].hard
      OBVIOUS
    <3>. DEFINE l == limit[quotas[w].disk][quotaPathAndId[<<quotas[w].disk, w>>]]
    <3>2. limit'[quotas'[w].disk][quotaPathAndId'[<<quotas'[w].disk, w>>]] = l
      BY <1>2, <1>6
    <3>3. /\ l \in Nat /\ l # 0 /\ l <= quotas[w].hard
          /\ quotas[w].hard \in Nat /\ quotas'[w].hard \in Nat
          /\ quotas[w].hard <= quotas'[w].hard
      BY <1>6, <2>1, <2>2
    <3>. HIDE DEF l
    <3>. QED
      BY <3>2, <3>3
  <2>. QED
    BY <2>3 DEF LimitEnforced, Tracked, Untracked, Limit, PathOf
<1>8. RestoreSucceeds' /\ OpGrows'
  BY <1>1, <1>2, <1>3 DEF RestoreSucceeds, OpGrows
<1>9. DirsComplete'
  BY <1>1, <1>2, <1>4 DEF DirsComplete
<1>. QED
  BY <1>7, <1>8, <1>9 DEF CleanInv

\* The id goes on the directory that is being made.
LEMMA SetProjectIdClean ==
  ASSUME Inv, UniqueInv, CleanInv, SetProjectId
  PROVE  CleanInv'
<1>1. /\ TypeOK /\ ModeInv /\ OpInv /\ TodoInv /\ IdPoolExact
      /\ TrackedDirHasId /\ DirIdsUnique /\ DirsAccounted /\ AllTracked
      /\ RestoreSucceeds /\ DirsComplete /\ OpGrows /\ LimitEnforced
  BY DEF Inv, UniqueInv, CleanInv
<1>2. /\ op # Nil /\ OpPath \notin DOMAIN quotaPathAndId
      /\ UNCHANGED <<mode, quotas, quotaPathAndId, limit>>
  BY DEF SetProjectId, AllocateNext
<1>3. PICK i \in ProjId \ allocated :
        /\ dirs' = [dirs EXCEPT ![OpPath] = i]
        /\ op' = [op EXCEPT !.id = i]
  BY DEF SetProjectId, AllocateNext
<1>4. /\ op' # Nil /\ op'.kind = op.kind /\ op'.size = op.size
      /\ op'.disk = op.disk /\ op'.vol = op.vol
  BY <1>1, <1>2, <1>3, NilAssumption DEF TypeOK, Op, DirId
<1>5. op.kind = "get"
  BY <1>2, UntrackedOpIsGet
<1>6. RestoreSucceeds' /\ LimitEnforced'
  BY <1>1, <1>2 DEF RestoreSucceeds, LimitEnforced, Tracked, Untracked,
                    Limit, PathOf
<1>7. OpGrows'
  BY <1>1, <1>2, <1>4 DEF OpGrows
<1>8. DirsComplete'
  <2>1. OpPath' = OpPath
    BY <1>4 DEF OpPath
  <2>. QED
    BY <1>1, <1>2, <1>3, <1>4, <1>5, <2>1 DEF DirsComplete
<1>. QED
  BY <1>6, <1>7, <1>8 DEF CleanInv

\* A failed operation leaves no directory without a limit.
LEMMA AbortClean ==
  ASSUME CleanFaults, Inv, UniqueInv, CleanInv, op # Nil, Abort,
         OpPath \notin DOMAIN quotaPathAndId,
         UNCHANGED <<mode, quotas, quotaPathAndId, limit>>
  PROVE  CleanInv'
<1>1. /\ TypeOK /\ ModeInv /\ OpInv /\ TodoInv /\ IdPoolExact
      /\ TrackedDirHasId /\ DirIdsUnique /\ DirsAccounted /\ AllTracked
      /\ RestoreSucceeds /\ DirsComplete /\ OpGrows /\ LimitEnforced
  BY DEF Inv, UniqueInv, CleanInv
<1>2. op.kind = "get"
  BY UntrackedOpIsGet
<1>3. op' = Nil /\ dirs' = Drop(dirs, OpPath)
  BY <1>2 DEF Abort, CleanFaults
<1>4. RestoreSucceeds' /\ LimitEnforced' /\ OpGrows'
  BY <1>1, <1>3 DEF RestoreSucceeds, LimitEnforced, Tracked, Untracked,
                    Limit, PathOf, OpGrows
<1>5. DirsComplete'
  BY <1>1, <1>3 DEF DirsComplete, Drop, Restrict
<1>. QED
  BY <1>4, <1>5 DEF CleanInv

\* The new limit is not zero, within the size, and no other volume's.
LEMMA SetProjectLimitClean ==
  ASSUME SizesAreBlocks, Inv, UniqueInv, UniqueInv', CleanInv, SetProjectLimit
  PROVE  CleanInv'
<1>1. /\ TypeOK /\ ModeInv /\ OpInv /\ TodoInv /\ IdPoolExact
      /\ TrackedDirHasId /\ DirIdsUnique /\ DirsAccounted /\ AllTracked
      /\ RestoreSucceeds /\ DirsComplete /\ OpGrows /\ LimitEnforced
  BY DEF Inv, UniqueInv, CleanInv
<1>2. /\ op # Nil /\ op.id # Nil /\ Complete
      /\ limit' = [limit EXCEPT ![op.disk][op.id] = Truncate(op.size)]
      /\ quotaPathAndId' = Put(quotaPathAndId, OpPath, op.id)
      /\ UNCHANGED <<mode, dirs>>
  BY DEF SetProjectLimit
<1>3. /\ op' = Nil
      /\ DOMAIN quotas' = DOMAIN quotas \cup {op.vol}
      /\ quotas'[op.vol] = [disk |-> op.disk, hard |-> op.size]
      /\ \A w \in DOMAIN quotas \ {op.vol} : quotas'[w] = quotas[w]
  BY <1>1, <1>2, CompleteFacts
<1>4. /\ OpPath \notin DOMAIN quotaPathAndId
      /\ OpPath \in DOMAIN dirs /\ dirs[OpPath] = op.id
      /\ op.id \in ProjId /\ op.disk \in Disk /\ op.size \in Uint64
      /\ op.size \in Sizes
  BY <1>1, <1>2 DEF OpInv, TypeOK, Op, DirId, OpGrows
<1>5. op.kind = "get" /\ op.vol \notin DOMAIN quotas
  BY <1>2, <1>4, UntrackedOpIsGet
<1>6. Truncate(op.size) # 0 /\ Truncate(op.size) <= op.size
  BY <1>4, TruncateFacts DEF SizesAreBlocks
<1>7. /\ limit'[op.disk][op.id] = Truncate(op.size)
      /\ \A d \in Disk, i \in ProjId :
            i # op.id => limit'[d][i] = limit[d][i]
      /\ \A d \in Disk, i \in ProjId :
            limit[d][i] # 0 => limit'[d][i] # 0
  BY <1>1, <1>2, <1>4, <1>6 DEF TypeOK
<1>8. /\ quotaPathAndId'[OpPath] = op.id
      /\ \A p \in DOMAIN quotaPathAndId :
            /\ quotaPathAndId'[p] = quotaPathAndId[p]
            /\ quotaPathAndId[p] \in ProjId /\ quotaPathAndId[p] # op.id
  <2>1. op.id \in OpIds
    BY <1>2 DEF OpIds
  <2>2. \A p \in DOMAIN quotaPathAndId : quotaPathAndId[p] # op.id
    BY <1>1, <2>1 DEF IdPoolExact, Range
  <2>. QED
    BY <1>1, <1>2, <1>4, <2>2 DEF Put, TypeOK, IsMap
<1>9. LimitEnforced'
  <2>1. ASSUME NEW w \in DOMAIN quotas
        PROVE  LET l == limit'[quotas'[w].disk]
                              [quotaPathAndId'[<<quotas'[w].disk, w>>]]
               IN  l # 0 /\ l <= quotas'[w].hard
    <3>1. /\ quotas'[w] = quotas[w] /\ quotas[w].disk \in Disk
          /\ <<quotas[w].disk, w>> \in DOMAIN quotaPathAndId
      BY <1>1, <1>3, <1>5
        DEF TypeOK, IsMap, PathQuotaInfo, AllTracked, Untracked, PathOf
    <3>. QED
      BY <1>1, <1>7, <1>8, <3>1, LimitEnforcedUnfolded
  <2>2. LET l == limit'[quotas'[op.vol].disk]
                       [quotaPathAndId'[<<quotas'[op.vol].disk, op.vol>>]]
        IN  l # 0 /\ l <= quotas'[op.vol].hard
    BY <1>3, <1>6, <1>7, <1>8 DEF OpPath
  <2>3. \A w \in DOMAIN quotas' :
          LET l == limit'[quotas'[w].disk]
                         [quotaPathAndId'[<<quotas'[w].disk, w>>]]
          IN  l # 0 /\ l <= quotas'[w].hard
    BY <1>3, <2>1, <2>2
  <2>. QED
    BY <2>3 DEF LimitEnforced, Tracked, Untracked, Limit, PathOf
<1>10. RestoreSucceeds' /\ OpGrows'
  BY <1>1, <1>2, <1>3 DEF RestoreSucceeds, OpGrows
<1>11. DirsComplete'
  <2>1. SUFFICES ASSUME NEW p \in DOMAIN dirs
                 PROVE  dirs[p] \in ProjId /\ limit'[p[1]][dirs[p]] # 0
    BY <1>2 DEF DirsComplete
  <2>2. CASE p = OpPath
    BY <1>4, <1>6, <1>7, <2>2 DEF OpPath
  <2>3. CASE p # OpPath
    BY <1>1, <1>7, <2>3 DEF DirsComplete, TypeOK, IsMap, Path
  <2>. QED
    BY <2>2, <2>3
<1>. QED
  BY <1>9, <1>10, <1>11 DEF CleanInv

\* A release takes a volume away and leaves the others' limits alone.
LEMMA ReleaseVolumePathClean ==
  ASSUME Inv, UniqueInv, CleanInv, NEW v \in Volume, ReleaseVolumePath(v)
  PROVE  CleanInv'
<1>1. /\ TypeOK /\ ModeInv /\ OpInv /\ TodoInv /\ IdPoolExact
      /\ TrackedDirHasId /\ DirIdsUnique /\ DirsAccounted /\ AllTracked
      /\ RestoreSucceeds /\ DirsComplete /\ OpGrows /\ LimitEnforced
  BY DEF Inv, UniqueInv, CleanInv
<1>2. /\ op = Nil
      /\ quotaPathAndId' = Drop(quotaPathAndId, PathOf(v))
      /\ dirs' = Drop(dirs, PathOf(v))
      /\ quotas' = Drop(quotas, v)
      /\ UNCHANGED <<mode, op, limit>>
  BY DEF ReleaseVolumePath, Serving, ForgetPath, ReleaseId
<1>3. \A w \in DOMAIN quotas' : w \in DOMAIN quotas /\ quotas'[w] = quotas[w]
  BY <1>2 DEF Drop, Restrict
<1>4. \A p \in DOMAIN quotaPathAndId' :
        /\ p \in DOMAIN quotaPathAndId
        /\ quotaPathAndId'[p] = quotaPathAndId[p]
  BY <1>2 DEF Drop, Restrict
<1>5. LimitEnforced'
  BY <1>1, <1>2, <1>3, <1>4 DEF LimitEnforced, Tracked, Untracked, Limit, PathOf
<1>6. RestoreSucceeds' /\ OpGrows'
  BY <1>1, <1>2 DEF RestoreSucceeds, OpGrows
<1>7. DirsComplete'
  BY <1>1, <1>2 DEF DirsComplete, Drop, Restrict
<1>. QED
  BY <1>5, <1>6, <1>7 DEF CleanInv

\* A loaded volume is accounted for with the limit the kernel enforces.
LEMMA LoadPathClean ==
  ASSUME Inv, UniqueInv, CleanInv, NEW p \in todo, LoadPath(p)
  PROVE  CleanInv'
<1>1. /\ TypeOK /\ ModeInv /\ OpInv /\ TodoInv /\ IdPoolExact
      /\ TrackedDirHasId /\ DirIdsUnique /\ DirsAccounted /\ AllTracked
      /\ RestoreSucceeds /\ DirsComplete /\ OpGrows /\ LimitEnforced
  BY DEF Inv, UniqueInv, CleanInv
<1>2. /\ mode = "restoring" /\ op = Nil
      /\ quotaPathAndId' = Put(quotaPathAndId, p, dirs[p])
      /\ quotas' = Put(quotas, p[2], [disk |-> p[1],
                                      hard |-> limit[p[1]][dirs[p]]])
      /\ UNCHANGED <<mode, op, dirs, limit>>
  BY <1>1 DEF LoadPath, ModeInv
<1>3. /\ p \in DOMAIN dirs /\ p \notin DOMAIN quotaPathAndId
      /\ p = <<p[1], p[2]>> /\ p[1] \in Disk
  BY <1>1 DEF TodoInv, TypeOK, Path
<1>4. /\ DOMAIN quotas' = DOMAIN quotas \cup {p[2]}
      /\ quotas'[p[2]].disk = p[1]
      /\ quotas'[p[2]].hard = limit[p[1]][dirs[p]]
      /\ \A w \in DOMAIN quotas \ {p[2]} : quotas'[w] = quotas[w]
  BY <1>2 DEF Put
<1>5. /\ quotaPathAndId'[p] = dirs[p]
      /\ \A q \in DOMAIN quotaPathAndId : quotaPathAndId'[q] = quotaPathAndId[q]
  BY <1>2, <1>3 DEF Put
<1>6. limit[p[1]][dirs[p]] # 0 /\ limit[p[1]][dirs[p]] \in Nat
  BY <1>1, <1>2, <1>3, SizesAssumption DEF DirsComplete, TypeOK, Uint64
<1>7. LimitEnforced'
  <2>1. SUFFICES ASSUME NEW w \in DOMAIN quotas'
                 PROVE  LET l == limit'[quotas'[w].disk]
                                   [quotaPathAndId'[<<quotas'[w].disk, w>>]]
                        IN  l # 0 /\ l <= quotas'[w].hard
    BY DEF LimitEnforced, Tracked, Untracked, Limit, PathOf
  <2>2. CASE w = p[2]
    BY <1>2, <1>3, <1>4, <1>5, <1>6, <2>2
  <2>3. CASE w # p[2]
    <3>1. /\ w \in DOMAIN quotas /\ quotas'[w] = quotas[w]
          /\ <<quotas[w].disk, w>> \in DOMAIN quotaPathAndId
      BY <1>1, <1>4, <2>1, <2>3 DEF AllTracked, Untracked, PathOf
    <3>. QED
      BY <1>1, <1>2, <1>5, <3>1, LimitEnforcedUnfolded
  <2>. QED
    BY <2>2, <2>3
<1>8. RestoreSucceeds' /\ OpGrows' /\ DirsComplete'
  BY <1>1, <1>2 DEF RestoreSucceeds, OpGrows, DirsComplete
<1>. QED
  BY <1>7, <1>8 DEF CleanInv

\* No path fails to load: each has an id, which no other path has.
LEMMA LoadPathSucceeds ==
  ASSUME Inv, UniqueInv, CleanInv, mode = "restoring", NEW p \in todo
  PROVE  CanLoad(p)
<1>1. /\ TypeOK /\ ModeInv /\ OpInv /\ TodoInv /\ IdPoolExact
      /\ TrackedDirHasId /\ DirIdsUnique /\ DirsAccounted /\ AllTracked
      /\ RestoreSucceeds /\ DirsComplete /\ OpGrows /\ LimitEnforced
  BY DEF Inv, UniqueInv, CleanInv
<1>2. op = Nil /\ p \in DOMAIN dirs /\ p \notin DOMAIN quotaPathAndId
  BY <1>1 DEF ModeInv, TodoInv
<1>3. dirs[p] \in ProjId
  BY <1>1, <1>2 DEF DirsComplete
<1>4. dirs[p] \notin allocated
  <2>1. allocated = Range(quotaPathAndId)
    BY <1>1, <1>2 DEF IdPoolExact, OpIds
  <2>2. \A q \in DOMAIN quotaPathAndId : quotaPathAndId[q] # dirs[p]
    BY <1>1, <1>2, <1>3 DEF TrackedDirHasId, DirIdsUnique
  <2>. QED
    BY <2>1, <2>2 DEF Range
<1>. QED
  BY <1>3, <1>4 DEF CanLoad

\* The steps that keep the disks and empty or keep the caches.
LEMMA RestartStepClean ==
  ASSUME Inv, UniqueInv, CleanInv, op = Nil, op' = Nil, mode' # "fake",
         UNCHANGED <<dirs, limit>>,
         \/ quotas' = EmptyMap
         \/ UNCHANGED <<quotas, quotaPathAndId>>
  PROVE  CleanInv'
<1>1. /\ TypeOK /\ ModeInv /\ OpInv /\ TodoInv /\ IdPoolExact
      /\ TrackedDirHasId /\ DirIdsUnique /\ DirsAccounted /\ AllTracked
      /\ RestoreSucceeds /\ DirsComplete /\ OpGrows /\ LimitEnforced
  BY DEF Inv, UniqueInv, CleanInv
<1>2. RestoreSucceeds' /\ OpGrows' /\ DirsComplete'
  BY <1>1 DEF RestoreSucceeds, OpGrows, DirsComplete
<1>3. LimitEnforced'
  <2>1. CASE quotas' = EmptyMap
    BY <2>1, EmptyMapFacts DEF LimitEnforced, Tracked
  <2>2. CASE UNCHANGED <<quotas, quotaPathAndId>>
    BY <1>1, <2>2 DEF LimitEnforced, Tracked, Untracked, Limit, PathOf
  <2>. QED
    BY <2>1, <2>2
<1>. QED
  BY <1>2, <1>3 DEF CleanInv

\* Every step keeps CleanInv under the clean faults.
LEMMA CleanStep ==
  ASSUME CleanFaults, SizesAreBlocks, Inv, Inv', UniqueInv, UniqueInv',
         CleanInv, [Next]_vars
  PROVE  CleanInv'
<1>0. OpInv /\ ModeInv
  BY DEF Inv
<1>1. ASSUME NEW v \in Volume, NEW size \in Sizes,
             GetVolumeQuotaPath(v, size) \/ ExpandVolume(v, size)
      PROVE  CleanInv'
  BY <1>1, BeginClean
<1>2. CASE SetProjectQuotaKnownPath
  BY <1>2, KnownPathClean
<1>3. CASE SetProjectId
  BY <1>3, SetProjectIdClean
<1>4. CASE SetProjectIdFails
  BY <1>4, AbortClean DEF SetProjectIdFails
<1>5. CASE SetProjectLimit
  BY <1>5, SetProjectLimitClean
<1>6. CASE SetProjectLimitFails
  BY <1>0, <1>6, AbortClean DEF SetProjectLimitFails, ReleaseId, OpInv
<1>7. ASSUME NEW v \in Volume, ReleaseVolumePath(v)
      PROVE  CleanInv'
  BY <1>7, ReleaseVolumePathClean
<1>8. ASSUME NEW v \in Volume, ReleaseVolumePathFails(v)
      PROVE  CleanInv'
  BY <1>8 DEF ReleaseVolumePathFails, CleanFaults
<1>9. CASE ListPathQuotaInfos
  BY <1>9 DEF ListPathQuotaInfos, UniqueInv, AllTracked
<1>10. ASSUME NEW d \in Disk, NEW b \in BOOLEAN,
              SetQuotaDiskDisabledState(d, b)
       PROVE  CleanInv'
  BY <1>10, RestartStepClean DEF SetQuotaDiskDisabledState, Serving
<1>11. CASE Crash
  <2>1. op = Nil /\ op' = Nil /\ mode' # "fake"
    BY <1>11 DEF Crash, Forget, CleanFaults
  <2>. QED
    BY <1>11, <2>1, RestartStepClean DEF Crash, Forget
<1>12. CASE Start
  <2>1. op = Nil
    BY <1>0, <1>12 DEF Start, GetSubDirs, ModeInv
  <2>. QED
    BY <1>12, <2>1, RestartStepClean DEF Start, GetSubDirs
<1>13. CASE StartFails
  BY <1>13 DEF StartFails, CleanFaults
<1>14. ASSUME NEW p \in todo, LoadPath(p)
       PROVE  CleanInv'
  BY <1>14, LoadPathClean
<1>15. ASSUME NEW p \in todo, LoadPathFails(p)
       PROVE  CleanInv'
  BY <1>15, LoadPathSucceeds DEF LoadPathFails, CleanFaults
<1>16. CASE FinishRestore
  <2>1. op = Nil
    BY <1>0, <1>16 DEF FinishRestore, ModeInv
  <2>. QED
    BY <1>16, <2>1, RestartStepClean DEF FinishRestore
<1>17. ASSUME NEW d \in Disk, MakeForeignDir(d)
       PROVE  CleanInv'
  BY <1>17 DEF MakeForeignDir, CleanFaults
<1>18. CASE UNCHANGED vars
  BY <1>18 DEF vars, memory, CleanInv, RestoreSucceeds, OpGrows, DirsComplete,
       LimitEnforced, Tracked, Untracked, Limit, PathOf, OpPath
<1>. QED
  BY <1>1, <1>2, <1>3, <1>4, <1>5, <1>6, <1>7, <1>8, <1>9, <1>10, <1>11,
     <1>12, <1>13, <1>14, <1>15, <1>16, <1>17, <1>18 DEF Next

\* A node on which the plugin has never run has no directory to complete.
LEMMA InitClean == Init => CleanInv
  BY EmptyMapFacts
    DEF Init, CleanInv, RestoreSucceeds, OpGrows, DirsComplete, LimitEnforced,
        Tracked

\* CleanInv holds throughout under the clean faults.
THEOREM CleanInvariance ==
  ASSUME CleanFaults, SizesAreBlocks
  PROVE  Spec => []CleanInv
<1>1. DisksWork
  BY DEF CleanFaults, DisksWork
<1>2. /\ Inv /\ Inv' /\ UniqueInv /\ UniqueInv' /\ CleanInv /\ [Next]_vars
      => CleanInv'
  BY CleanStep
<1>3. Spec => [](Inv /\ UniqueInv)
  BY <1>1, UniqueInvariance
<1>. QED
  BY <1>2, <1>3, InitClean, PTL DEF Spec

\* If the process stops only between operations, and only the kernel calls of
\* SetProjectQuota may fail, every restart restores the quota manager.
THEOREM CleanRestartRestores ==
  ASSUME CleanFaults, SizesAreBlocks
  PROVE  Spec => []RestoreSucceeds
<1>1. CleanInv => RestoreSucceeds
  BY DEF CleanInv
<1>. QED
  BY <1>1, CleanInvariance, PTL

\* Under the same assumptions the kernel limits every volume, to no more than
\* the quota that is accounted for, before and after restarts.
THEOREM LimitsEnforced ==
  ASSUME CleanFaults, SizesAreBlocks
  PROVE  Spec => []LimitEnforced
<1>1. CleanInv => LimitEnforced
  BY DEF CleanInv
<1>. QED
  BY <1>1, CleanInvariance, PTL
=============================================================================
