---------------------------- MODULE QuotaManager ----------------------------
(***************************************************************************)
(* The node's quota manager: XFSQuotaManager (quotamanager_xfs.go) with    *)
(* the quota provider under it (quotaProvider/quota_xfs.go) and the        *)
(* project-id allocator under that (quotaProvider/projidallocator.go).     *)
(*                                                                         *)
(* A volume on a node is a directory of one of the node's XFS disks.  The  *)
(* directory carries an XFS project id, and the kernel limits the project  *)
(* to a number of bytes.  All that survives a restart of the plugin is on  *)
(* the disks: the directories, their project ids, the kernel's limits and  *)
(* the disks' "disabled" attribute.  Everything else is a cache in memory, *)
(* rebuilt by restoreQuotaInfo when the plugin starts.                     *)
(*                                                                         *)
(* Every operation holds m.mu from its first to its last line, so one      *)
(* operation is under way at a time (op); its kernel calls are steps of    *)
(* their own because the process can die between two of them.  A call that *)
(* returns an error before it has changed anything is a stuttering step.   *)
(***************************************************************************)
EXTENDS Naturals, FiniteSets, Functions

CONSTANTS
  Disk,         \* the node's quota disks: a device and its mount point
  Volume,       \* volume ids
  ForeignName,  \* the name of a directory that no volume owns
  ProjId,       \* the allocator's range, [ProjectIdStart, +ProjectIdNum)
  Capacity,     \* [Disk -> size of its file system]
  Sizes,        \* the sizes callers ask for
  Word,         \* 2^64: sizes are uint64 and wrap at Word
  BlockSize,    \* BASIC_BLOCK_SIZE: kernel limits count whole blocks
  Faults,       \* what the environment may do, a subset of FaultKinds
  Nil           \* no project id, no operation, no disk

FaultKinds ==
  { "restart",   \* the process stops while no operation is under way
    "crash",     \* the process dies at any point
    "projid",    \* setProjectId's ioctl fails
    "limit",     \* setProjectQuota's quotactl fails
    "remove",    \* os.RemoveAll fails and the directory stays
    "unmount",   \* a disk is not mounted when the plugin starts
    "readdir",   \* a disk's directory listing fails when the plugin starts
    "xattr",     \* a disk's disabled attribute cannot be read at start
    "statfs",    \* statfs, the device lookup or a quota read fails at start
    "foreign" }  \* somebody else makes a directory on a quota disk

Uint64 == 0 .. (Word - 1)

Path == Disk \X (Volume \cup {ForeignName})

\* The project id of a directory: one of the allocator's, or none of them.
DirId == ProjId \cup {Nil}

Op == [kind : {"get", "expand"}, disk : Disk, vol : Volume, size : Uint64,
       id : DirId]

ASSUME SizesAssumption ==
  /\ Word \in Nat \ {0}
  /\ BlockSize \in Nat \ {0}
  /\ Sizes \subseteq Uint64
  /\ Capacity \in [Disk -> Uint64]

ASSUME NilAssumption == Nil \notin Op \cup ProjId \cup Disk

ASSUME NamesAssumption == ForeignName \notin Volume

ASSUME FaultsAssumption == Faults \subseteq FaultKinds

VARIABLES
  mode,            \* "down", "restoring", "xfs" (serving) or "fake"
  todo,            \* restoreQuotaInfo: the paths still to load
  scanning,        \* restoreQuotaInfo: the disk whose paths are being loaded
  diskQuotaInfos,  \* m.diskQuotaInfos, by disk
  quotas,          \* m.quotas, by volume: the disk and the HardQuota
  allocated,       \* the ids taken in the allocator's bitmap
  quotaPathAndId,  \* the provider's map from path to project id
  op,              \* the operation that holds m.mu, or Nil
  dirs,            \* on disk: the directories, each with its project id
  limit,           \* in the kernel: the hard limit of each project, 0: none
  disableAttr      \* on disk: the disabled attribute of each disk

memory == <<todo, scanning, diskQuotaInfos, quotas, allocated,
            quotaPathAndId, op>>
vars == <<mode, memory, dirs, limit, disableAttr>>

-----------------------------------------------------------------------------
(* Go maps, and uint64 arithmetic on values below Word. *)

EmptyMap == [x \in {} |-> Nil]

IsMap(f, K, V) == DOMAIN f \subseteq K /\ f \in [DOMAIN f -> V]

Put(f, k, x) == [y \in DOMAIN f \cup {k} |-> IF y = k THEN x ELSE f[y]]

Drop(f, k) == Restrict(f, DOMAIN f \ {k})

Add64(a, b) == IF a + b < Word THEN a + b ELSE (a + b) - Word

\* MUTANT of Sub64: does not wrap.
Sub64NoWrap(a, b) == a - b

Sub64(a, b) == IF b <= a THEN a - b ELSE (a + Word) - b

\* MUTANT of Truncate: rounds up to whole blocks.
TruncateRoundsUp(n) == n + ((BlockSize - (n % BlockSize)) % BlockSize)

\* A limit is passed to the kernel, and read back, in whole blocks.
Truncate(n) == n - (n % BlockSize)

-----------------------------------------------------------------------------
(* The allocator: a bitmap of the ids it may hand out. *)

\* The ids AllocateNext may return; ErrFull if there are none.
AllocateNext == ProjId \ allocated

\* What is taken once the id is given back.
ReleaseId(i) == allocated \ {i}

-----------------------------------------------------------------------------
PathOf(v) == <<quotas[v].disk, v>>

OpPath == <<op.disk, op.vol>>

Serving == mode = "xfs" /\ op = Nil

\* MUTANT of AvailableDisks: the disk's allocatable size is not compared.
AvailableDisksAnySize(size) ==
  {d \in DOMAIN diskQuotaInfos : ~diskQuotaInfos[d].Disabled}

\* The disks with room for a new volume of the given size.
AvailableDisks(size) ==
  {d \in DOMAIN diskQuotaInfos :
     /\ ~diskQuotaInfos[d].Disabled
     /\ size <= diskQuotaInfos[d].AllocatableSize}

\* The disks the reverse sort by allocatable size may put first.
FirstDisks(S) ==
  {d \in S : \A e \in S : diskQuotaInfos[e].AllocatableSize
                            <= diskQuotaInfos[d].AllocatableSize}

\* The disk's accounting once its volumes' quotas add up to q.
WithQuotaSize(d, q) ==
  [diskQuotaInfos EXCEPT
     ![d].QuotaSize = q,
     ![d].AllocatableSize = Sub64(Capacity[d], q)]

Forget ==
  /\ todo' = {}
  /\ scanning' = Nil
  /\ diskQuotaInfos' = EmptyMap
  /\ quotas' = EmptyMap
  /\ allocated' = {}
  /\ quotaPathAndId' = EmptyMap
  /\ op' = Nil

Init ==
  /\ mode = "down"
  /\ todo = {}
  /\ scanning = Nil
  /\ diskQuotaInfos = EmptyMap
  /\ quotas = EmptyMap
  /\ allocated = {}
  /\ quotaPathAndId = EmptyMap
  /\ op = Nil
  /\ dirs = EmptyMap
  /\ limit = [d \in Disk |-> [i \in ProjId |-> 0]]
  /\ disableAttr = [d \in Disk |-> FALSE]

-----------------------------------------------------------------------------
(* GetVolumeQuotaPath and ExpandVolume, up to their call of the provider.  *)

\* The volume is not cached: allocateNewQuotaDir picks a disk and makes the
\* directory unless it is there.
GetVolumeQuotaPath(v, size) ==
  /\ Serving
  /\ v \notin DOMAIN quotas
  /\ \E d \in FirstDisks(AvailableDisks(size)) :
       /\ dirs' = IF <<d, v>> \in DOMAIN dirs THEN dirs
                  ELSE Put(dirs, <<d, v>>, Nil)
       /\ op' = [kind |-> "get", disk |-> d, vol |-> v, size |-> size,
                 id |-> Nil]
  /\ UNCHANGED <<mode, todo, scanning, diskQuotaInfos, quotas, allocated,
                 quotaPathAndId, limit, disableAttr>>

ExpandVolume(v, size) ==
  /\ Serving
  /\ v \in DOMAIN quotas
  /\ quotas[v].disk \in DOMAIN diskQuotaInfos
  /\ quotas[v].hard <= size
  /\ size - quotas[v].hard <= diskQuotaInfos[quotas[v].disk].AllocatableSize
  /\ op' = [kind |-> "expand", disk |-> quotas[v].disk, vol |-> v,
            size |-> size, id |-> Nil]
  /\ UNCHANGED <<mode, todo, scanning, diskQuotaInfos, quotas, allocated,
                 quotaPathAndId, dirs, limit, disableAttr>>

-----------------------------------------------------------------------------
(* The provider's SetProjectQuota, and the rest of the calling operation.  *)

\* MUTANT of OldSize: an expansion is charged in full.
OldSizeIgnored == 0

\* What the operation does to the cache after SetProjectQuota returned nil.
OldSize == IF op.kind = "expand" THEN quotas[op.vol].hard ELSE 0

Complete ==
  /\ quotas' = Put(quotas, op.vol, [disk |-> op.disk, hard |-> op.size])
  /\ diskQuotaInfos' =
       WithQuotaSize(op.disk,
         Sub64(Add64(diskQuotaInfos[op.disk].QuotaSize, op.size), OldSize))
  /\ op' = Nil

\* MUTANT of Abort: the new directory is not deleted.
AbortKeepsDir == op' = Nil /\ dirs' = dirs

\* MUTANT of Abort: the directory is deleted whatever the operation was.
AbortDeletesDir == op' = Nil /\ dirs' = Drop(dirs, OpPath)

\* What it does after an error: a new directory is deleted, and the result of
\* the deletion is ignored; an expansion leaves the directory alone.
Abort ==
  /\ op' = Nil
  /\ IF op.kind = "get"
       THEN \/ dirs' = Drop(dirs, OpPath)
            \/ "remove" \in Faults /\ dirs' = dirs
       ELSE dirs' = dirs

\* The provider knows the path: SetProjectQuota returns nil at once, and
\* makes no kernel call.
SetProjectQuotaKnownPath ==
  /\ op # Nil
  /\ op.id = Nil
  /\ OpPath \in DOMAIN quotaPathAndId
  /\ Complete
  /\ UNCHANGED <<mode, todo, scanning, allocated, quotaPathAndId, dirs, limit,
                 disableAttr>>

\* AllocateNext returns a free id and setProjectId puts it on the directory.
SetProjectId ==
  /\ op # Nil
  /\ op.id = Nil
  /\ OpPath \notin DOMAIN quotaPathAndId
  /\ OpPath \in DOMAIN dirs
  /\ \E i \in AllocateNext :
       /\ allocated' = allocated \cup {i}
       /\ dirs' = [dirs EXCEPT ![OpPath] = i]
       /\ op' = [op EXCEPT !.id = i]
  /\ UNCHANGED <<mode, todo, scanning, diskQuotaInfos, quotas,
                 quotaPathAndId, limit, disableAttr>>

\* No id is left, or setProjectId fails and the id is released.
SetProjectIdFails ==
  /\ op # Nil
  /\ op.id = Nil
  /\ OpPath \notin DOMAIN quotaPathAndId
  /\ AllocateNext = {} \/ "projid" \in Faults
  /\ Abort
  /\ UNCHANGED <<mode, todo, scanning, diskQuotaInfos, quotas, allocated,
                 quotaPathAndId, limit, disableAttr>>

SetProjectLimit ==
  /\ op # Nil
  /\ op.id # Nil
  /\ limit' = [limit EXCEPT ![op.disk][op.id] = Truncate(op.size)]
  /\ quotaPathAndId' = Put(quotaPathAndId, OpPath, op.id)
  /\ Complete
  /\ UNCHANGED <<mode, todo, scanning, allocated, dirs, disableAttr>>

SetProjectLimitFails ==
  /\ op # Nil
  /\ op.id # Nil
  /\ "limit" \in Faults
  /\ allocated' = ReleaseId(op.id)
  /\ Abort
  /\ UNCHANGED <<mode, todo, scanning, diskQuotaInfos, quotas,
                 quotaPathAndId, limit, disableAttr>>

-----------------------------------------------------------------------------
(* ReleaseVolumePath and the other operations. *)

\* MUTANT of ForgetPath: the id is not released.
ForgetPathLeaksId(p) ==
  /\ allocated' = allocated
  /\ quotaPathAndId' = Drop(quotaPathAndId, p)

\* MUTANT of ForgetPath: the path stays in the provider's map.
ForgetPathKeepsEntry(p) ==
  /\ allocated' = IF p \in DOMAIN quotaPathAndId
                    THEN allocated \ {quotaPathAndId[p]} ELSE allocated
  /\ quotaPathAndId' = quotaPathAndId

\* DeleteProjectQuota's first half: the id goes back to the allocator and the
\* path is forgotten, before anything is removed.
ForgetPath(p) ==
  /\ allocated' = IF p \in DOMAIN quotaPathAndId
                    THEN ReleaseId(quotaPathAndId[p]) ELSE allocated
  /\ quotaPathAndId' = Drop(quotaPathAndId, p)

\* The directory is removed, and the volume leaves the cache.
ReleaseVolumePath(v) ==
  /\ Serving
  /\ v \in DOMAIN quotas
  /\ quotas[v].disk \in DOMAIN diskQuotaInfos
  /\ ForgetPath(PathOf(v))
  /\ dirs' = Drop(dirs, PathOf(v))
  /\ quotas' = Drop(quotas, v)
  /\ diskQuotaInfos' =
       WithQuotaSize(quotas[v].disk,
         Sub64(diskQuotaInfos[quotas[v].disk].QuotaSize, quotas[v].hard))
  /\ UNCHANGED <<mode, todo, scanning, op, limit, disableAttr>>

\* os.RemoveAll fails: the volume stays in m.quotas without its id.
ReleaseVolumePathFails(v) ==
  /\ Serving
  /\ "remove" \in Faults
  /\ v \in DOMAIN quotas
  /\ quotas[v].disk \in DOMAIN diskQuotaInfos
  /\ ForgetPath(PathOf(v))
  /\ UNCHANGED <<mode, todo, scanning, diskQuotaInfos, quotas, op, dirs, limit,
                 disableAttr>>

\* The volumes whose path the provider does not know.
Untracked == {v \in DOMAIN quotas : PathOf(v) \notin DOMAIN quotaPathAndId}

\* GetProjectQuota, called for the volumes whose usage is stale, takes the ids
\* of the untracked ones among them again, until one cannot be taken.
ListPathQuotaInfos ==
  /\ Serving
  /\ \E T \in SUBSET Untracked :
       /\ T # {}
       /\ \A v \in T : /\ PathOf(v) \in DOMAIN dirs
                       /\ dirs[PathOf(v)] \in ProjId \ allocated
                       /\ \A w \in T : dirs[PathOf(v)] = dirs[PathOf(w)]
                                         => v = w
       /\ allocated' = allocated \cup {dirs[PathOf(v)] : v \in T}
       /\ quotaPathAndId' =
            [p \in DOMAIN quotaPathAndId \cup {PathOf(v) : v \in T} |->
               IF p \in DOMAIN quotaPathAndId THEN quotaPathAndId[p]
               ELSE dirs[p]]
  /\ UNCHANGED <<mode, todo, scanning, diskQuotaInfos, quotas, op, dirs, limit,
                 disableAttr>>

SetQuotaDiskDisabledState(d, disabled) ==
  /\ Serving
  /\ d \in DOMAIN diskQuotaInfos
  /\ disableAttr' = [disableAttr EXCEPT ![d] = disabled]
  /\ diskQuotaInfos' = [diskQuotaInfos EXCEPT ![d].Disabled = disabled]
  /\ UNCHANGED <<mode, todo, scanning, quotas, allocated, quotaPathAndId, op,
                 dirs, limit>>

-----------------------------------------------------------------------------
(* Stopping and starting: NewXfsQuotaManager and restoreQuotaInfo. *)

Crash ==
  /\ mode # "down"
  /\ \/ "crash" \in Faults
     \/ "restart" \in Faults /\ op = Nil
  /\ mode' = "down"
  /\ Forget
  /\ UNCHANGED <<dirs, limit, disableAttr>>

RestoredDiskInfo(d, disabled) ==
  [QuotaSize |-> 0, AllocatableSize |-> Capacity[d], Disabled |-> disabled]

\* A disabled attribute that cannot be read counts as FALSE.
ReadDisableStates ==
  {s \in [Disk -> BOOLEAN] :
     \A d \in Disk : \/ s[d] = disableAttr[d]
                     \/ "xattr" \in Faults /\ ~s[d]}

\* The paths on the listed disks; a disk that cannot be listed seems empty.
GetSubDirs(listed) == {p \in DOMAIN dirs : p[1] \in listed}

\* The first loop of restoreQuotaInfo loads the mounted disks; the paths to
\* load are the directories of those that can be listed.
Start ==
  /\ mode = "down"
  /\ mode' = "restoring"
  /\ \E mounted \in SUBSET Disk, s \in ReadDisableStates :
       /\ "unmount" \in Faults \/ mounted = Disk
       /\ diskQuotaInfos' = [d \in mounted |-> RestoredDiskInfo(d, s[d])]
       /\ \E listed \in SUBSET mounted :
            /\ "readdir" \in Faults \/ listed = mounted
            /\ todo' = GetSubDirs(listed)
  /\ UNCHANGED <<scanning, quotas, allocated, quotaPathAndId, op, dirs, limit,
                 disableAttr>>

\* The root directory, a device or a disk's size cannot be read.
StartFails ==
  /\ mode = "down"
  /\ "statfs" \in Faults
  /\ mode' = "fake"
  /\ UNCHANGED <<memory, dirs, limit, disableAttr>>

\* The second loop takes one disk after the other.
NextToLoad ==
  {p \in todo : \A q \in todo : q[1] = scanning => p[1] = scanning}

\* GetProjectQuota takes the directory's id, unless it has none of ours or the
\* id is taken, and reads the limit.
CanLoad(p) == dirs[p] \in ProjId \ allocated

\* MUTANT of Loaded: the directory's id is not marked as taken.
LoadedNotTaken(p) == allocated

\* The allocator's ids once the path is loaded.
Loaded(p) == allocated \cup {dirs[p]}

LoadPath(p) ==
  /\ mode = "restoring"
  /\ p \in NextToLoad
  /\ CanLoad(p)
  /\ allocated' = Loaded(p)
  /\ quotaPathAndId' = Put(quotaPathAndId, p, dirs[p])
  /\ LET hard == limit[p[1]][dirs[p]] IN
       /\ diskQuotaInfos' =
            [diskQuotaInfos EXCEPT ![p[1]].QuotaSize = Add64(@, hard)]
       /\ quotas' = Put(quotas, p[2], [disk |-> p[1], hard |-> hard])
  /\ todo' = todo \ {p}
  /\ scanning' = p[1]
  /\ UNCHANGED <<mode, op, dirs, limit, disableAttr>>

\* An error of GetProjectQuota ends the restore: a FakeQuotaManager, whose
\* every method returns an error, takes the place of the manager.
LoadPathFails(p) ==
  /\ mode = "restoring"
  /\ p \in NextToLoad
  /\ ~CanLoad(p) \/ "statfs" \in Faults
  /\ mode' = "fake"
  /\ Forget
  /\ UNCHANGED <<dirs, limit, disableAttr>>

FinishRestore ==
  /\ mode = "restoring"
  /\ todo = {}
  /\ mode' = "xfs"
  /\ scanning' = Nil
  /\ UNCHANGED <<todo, diskQuotaInfos, quotas, allocated, quotaPathAndId, op,
                 dirs, limit, disableAttr>>

\* A directory that is not a volume's has the kernel's default project id.
MakeForeignDir(d) ==
  /\ "foreign" \in Faults
  /\ <<d, ForeignName>> \notin DOMAIN dirs
  /\ dirs' = Put(dirs, <<d, ForeignName>>, Nil)
  /\ UNCHANGED <<mode, memory, limit, disableAttr>>

-----------------------------------------------------------------------------
Next ==
  \/ \E v \in Volume, size \in Sizes : GetVolumeQuotaPath(v, size)
  \/ \E v \in Volume, size \in Sizes : ExpandVolume(v, size)
  \/ SetProjectQuotaKnownPath
  \/ SetProjectId
  \/ SetProjectIdFails
  \/ SetProjectLimit
  \/ SetProjectLimitFails
  \/ \E v \in Volume : ReleaseVolumePath(v)
  \/ \E v \in Volume : ReleaseVolumePathFails(v)
  \/ ListPathQuotaInfos
  \/ \E d \in Disk, b \in BOOLEAN : SetQuotaDiskDisabledState(d, b)
  \/ Crash
  \/ Start
  \/ StartFails
  \/ \E p \in todo : LoadPath(p)
  \/ \E p \in todo : LoadPathFails(p)
  \/ FinishRestore
  \/ \E d \in Disk : MakeForeignDir(d)

Spec == Init /\ [][Next]_vars

-----------------------------------------------------------------------------
(* Properties. *)

DiskQuotaInfo ==
  [QuotaSize : Uint64, AllocatableSize : Uint64, Disabled : BOOLEAN]

PathQuotaInfo == [disk : Disk, hard : Uint64]

\* Every variable has its type: in particular the uint64 fields of
\* DiskQuotaInfo stay uint64 values, whatever was subtracted from them.
TypeOK ==
  /\ mode \in {"down", "restoring", "xfs", "fake"}
  /\ todo \subseteq Path
  /\ scanning \in Disk \cup {Nil}
  /\ IsMap(diskQuotaInfos, Disk, DiskQuotaInfo)
  /\ IsMap(quotas, Volume, PathQuotaInfo)
  /\ allocated \subseteq ProjId
  /\ IsMap(quotaPathAndId, Path, ProjId)
  /\ op \in Op \cup {Nil}
  /\ IsMap(dirs, Path, DirId)
  /\ limit \in [Disk -> [ProjId -> Uint64]]
  /\ disableAttr \in [Disk -> BOOLEAN]

OpIds == IF op = Nil THEN {} ELSE {op.id} \ {Nil}

\* The allocator and the provider's map never drift apart: an id is taken
\* exactly when one path, or the operation under way, has it.  No id leaks
\* and none is handed out twice, whatever fails (SetProjectQuota's deferred
\* Release, DeleteProjectQuota, GetProjectQuota's re-allocation).
IdPoolExact ==
  /\ allocated = Range(quotaPathAndId) \cup OpIds
  /\ IsInjective(quotaPathAndId)
  /\ OpIds \cap Range(quotaPathAndId) = {}

\* What the provider believes of a path is what is on the disk: the directory
\* is there and carries the id, so usage and limits are read for the right
\* project (GetProjectQuota's cached branch).
TrackedDirHasId ==
  \A p \in DOMAIN quotaPathAndId :
    p \in DOMAIN dirs /\ dirs[p] = quotaPathAndId[p]

\* A volume in m.quotas has its directory: no failed or interrupted operation
\* deletes the data of a volume that was given out (the deferred DeleteFile of
\* GetVolumeQuotaPath, ReleaseVolumePath).
QuotasHaveDirs ==
  \A v \in DOMAIN quotas : PathOf(v) \in DOMAIN dirs

\* No two directories carry the same project id, so no volume's usage is
\* charged to another one's limit.  Needs that removals and directory
\* listings succeed and that every disk is mounted at start.
DirIdsUnique ==
  \A p, q \in DOMAIN dirs :
    dirs[p] = dirs[q] /\ dirs[p] \in ProjId => p = q

VolumeDirs == {p \in DOMAIN dirs : p[2] # ForeignName}

\* Between operations the volumes' directories and m.quotas agree: each
\* directory is accounted for, on its disk, and a volume has one directory.
DirsMatchQuotas ==
  Serving => VolumeDirs = {PathOf(v) : v \in DOMAIN quotas}

\* The plugin always comes back with its quota manager and not with the
\* FakeQuotaManager that refuses every request.
RestoreSucceeds == mode # "fake"

VolumesOn(d) == {v \in DOMAIN quotas : quotas[v].disk = d}

HardQuota == [v \in DOMAIN quotas |-> quotas[v].hard]

Committed(d) == SumFunctionOnSet(HardQuota, VolumesOn(d))

\* A disk's QuotaSize is the sum of the quotas of the volumes on it, after any
\* sequence of allocations, expansions, releases, failures and restarts.
QuotaSizeAccounts ==
  \A d \in DOMAIN diskQuotaInfos :
    diskQuotaInfos[d].QuotaSize = Committed(d)

\* The quotas of a disk are within its capacity and AllocatableSize is what is
\* left of it (no wrap-around).  A restart breaks it.
WithinCapacity ==
  \A d \in DOMAIN diskQuotaInfos :
    /\ diskQuotaInfos[d].QuotaSize <= Capacity[d]
    /\ diskQuotaInfos[d].AllocatableSize
         = Capacity[d] - diskQuotaInfos[d].QuotaSize

Limit(v) == limit[quotas[v].disk][quotaPathAndId[PathOf(v)]]

Tracked == DOMAIN quotas \ Untracked

\* The kernel lets a volume use no more than it is accounted for: a limit is
\* set and it does not exceed the cached HardQuota.
LimitEnforced ==
  \A v \in Tracked : Limit(v) # 0 /\ Limit(v) <= quotas[v].hard

\* The kernel enforces the size that was last granted (up to whole blocks),
\* as ExpandVolume's "success expand project quota" says.
LimitIsGranted ==
  \A v \in Tracked : Limit(v) = Truncate(quotas[v].hard)

\* allocateNewQuotaDir skips a disk without enough allocatable size, so the
\* volumes on a disk never add up to more than its capacity.
NotOvercommitted ==
  Serving => \A d \in DOMAIN diskQuotaInfos : Committed(d) <= Capacity[d]

-----------------------------------------------------------------------------
(* The inductive invariant behind TypeOK, IdPoolExact, TrackedDirHasId and *)
(* QuotasHaveDirs, and its extensions for the properties that need a       *)
(* better-behaved environment.  The proofs are in QuotaManagerProofs.      *)

\* The caches hold something only while the manager is loaded or serving.
ModeInv ==
  /\ mode \in {"down", "fake"} =>
       quotas = EmptyMap /\ quotaPathAndId = EmptyMap /\ allocated = {}
  /\ mode # "restoring" => todo = {}
  /\ mode # "xfs" => op = Nil

\* The operation under way works on an online disk and an existing directory
\* and, once it has an id, the directory carries that id.
OpInv ==
  op # Nil =>
    /\ op.disk \in DOMAIN diskQuotaInfos
    /\ OpPath \in DOMAIN dirs
    /\ IF op.kind = "expand"
         THEN op.vol \in DOMAIN quotas /\ quotas[op.vol].disk = op.disk
         ELSE op.vol \notin DOMAIN quotas
    /\ op.id # Nil => /\ OpPath \notin DOMAIN quotaPathAndId
                      /\ dirs[OpPath] = op.id

\* The paths still to load are directories of online disks, not yet loaded.
TodoInv ==
  \A p \in todo : /\ p \in DOMAIN dirs \ DOMAIN quotaPathAndId
                  /\ p[1] \in DOMAIN diskQuotaInfos

\* The manager never puts one of its ids on a directory it does not own.
ForeignUnowned ==
  \A p \in DOMAIN dirs : p[2] = ForeignName => dirs[p] = Nil

\* The volumes in m.quotas are on online disks.
QuotasOnline ==
  \A v \in DOMAIN quotas : quotas[v].disk \in DOMAIN diskQuotaInfos

Inv ==
  /\ TypeOK
  /\ ModeInv
  /\ OpInv
  /\ TodoInv
  /\ ForeignUnowned
  /\ QuotasOnline
  /\ IdPoolExact
  /\ TrackedDirHasId
  /\ QuotasHaveDirs

Working == mode \in {"restoring", "xfs"}

OpDirs == IF op # Nil /\ op.kind = "get" THEN {OpPath} ELSE {}

\* While the manager works, a directory with one of its ids is loaded, is
\* about to be, or is the one the operation under way has just marked.
IdsKnown ==
  Working => \A p \in DOMAIN dirs :
    dirs[p] \in ProjId =>
      \/ p \in todo
      \/ p \in DOMAIN quotaPathAndId
      \/ op # Nil /\ op.id # Nil /\ p = OpPath

\* A volume has one directory.
OneDirPerVolume ==
  \A p, q \in VolumeDirs : p[2] = q[2] => p = q

\* DirsMatchQuotas at every point of an operation and of the restore.
DirsAccounted ==
  Working => VolumeDirs = {PathOf(v) : v \in DOMAIN quotas}
                          \cup (todo \cap VolumeDirs) \cup OpDirs

\* A volume in m.quotas is tracked by the provider, and the path of a new
\* volume is not yet.
AllTracked ==
  /\ Untracked = {}
  /\ op # Nil /\ op.kind = "get" => OpPath \notin DOMAIN quotaPathAndId

\* With the removals, the listings and the mounts at start in order.
UniqueInv ==
  /\ DirIdsUnique
  /\ IdsKnown
  /\ OneDirPerVolume
  /\ DirsAccounted
  /\ AllTracked

\* Every directory, but the one being made, has an id with a limit.
DirsComplete ==
  \A p \in DOMAIN dirs :
    \/ op # Nil /\ p = OpPath /\ op.kind = "get"
    \/ dirs[p] \in ProjId /\ limit[p[1]][dirs[p]] # 0

\* An expansion under way does not shrink its volume.
OpGrows ==
  op # Nil => /\ op.size \in Sizes
              /\ op.kind = "expand" => quotas[op.vol].hard <= op.size

\* With clean restarts only.
CleanInv ==
  /\ RestoreSucceeds
  /\ DirsComplete
  /\ OpGrows
  /\ LimitEnforced
=============================================================================
