----------------------------- MODULE NodeStatus -----------------------------
(***************************************************************************)
(* What a node reports of itself: the second half of the sync worker's     *)
(* round (syncworker.go), the hostpath client it writes with (client.go,   *)
(* node.go, persistentVolume.go) and the two listings of the quota manager *)
(* it reads.                                                               *)
(*                                                                         *)
(* The worker takes a listing, works on it while the kubelet and the       *)
(* administrator go on, and writes only what differs from what it remembers*)
(* to have written (lastSyncQuotaInfoCache, lastNodeUsageInfo).  What it   *)
(* reports can therefore be out of date for two reasons: the listing is    *)
(* old, or the comparison says that there is nothing to write.             *)
(*                                                                         *)
(* The quota manager is reduced to its cache; QuotaManager models it.  The *)
(* first half of the round, the cleaning of orphans, is in NodeServer.     *)
(***************************************************************************)
EXTENDS Integers, FiniteSets, SequencesExt

CONSTANTS
  Disk,         \* the quota disks, numbered in the order of their mount points
  Volume,       \* the volumes that pods of this node may use
  Capacity,     \* [Disk -> size of its file system]
  Sizes,        \* the capacities of volumes
  Contents,     \* how much data a volume may hold
  MiB, GiB,     \* the units of RoundOffBytes
  Word,         \* 2^64: the manager's sizes are uint64, the reported ones int64
  LostAnswers,  \* whether a write that arrived may be reported as failed
  MaxChanges,   \* how often the kubelet, pods and administrator change things
  MaxFaults,    \* how many faults may happen
  Nil           \* no PV

ASSUME UnitsAssumption ==
  /\ Disk \subseteq Nat /\ IsFiniteSet(Disk) /\ IsFiniteSet(Volume)
  /\ Capacity \in [Disk -> Nat] /\ Sizes \subseteq Nat /\ Contents \subseteq Nat
  /\ MiB \in Nat \ {0} /\ GiB \in Nat \ {0} /\ Word \in Nat
  /\ MaxChanges \in Nat /\ MaxFaults \in Nat /\ LostAnswers \in BOOLEAN

VARIABLES
  quotas,     \* m.quotas, by volume: disk, HardQuota, cached Used
  diskInfos,  \* m.diskQuotaInfos, by disk: AllocatableSize, Disabled, cached Used
  data,       \* what the volumes' directories really hold
  limit,      \* the kernel's limit of each volume
  disabledDisksAnn,  \* in the cluster: the disks the administrator disabled
  pvUsageAnn,        \* in the cluster: the usage annotation of each PV
  nodeUsageAnn,      \* in the cluster: the node's usage annotation
  lastSyncQuotaInfoCache,  \* what the worker remembers to have written of a PV
  lastNodeUsageInfo,       \* and of the node
  round,      \* where the worker is in its round, with its listings
  changes,    \* how many changes there were
  faults      \* how many faults there were

manager == <<quotas, diskInfos, data, limit>>
cluster == <<disabledDisksAnn, pvUsageAnn, nodeUsageAnn>>
worker == <<lastSyncQuotaInfoCache, lastNodeUsageInfo, round>>
vars == <<manager, cluster, worker, changes, faults>>

-----------------------------------------------------------------------------
EmptyMap == [x \in {} |-> Nil]

On(qs, d) == {v \in DOMAIN qs : qs[v].disk = d}

QuotaSize(qs, d) ==
  SumFunctionOnSet([v \in DOMAIN qs |-> qs[v].hard], On(qs, d))

\* What statfs says of a disk.
DiskUsed(d) == SumFunctionOnSet(data, On(quotas, d))

CeilTo(n, unit) == ((n + unit - 1) \div unit) * unit

RoundOffBytes(n) == IF n < GiB THEN CeilTo(n, MiB) ELSE CeilTo(n, GiB)

NoUsage == [disk |-> 0, used |-> 0]

NoNodeUsage == [Capacity |-> 0, QuotaSize |-> 0, Used |-> 0, Allocatable |-> 0,
                DiskStatus |-> <<>>]

Idle == [at |-> "idle", paths |-> EmptyMap, disks |-> EmptyMap]

Init ==
  /\ quotas = EmptyMap
  /\ diskInfos = [d \in Disk |-> [AllocatableSize |-> Capacity[d],
                                  Disabled |-> FALSE, Used |-> 0]]
  /\ data = [v \in Volume |-> 0]
  /\ limit = [v \in Volume |-> 0]
  /\ disabledDisksAnn = {}
  /\ pvUsageAnn = [v \in Volume |-> NoUsage]
  /\ nodeUsageAnn = NoNodeUsage
  /\ lastSyncQuotaInfoCache = EmptyMap
  /\ lastNodeUsageInfo = NoNodeUsage
  /\ round = Idle
  /\ changes = 0
  /\ faults = 0

-----------------------------------------------------------------------------
(* The world around the worker. *)

Change ==
  /\ changes < MaxChanges
  /\ changes' = changes + 1
  /\ UNCHANGED <<worker, faults>>

\* An AllocatableSize is kept here as the int64 that is reported; the manager
\* itself compares it as the uint64, which is huge once it has wrapped.
Uint64(n) == IF n < 0 THEN n + Word ELSE n

Allocatable(d) == Uint64(diskInfos[d].AllocatableSize)

\* The manager's cache once its volumes are qs, of which disk d's changed.
SetQuotas(qs, d) ==
  /\ quotas' = qs
  /\ diskInfos' = [diskInfos EXCEPT
                     ![d].AllocatableSize = Capacity[d] - QuotaSize(qs, d)]

\* GetVolumeQuotaPath for a PV that exists: the enabled disk with the most
\* allocatable size.
Allocate(v, size) ==
  LET fits == {d \in Disk : ~diskInfos[d].Disabled /\ size <= Allocatable(d)}
  IN /\ Change
     /\ v \notin DOMAIN quotas
     /\ pvUsageAnn[v] # Nil
     /\ \E d \in fits :
          /\ \A e \in fits : Allocatable(e) <= Allocatable(d)
          /\ SetQuotas([w \in DOMAIN quotas \cup {v} |->
                          IF w = v
                            THEN [disk |-> d, hard |-> size, used |-> 0]
                            ELSE quotas[w]], d)
     /\ data' = [data EXCEPT ![v] = 0]
     /\ limit' = [limit EXCEPT ![v] = size]
     /\ UNCHANGED cluster

\* The cached quota grows; the kernel's limit stays (SetProjectQuota returns at
\* once for a path it knows).
ExpandVolume(v, size) ==
  /\ Change
  /\ v \in DOMAIN quotas
  /\ quotas[v].hard <= size
  /\ size - quotas[v].hard <= Allocatable(quotas[v].disk)
  /\ SetQuotas([quotas EXCEPT ![v].hard = size], quotas[v].disk)
  /\ UNCHANGED <<data, limit, cluster>>

\* ReleaseVolumePath.
Release(v) ==
  /\ Change
  /\ v \in DOMAIN quotas
  /\ SetQuotas([w \in DOMAIN quotas \ {v} |-> quotas[w]], quotas[v].disk)
  /\ data' = [data EXCEPT ![v] = 0]
  /\ UNCHANGED <<limit, cluster>>

PodWrites(v, n) ==
  /\ Change
  /\ v \in DOMAIN quotas
  /\ n <= limit[v]
  /\ data' = [data EXCEPT ![v] = n]
  /\ UNCHANGED <<quotas, diskInfos, limit, cluster>>

\* SetHostPathDiskDisableState reads the annotation and writes it back with
\* the disk taken out (state TRUE) or put in.
SetHostPathDiskDisableState(d, state) ==
  /\ Change
  /\ disabledDisksAnn' = IF state THEN disabledDisksAnn \ {d}
                         ELSE disabledDisksAnn \cup {d}
  /\ UNCHANGED <<manager, pvUsageAnn, nodeUsageAnn>>

\* The PV is deleted; the path stays until the worker finds it orphaned.
RemovePV(v) ==
  /\ Change
  /\ pvUsageAnn[v] # Nil
  /\ pvUsageAnn' = [pvUsageAnn EXCEPT ![v] = Nil]
  /\ UNCHANGED <<manager, disabledDisksAnn, nodeUsageAnn>>

-----------------------------------------------------------------------------
(* The round: populatorLoopFunc, from its two listings to their reports. *)

\* Some call to the API server, or of a listing, fails.
Fault ==
  /\ faults < MaxFaults
  /\ faults' = faults + 1

\* The usage of the volumes in T is older than maxCacheTime and read again.
ListPathQuotaInfos(T) ==
  LET qs == [v \in DOMAIN quotas |->
               IF v \in T THEN [quotas[v] EXCEPT !.used = data[v]]
               ELSE quotas[v]]
  IN /\ round.at = "idle"
     /\ quotas' = qs
     /\ \/ round' = [round EXCEPT !.at = "usage", !.paths = qs] /\ faults' = faults
        \/ round' = [round EXCEPT !.at = "usage"] /\ Fault
     /\ UNCHANGED <<diskInfos, data, limit, cluster, lastSyncQuotaInfoCache,
                    lastNodeUsageInfo, changes>>

\* MUTANT of ShouldUpdate: the usage is not compared.
ShouldUpdatePathOnly(v, new) ==
  \/ v \notin DOMAIN lastSyncQuotaInfoCache
  \/ new.disk # lastSyncQuotaInfoCache[v].disk
  \/ new.hard # lastSyncQuotaInfoCache[v].hard

ShouldUpdate(v, new) ==
  \/ v \notin DOMAIN lastSyncQuotaInfoCache
  \/ new # lastSyncQuotaInfoCache[v]

\* The volumes of the listing with something to write and a PV to write it to.
Due == {v \in DOMAIN round.paths : /\ ShouldUpdate(v, round.paths[v])
                                   /\ pvUsageAnn[v] # Nil}

\* What is written of a listed volume.
PVUsageInfo(info) == [disk |-> info.disk, used |-> info.used]

\* The writes to the PVs in T arrive.
UpdateHostPathPVUsageInfo(T) ==
  pvUsageAnn' = [v \in Volume |-> IF v \in T THEN PVUsageInfo(round.paths[v])
                                 ELSE pvUsageAnn[v]]

\* The loop ends at the first write that fails; a PV that cannot be read is
\* passed over.  A volume is remembered when its write returned nil.
SyncQuotaPathUsage ==
  /\ round.at = "usage"
  /\ \E done \in SUBSET Due :
       \E unheard \in {{}} \cup {{v} : v \in Due \ done} :
         /\ IF done = Due THEN faults' = faults ELSE Fault
         /\ unheard # {} => LostAnswers
         /\ UpdateHostPathPVUsageInfo(done \cup unheard)
         /\ lastSyncQuotaInfoCache' =
              [v \in DOMAIN lastSyncQuotaInfoCache \cup done |->
                 IF v \in done THEN round.paths[v]
                 ELSE lastSyncQuotaInfoCache[v]]
  /\ round' = [round EXCEPT !.at = "disks", !.paths = EmptyMap]
  /\ UNCHANGED <<manager, disabledDisksAnn, nodeUsageAnn, lastNodeUsageInfo,
                 changes>>

\* The usage of the disks in T is older than maxCacheTime and read again.  A
\* failed listing is an empty one.
ListQuotaDiskInfos(T) ==
  LET infos == [d \in Disk |->
                  IF d \in T THEN [diskInfos[d] EXCEPT !.Used = DiskUsed(d)]
                  ELSE diskInfos[d]]
      Listed(d) == [MountPoint |-> d, Capacity |-> Capacity[d],
                    QuotaSize |-> QuotaSize(quotas, d), Used |-> infos[d].Used,
                    Allocatable |-> infos[d].AllocatableSize,
                    Disabled |-> infos[d].Disabled]
  IN /\ round.at = "disks"
     /\ diskInfos' = infos
     /\ \/ /\ round' = [round EXCEPT !.at = "node",
                                     !.disks = [d \in Disk |-> Listed(d)]]
           /\ faults' = faults
        \/ round' = [round EXCEPT !.at = "node"] /\ Fault
     /\ UNCHANGED <<quotas, data, limit, cluster, lastSyncQuotaInfoCache,
                    lastNodeUsageInfo, changes>>

\* DiskInfoList: reverse by allocatable size, then by mount point.
Less(a, b) ==
  \/ a.Allocatable > b.Allocatable
  \/ a.Allocatable = b.Allocatable /\ a.MountPoint < b.MountPoint

\* sort.Sort(DiskInfoList).
Sorted(infos) ==
  CHOOSE list \in SetToSeqs(infos) :
    \A i, j \in DOMAIN list : i < j => ~Less(list[j], list[i])

Usage(disks) ==
  [Capacity    |-> SumFunction([d \in DOMAIN disks |-> disks[d].Capacity]),
   QuotaSize   |-> SumFunction([d \in DOMAIN disks |-> disks[d].QuotaSize]),
   Used        |-> SumFunction([d \in DOMAIN disks |-> disks[d].Used]),
   Allocatable |-> SumFunction([d \in DOMAIN disks |-> disks[d].Allocatable]),
   DiskStatus  |-> Sorted({disks[d] : d \in DOMAIN disks})]

\* The last comparison of the code is of old.DiskStatus[i].Allocatable with
\* itself, and Disabled is not looked at.
ShouldNodeUpdate(new) ==
  LET old == lastNodeUsageInfo
  IN \/ old.Capacity # new.Capacity
     \/ old.QuotaSize # new.QuotaSize
     \/ RoundOffBytes(old.Used) # RoundOffBytes(new.Used)
     \/ \E i \in DOMAIN old.DiskStatus :
          \/ old.DiskStatus[i].MountPoint # new.DiskStatus[i].MountPoint
          \/ RoundOffBytes(old.DiskStatus[i].Used)
               # RoundOffBytes(new.DiskStatus[i].Used)
          \/ old.DiskStatus[i].Allocatable # old.DiskStatus[i].Allocatable

\* MUTANT of Wrong: a disk is never enabled again.
WrongEnabledOnly(d) == ~round.disks[d].Disabled /\ d \in disabledDisksAnn

\* The listed disks whose state is not the one the annotation asks for.
Wrong(d) == round.disks[d].Disabled # (d \in disabledDisksAnn)

\* The disks are told their state; an error is logged and nothing else.
SetDisabledStates(told) ==
  diskInfos' = [d \in Disk |->
                  IF d \in told THEN [diskInfos[d] EXCEPT
                                        !.Disabled = d \in disabledDisksAnn]
                  ELSE diskInfos[d]]

\* MUTANT of Remember: what could not be written is remembered as well.
RememberAlways(new, written) == lastNodeUsageInfo' = new

Remember(new, written) ==
  lastNodeUsageInfo' = IF written THEN new ELSE lastNodeUsageInfo

\* The write to the node arrives.
UpdateNodeHostPathPVUsageInfo(new, arrives) ==
  nodeUsageAnn' = IF arrives THEN new ELSE nodeUsageAnn

\* syncNodeQuotaStatus, once the node was read: disks first, then the report,
\* which is made from the listing whatever the disks were told just now.
SyncNodeQuotaStatus ==
  LET new == Usage(round.disks)
      wrong == {d \in DOMAIN round.disks : Wrong(d)}
  IN /\ round.at = "node"
     /\ \E told \in SUBSET wrong, answer \in {"ok", "error", "lost"} :
          /\ IF told = wrong /\ answer = "ok" THEN faults' = faults ELSE Fault
          /\ answer = "lost" => LostAnswers
          /\ answer # "ok" => ShouldNodeUpdate(new)
          /\ SetDisabledStates(told)
          /\ UpdateNodeHostPathPVUsageInfo(new, ShouldNodeUpdate(new)
                                                 /\ answer # "error")
          /\ IF ShouldNodeUpdate(new) THEN Remember(new, answer = "ok")
             ELSE lastNodeUsageInfo' = lastNodeUsageInfo
     /\ round' = Idle
     /\ UNCHANGED <<quotas, data, limit, disabledDisksAnn, pvUsageAnn,
                    lastSyncQuotaInfoCache, changes>>

GetNodeFails ==
  /\ round.at = "node"
  /\ Fault
  /\ round' = Idle
  /\ UNCHANGED <<manager, cluster, lastSyncQuotaInfoCache, lastNodeUsageInfo,
                 changes>>

\* The plugin restarts: the worker's memory is gone, and restoreQuotaInfo takes
\* the volumes' quotas from the kernel and starts every disk with its whole
\* capacity allocatable.
Restart ==
  /\ Fault
  /\ lastSyncQuotaInfoCache' = EmptyMap
  /\ lastNodeUsageInfo' = NoNodeUsage
  /\ round' = Idle
  /\ quotas' = [v \in DOMAIN quotas |->
                  [disk |-> quotas[v].disk, hard |-> limit[v], used |-> data[v]]]
  /\ diskInfos' = [d \in Disk |->
                     [AllocatableSize |-> Capacity[d], Used |-> DiskUsed(d),
                      Disabled |-> diskInfos[d].Disabled]]
  /\ UNCHANGED <<data, limit, cluster, changes>>

-----------------------------------------------------------------------------
Worker ==
  \/ \E T \in SUBSET DOMAIN quotas : ListPathQuotaInfos(T)
  \/ SyncQuotaPathUsage
  \/ \E T \in SUBSET Disk : ListQuotaDiskInfos(T)
  \/ SyncNodeQuotaStatus
  \/ GetNodeFails

Next ==
  \/ \E v \in Volume, size \in Sizes : Allocate(v, size)
  \/ \E v \in Volume, size \in Sizes : ExpandVolume(v, size)
  \/ \E v \in Volume : Release(v)
  \/ \E v \in Volume, n \in Contents : PodWrites(v, n)
  \/ \E d \in Disk, b \in BOOLEAN : SetHostPathDiskDisableState(d, b)
  \/ \E v \in Volume : RemovePV(v)
  \/ Worker
  \/ Restart

Spec == Init /\ [][Next]_vars

\* JitterUntil runs the round again and again, and an entry is older than
\* maxCacheTime (60 s) in every third round (30 s) at the latest.
FairSpec ==
  /\ Spec
  /\ WF_vars(Worker)
  /\ SF_vars(ListPathQuotaInfos(DOMAIN quotas))
  /\ SF_vars(ListQuotaDiskInfos(Disk))

-----------------------------------------------------------------------------
(* Properties. *)

\* The node's figures as they are.
Truth ==
  Usage([d \in Disk |->
           [MountPoint |-> d, Capacity |-> Capacity[d],
            QuotaSize |-> QuotaSize(quotas, d), Used |-> DiskUsed(d),
            Allocatable |-> diskInfos[d].AllocatableSize,
            Disabled |-> diskInfos[d].Disabled]])

MountPoints(info) ==
  [i \in DOMAIN info.DiskStatus |-> info.DiskStatus[i].MountPoint]

\* Once the node is left alone, the cluster sees its committed size, its and
\* its disks' usage (rounded) and the disks in the order of allocatable size,
\* whatever was changed between a listing and its report, and whatever calls
\* failed before they took effect (syncNodeQuotaStatus, shouldNodeUpdate).
NodeUsageConverges ==
  <>[](/\ nodeUsageAnn.Capacity = Truth.Capacity
       /\ nodeUsageAnn.QuotaSize = Truth.QuotaSize
       /\ RoundOffBytes(nodeUsageAnn.Used) = RoundOffBytes(Truth.Used)
       /\ MountPoints(nodeUsageAnn) = MountPoints(Truth)
       /\ \A i \in DOMAIN nodeUsageAnn.DiskStatus :
            RoundOffBytes(nodeUsageAnn.DiskStatus[i].Used)
              = RoundOffBytes(Truth.DiskStatus[i].Used))

\* A disk the administrator disables or enables ends up in that state in the
\* quota manager, though errors of SetQuotaDiskDisabledState are only logged
\* and the worker decides on a listing that is older than the annotation.
DisabledStatesApplied ==
  <>[](\A d \in Disk : diskInfos[d].Disabled <=> d \in disabledDisksAnn)

\* Every PV whose path is on this node ends up with the path and usage it
\* really has, although what was written before is not written again
\* (shouldUpdate, lastSyncQuotaInfoCache).
PVUsageConverges ==
  <>[](\A v \in DOMAIN quotas :
         pvUsageAnn[v] # Nil =>
           pvUsageAnn[v] = PVUsageInfo([quotas[v] EXCEPT !.used = data[v]]))

\* The cluster ends up with the node's disks as they are: "disk allocatable
\* quota size" and "is disk disabled" of DiskInfo (types.go), which
\* canNodeMatch places volumes by.
DiskStatusConverges ==
  <>[](\A i \in DOMAIN nodeUsageAnn.DiskStatus :
         /\ nodeUsageAnn.DiskStatus[i].Allocatable
              = Truth.DiskStatus[i].Allocatable
         /\ nodeUsageAnn.DiskStatus[i].Disabled = Truth.DiskStatus[i].Disabled)

-----------------------------------------------------------------------------
QuotaInfo == [disk : Disk, hard : Nat, used : Nat]

DiskInfo == [MountPoint : Disk, Capacity : Nat, QuotaSize : Nat, Used : Nat,
             Allocatable : Int, Disabled : BOOLEAN]

Map(S, T) == UNION {[D -> T] : D \in SUBSET S}

\* All sizes are natural numbers, but for the allocatable size of a disk, which
\* is overcommitted after a restart.  Of the reports, the sizes that are summed.
TypeOK ==
  /\ quotas \in Map(Volume, QuotaInfo)
  /\ diskInfos \in [Disk -> [AllocatableSize : Int, Disabled : BOOLEAN, Used : Nat]]
  /\ data \in [Volume -> Nat] /\ limit \in [Volume -> Nat]
  /\ disabledDisksAnn \subseteq Disk
  /\ nodeUsageAnn.Capacity \in Nat /\ nodeUsageAnn.QuotaSize \in Nat
  /\ round \in [at : {"idle", "usage", "disks", "node"},
                paths : Map(Volume, QuotaInfo), disks : Map(Disk, DiskInfo)]
  /\ changes \in Nat /\ faults \in Nat
=============================================================================
