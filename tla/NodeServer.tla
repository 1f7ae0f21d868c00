----------------------------- MODULE NodeServer -----------------------------
(***************************************************************************)
(* The node side of the driver: NodePublishVolume, NodeUnpublishVolume and *)
(* NodeExpandVolume (nodeserver.go), and the sync worker's deletion of the *)
(* volumes that are no longer in the meta store (syncworker.go).           *)
(*                                                                         *)
(* Calls of the kubelet run in goroutines of their own and hold the lock   *)
(* of their volume; the sync worker holds no lock and works on snapshots.  *)
(* Each call of the quota manager is one step, since it holds m.mu from    *)
(* its first to its last line (QuotaManager models what happens inside).   *)
(* The size of a volume is not modelled here, so an expansion only holds   *)
(* the lock.                                                               *)
(*                                                                         *)
(* External: the provisioner, which registers a volume before its PV       *)
(* exists, and deletes it when no pod uses it, never to use its name       *)
(* again; the kubelet, which for each target repeats a call until it       *)
(* succeeds; the kernel's mounts.  A target stands for the target paths of *)
(* pods that follow each other.                                            *)
(***************************************************************************)
EXTENDS Naturals

CONSTANTS
  Volume,     \* volume ids
  Ephemeral,  \* the volumes whose id says that they are ephemeral
  Target,     \* target paths of the kubelet
  VolumeOf,   \* [Target -> Volume]
  Handler,    \* goroutines that serve calls
  MaxFaults,  \* how many faults may happen
  Nil         \* no call

Stages == {"check", "pv", "path", "mount", "unmount", "release", "remove",
           "expand", "ok"}

Call == [kind : {"publish", "unpublish", "expand"}, target : Target,
         heard : BOOLEAN,  \* the kubelet still waits for the answer
         stage : Stages]

ASSUME ConstantsAssumption ==
  /\ Ephemeral \subseteq Volume
  /\ VolumeOf \in [Target -> Volume]
  /\ MaxFaults \in Nat

ASSUME NilAssumption == Nil \notin Call

VARIABLES
  life,          \* each volume's record in the meta store, and its PV
  use,           \* what the kubelet wants of, or knows about, each target
  call,          \* the call each goroutine serves, or Nil
  locks,         \* VolumeLocks: the volumes with a call under way
  paths,         \* the quota manager: the volumes that have a directory
  targetDirs,    \* the target paths that exist
  mounted,       \* how many mounts are stacked on each target
  stale,         \* targets on which the data of the mount was deleted
  round,         \* sync worker: where its round is
  quotaInfos,    \* sync worker: the volumes as it listed them
  todo,          \* sync worker: the volumes the loop at hand has left
  nextLoopShouldDeleteVolId,  \* sync worker: deletions that failed so far
  shouldDeleteVolIds,         \* sync worker: those of the last round
  faults         \* how many faults have happened

worker == <<round, quotaInfos, todo, nextLoopShouldDeleteVolId,
            shouldDeleteVolIds>>
disk == <<paths, targetDirs, mounted, stale>>
vars == <<life, use, call, locks, disk, worker, faults>>

\* A volume is put into the meta store, gets a PV, leaves the store, and its
\* PV is deleted.
Life == {"none", "registered", "bound", "released", "gone"}

Use == {"idle", "publishing", "published", "unpublishing"}

Registered == {v \in Volume : life[v] \in {"registered", "bound"}}

HasPV(v) == life[v] \in {"bound", "released"}

Init ==
  /\ life = [v \in Volume |-> "none"]
  /\ use = [t \in Target |-> "idle"]
  /\ call = [h \in Handler |-> Nil]
  /\ locks = {}
  /\ paths = {}
  /\ targetDirs = {}
  /\ mounted = [t \in Target |-> 0]
  /\ stale = {}
  /\ round = "idle"
  /\ quotaInfos = {}
  /\ todo = {}
  /\ nextLoopShouldDeleteVolId = {}
  /\ shouldDeleteVolIds = {}
  /\ faults = 0

-----------------------------------------------------------------------------
(* The provisioner and the kubelet. *)

NextLife(v) ==
  /\ \/ life[v] = "none" /\ life' = [life EXCEPT ![v] = "registered"]
     \/ life[v] = "registered" /\ life' = [life EXCEPT ![v] = "bound"]
     \/ /\ life[v] = "bound"
        /\ \A t \in Target :
             VolumeOf[t] = v => use[t] \in {"idle", "unpublishing"}
        /\ life' = [life EXCEPT ![v] = "released"]
     \/ life[v] = "released" /\ life' = [life EXCEPT ![v] = "gone"]
  /\ UNCHANGED <<use, call, locks, disk, worker, faults>>

\* The kubelet waits for no call about the target.
Free(t) ==
  \A h \in Handler : call[h] # Nil /\ call[h].target = t => ~call[h].heard

PodStarts(t) ==
  /\ use[t] = "idle"
  /\ life[VolumeOf[t]] = "bound"
  /\ use' = [use EXCEPT ![t] = "publishing"]
  /\ UNCHANGED <<life, call, locks, disk, worker, faults>>

PodStops(t) ==
  /\ use[t] \in {"publishing", "published"}
  /\ Free(t)
  /\ use' = [use EXCEPT ![t] = "unpublishing"]
  /\ UNCHANGED <<life, call, locks, disk, worker, faults>>

-----------------------------------------------------------------------------
(* Calls: a lock, the steps of the handler, an answer. *)

\* MUTANT of TryAcquire: the lock is not tested.
TryAcquireAlways(v) == locks' = locks \cup {v}

\* VolumeLocks.TryAcquire.  When it fails the call returns Aborted at once.
TryAcquire(v) == v \notin locks /\ locks' = locks \cup {v}

Begin(h, kind, t, stage) ==
  /\ call[h] = Nil
  /\ Free(t)
  /\ TryAcquire(VolumeOf[t])
  /\ call' = [call EXCEPT ![h] = [kind |-> kind, target |-> t,
                                  heard |-> TRUE, stage |-> stage]]
  /\ UNCHANGED <<life, use, disk, worker, faults>>

NodePublishVolume(h, t) ==
  use[t] = "publishing" /\ Begin(h, "publish", t, "check")

NodeUnpublishVolume(h, t) ==
  use[t] = "unpublishing" /\ Begin(h, "unpublish", t, "check")

NodeExpandVolume(h, t) ==
  use[t] = "published" /\ Begin(h, "expand", t, "expand")

At(h, kind, stage) ==
  call[h] # Nil /\ call[h].kind = kind /\ call[h].stage = stage

Goto(h, stage) ==
  call' = [call EXCEPT ![h].stage = stage] /\ UNCHANGED locks

\* The call ends, and its lock with it.
Finish(h) ==
  /\ call' = [call EXCEPT ![h] = Nil]
  /\ locks' = locks \ {VolumeOf[call[h].target]}

\* The answer reaches the kubelet if it still waits.
Return(h) ==
  /\ call[h] # Nil
  /\ call[h].stage = "ok"
  /\ use' = IF call[h].heard /\ call[h].kind # "expand"
              THEN [use EXCEPT ![call[h].target] =
                      IF call[h].kind = "publish" THEN "published" ELSE "idle"]
              ELSE use
  /\ Finish(h)
  /\ UNCHANGED <<life, disk, worker, faults>>

-----------------------------------------------------------------------------
(* The steps of NodePublishVolume. *)

\* The target path is made unless it is there; a mount on it ends the call.
PublishCheck(h) ==
  /\ At(h, "publish", "check")
  /\ targetDirs' = targetDirs \cup {call[h].target}
  /\ Goto(h, IF mounted[call[h].target] > 0 THEN "ok" ELSE "pv")
  /\ UNCHANGED <<life, use, paths, mounted, stale, worker, faults>>

GetPV(h) ==
  /\ At(h, "publish", "pv")
  /\ IF HasPV(VolumeOf[call[h].target]) THEN Goto(h, "path") ELSE Finish(h)
  /\ UNCHANGED <<life, use, disk, worker, faults>>

GetPath(h) ==
  /\ At(h, "publish", "path")
  /\ paths' = paths \cup {VolumeOf[call[h].target]}
  /\ Goto(h, "mount")
  /\ UNCHANGED <<life, use, targetDirs, mounted, stale, worker, faults>>

\* The mount fails if the directory was deleted meanwhile.
MountVolume(h) ==
  /\ At(h, "publish", "mount")
  /\ IF VolumeOf[call[h].target] \in paths
       THEN /\ mounted' = [mounted EXCEPT ![call[h].target] = @ + 1]
            /\ stale' = stale \ {call[h].target}
            /\ Goto(h, "ok")
       ELSE UNCHANGED <<mounted, stale>> /\ Finish(h)
  /\ UNCHANGED <<life, use, paths, targetDirs, worker, faults>>

Expand(h) ==
  /\ At(h, "expand", "expand")
  /\ Goto(h, "ok")
  /\ UNCHANGED <<life, use, disk, worker, faults>>

-----------------------------------------------------------------------------
(* The steps of NodeUnpublishVolume. *)

\* MUTANT of AfterCheck: an ephemeral volume is released only together with
\* its mount.
AfterCheckUnlessMounted(t) ==
  IF t \notin targetDirs THEN "ok"
  ELSE IF mounted[t] > 0 THEN "unmount" ELSE "remove"

\* A target path that does not exist ends the call.
AfterCheck(t) ==
  IF t \notin targetDirs THEN "ok"
  ELSE IF mounted[t] > 0 THEN "unmount" ELSE "release"

UnpublishCheck(h) ==
  /\ At(h, "unpublish", "check")
  /\ Goto(h, AfterCheck(call[h].target))
  /\ UNCHANGED <<life, use, disk, worker, faults>>

Unmount(h) ==
  /\ At(h, "unpublish", "unmount")
  /\ mounted' = [mounted EXCEPT ![call[h].target] = @ - 1]
  /\ stale' = IF mounted[call[h].target] = 1 THEN stale \ {call[h].target}
              ELSE stale
  /\ Goto(h, "release")
  /\ UNCHANGED <<life, use, paths, targetDirs, worker, faults>>

\* Deleting the volume's files empties every mount of it.
Wipe(v) ==
  stale' = stale \cup {t \in Target : VolumeOf[t] = v /\ mounted[t] > 0}

\* The quota manager's ReleaseVolumePath: nothing to do for an unknown volume.
ReleaseVolumePath(v) ==
  /\ paths' = paths \ {v}
  /\ IF v \in paths THEN Wipe(v) ELSE UNCHANGED stale

Release(h) ==
  /\ At(h, "unpublish", "release")
  /\ IF VolumeOf[call[h].target] \in Ephemeral
       THEN ReleaseVolumePath(VolumeOf[call[h].target])
       ELSE UNCHANGED <<paths, stale>>
  /\ Goto(h, "remove")
  /\ UNCHANGED <<life, use, targetDirs, mounted, worker, faults>>

\* os.RemoveAll would delete what is still mounted on the target, and fail.
RemoveTarget(h) ==
  /\ At(h, "unpublish", "remove")
  /\ IF mounted[call[h].target] > 0
       THEN /\ Wipe(VolumeOf[call[h].target])
            /\ UNCHANGED targetDirs
            /\ Finish(h)
       ELSE /\ targetDirs' = targetDirs \ {call[h].target}
            /\ UNCHANGED stale
            /\ Goto(h, "ok")
  /\ UNCHANGED <<life, use, paths, mounted, worker, faults>>

-----------------------------------------------------------------------------
(* The sync worker: a round of populatorLoopFunc, up to the end of         *)
(* cleanOrphanQuotaPath.                                                   *)

ListPaths ==
  /\ round = "idle"
  /\ round' = "retry"
  /\ quotaInfos' = paths
  /\ todo' = shouldDeleteVolIds
  /\ nextLoopShouldDeleteVolId' = {}
  /\ UNCHANGED <<life, use, call, locks, disk, shouldDeleteVolIds, faults>>

\* One volume of either loop.
CleanPath(v) ==
  /\ v \in todo
  /\ ReleaseVolumePath(v)
  /\ todo' = todo \ {v}
  /\ UNCHANGED <<life, use, call, locks, targetDirs, mounted, round, quotaInfos,
                 nextLoopShouldDeleteVolId, shouldDeleteVolIds, faults>>

\* MUTANT of Orphans: the operands are swapped.
OrphansSwapped == Registered \ quotaInfos

\* MUTANT of Orphans: the meta store is not asked.
OrphansAll == quotaInfos

\* The listed volumes that are not in the meta store.
Orphans == quotaInfos \ Registered

ListMetaInfos ==
  /\ round = "retry"
  /\ todo = {}
  /\ round' = "clean"
  /\ todo' = Orphans
  /\ UNCHANGED <<life, use, call, locks, disk, quotaInfos,
                 nextLoopShouldDeleteVolId, shouldDeleteVolIds, faults>>

EndRound ==
  /\ round = "clean"
  /\ todo = {}
  /\ round' = "idle"
  /\ shouldDeleteVolIds' = nextLoopShouldDeleteVolId
  /\ UNCHANGED <<life, use, call, locks, disk, quotaInfos, todo,
                 nextLoopShouldDeleteVolId, faults>>

-----------------------------------------------------------------------------
(* Faults. *)

Fault == faults < MaxFaults /\ faults' = faults + 1

\* A step of a call returns an error before it has an effect, or the answer
\* is lost.
CallFails(h) ==
  /\ Fault
  /\ call[h] # Nil
  /\ Finish(h)
  /\ UNCHANGED <<life, use, disk, worker>>

KubeletGivesUp(h) ==
  /\ Fault
  /\ call[h] # Nil
  /\ call[h].heard
  /\ call' = [call EXCEPT ![h].heard = FALSE]
  /\ UNCHANGED <<life, use, locks, disk, worker>>

\* Removing the directory fails half way: the volume keeps its path.
ReleaseFails(h) ==
  /\ Fault
  /\ At(h, "unpublish", "release")
  /\ VolumeOf[call[h].target] \in Ephemeral \cap paths
  /\ Wipe(VolumeOf[call[h].target])
  /\ Finish(h)
  /\ UNCHANGED <<life, use, paths, targetDirs, mounted, worker>>

CleanPathFails(v) ==
  /\ Fault
  /\ v \in todo \cap paths
  /\ Wipe(v)
  /\ todo' = todo \ {v}
  /\ nextLoopShouldDeleteVolId' = nextLoopShouldDeleteVolId \cup {v}
  /\ UNCHANGED <<life, use, call, locks, paths, targetDirs, mounted, round,
                 quotaInfos, shouldDeleteVolIds>>

\* ListPathQuotaInfos fails: the round goes on with an empty list.
ListPathsFails ==
  /\ Fault
  /\ round = "idle"
  /\ round' = "retry"
  /\ quotaInfos' = {}
  /\ todo' = shouldDeleteVolIds
  /\ nextLoopShouldDeleteVolId' = {}
  /\ UNCHANGED <<life, use, call, locks, disk, shouldDeleteVolIds>>

\* MUTANT of ListMetaInfosFails: the error is taken for an empty meta store.
ListMetaInfosFailureIgnored ==
  /\ Fault
  /\ round = "retry"
  /\ todo = {}
  /\ round' = "clean"
  /\ todo' = quotaInfos
  /\ UNCHANGED <<life, use, call, locks, disk, quotaInfos,
                 nextLoopShouldDeleteVolId, shouldDeleteVolIds>>

\* The ConfigMap cannot be read: the cleaning ends, with shouldDeleteVolIds
\* as it was.
ListMetaInfosFails ==
  /\ Fault
  /\ round = "retry"
  /\ todo = {}
  /\ round' = "idle"
  /\ UNCHANGED <<life, use, call, locks, disk, quotaInfos, todo,
                 nextLoopShouldDeleteVolId, shouldDeleteVolIds>>

\* The plugin dies and is started again; mounts and directories stay.
Restart ==
  /\ Fault
  /\ call' = [h \in Handler |-> Nil]
  /\ locks' = {}
  /\ round' = "idle"
  /\ quotaInfos' = {}
  /\ todo' = {}
  /\ nextLoopShouldDeleteVolId' = {}
  /\ shouldDeleteVolIds' = {}
  /\ UNCHANGED <<life, use, disk>>

-----------------------------------------------------------------------------
Kubelet ==
  \E t \in Target :
    \/ PodStarts(t)
    \/ PodStops(t)
    \/ \E h \in Handler : \/ NodePublishVolume(h, t)
                          \/ NodeUnpublishVolume(h, t)
                          \/ NodeExpandVolume(h, t)

Serve(h) ==
  \/ PublishCheck(h) \/ GetPV(h) \/ GetPath(h) \/ MountVolume(h)
  \/ UnpublishCheck(h) \/ Unmount(h) \/ Release(h) \/ RemoveTarget(h)
  \/ Expand(h)
  \/ Return(h)

SyncWorker ==
  \/ ListPaths
  \/ \E v \in todo : CleanPath(v)
  \/ ListMetaInfos
  \/ EndRound

Faulty ==
  \/ \E h \in Handler : CallFails(h) \/ KubeletGivesUp(h) \/ ReleaseFails(h)
  \/ \E v \in todo : CleanPathFails(v)
  \/ ListPathsFails
  \/ ListMetaInfosFails
  \/ Restart

Next ==
  \/ \E v \in Volume : NextLife(v)
  \/ Kubelet
  \/ \E h \in Handler : Serve(h)
  \/ SyncWorker
  \/ Faulty

Spec == Init /\ [][Next]_vars

\* The worker's timer fires for ever, and a round goes on.
FairSpec == Spec /\ WF_vars(SyncWorker)

-----------------------------------------------------------------------------
(* Properties. *)

\* Every variable has its type.
TypeOK ==
  /\ life \in [Volume -> Life]
  /\ use \in [Target -> Use]
  /\ call \in [Handler -> Call \cup {Nil}]
  /\ locks \subseteq Volume
  /\ paths \subseteq Volume
  /\ targetDirs \subseteq Target
  /\ mounted \in [Target -> Nat]
  /\ stale \subseteq Target
  /\ round \in {"idle", "retry", "clean"}
  /\ quotaInfos \subseteq Volume
  /\ todo \subseteq Volume
  /\ nextLoopShouldDeleteVolId \subseteq Volume
  /\ shouldDeleteVolIds \subseteq Volume
  /\ faults \in Nat

\* Ephemeral volumes have one target each.
EphemeralOnce ==
  \A s, t \in Target :
    VolumeOf[s] = VolumeOf[t] /\ VolumeOf[s] \in Ephemeral => s = t

\* A pod that was told its volume is there has it, mounted once, with its data,
\* until the pod stops: no unpublish of another or an earlier pod, no retry and
\* no round of the sync worker takes it away.  Needs EphemeralOnce.
PublishedVolumeServed ==
  \A t \in Target : use[t] = "published" =>
    /\ mounted[t] = 1
    /\ t \notin stale
    /\ VolumeOf[t] \in paths

\* Once an unpublish is confirmed nothing of the target is left, not even by a
\* publish the kubelet gave up on.
UnpublishedLeavesNothing ==
  \A t \in Target : use[t] = "idle" => mounted[t] = 0 /\ t \notin targetDirs

\* An ephemeral volume that no pod uses has no directory, whatever failed or
\* was cut off on the way.  Needs EphemeralOnce.
EphemeralReleased ==
  \A t \in Target :
    VolumeOf[t] \in Ephemeral /\ use[t] = "idle" => VolumeOf[t] \notin paths

\* The directory of a persistent volume is removed only after the volume left
\* the meta store, although the sync worker decides on old lists.
RegisteredKeepsPath ==
  [][\A v \in Volume \ Ephemeral :
       v \in paths \ paths' => v \notin Registered]_vars

\* The directory of a deleted volume goes away in the end, for good: failed
\* deletions, restarts and late calls leave nothing behind.
OrphansCleaned ==
  \A v \in Volume : life[v] = "gone" ~> [](v \notin paths)

-----------------------------------------------------------------------------
(* The inductive invariant; the proofs are in NodeServerProofs. *)

\* One call per volume at a time, which holds the volume's lock.
LockInv ==
  /\ \A h \in Handler : call[h] # Nil => VolumeOf[call[h].target] \in locks
  /\ \A g, h \in Handler :
       /\ call[g] # Nil /\ call[h] # Nil
       /\ VolumeOf[call[g].target] = VolumeOf[call[h].target]
       => g = h

\* Volumes with a PV, at present or formerly.
Provisioned == {v \in Volume : life[v] \in {"bound", "released", "gone"}}

\* Volumes that have left the meta store.
Deleted == {v \in Volume : life[v] \in {"released", "gone"}}

\* What the quota manager and the sync worker know of the lives of volumes.
LifeInv ==
  /\ paths \cup quotaInfos \subseteq Provisioned
  /\ todo \cup nextLoopShouldDeleteVolId \cup shouldDeleteVolIds \subseteq Deleted
  /\ \A t \in Target :
       /\ use[t] # "idle" => VolumeOf[t] \in Provisioned
       /\ use[t] \in {"publishing", "published"} => life[VolumeOf[t]] = "bound"

\* What the kubelet wants while a call is under way.
WantInv(c) ==
  \/ /\ c.kind = "publish"
     /\ use[c.target] \in {"publishing", "unpublishing"}
     /\ c.heard => use[c.target] = "publishing"
  \/ c.kind = "unpublish" /\ use[c.target] = "unpublishing"
  \/ c.kind = "expand" /\ use[c.target] \in {"published", "unpublishing"}

\* The target of a call, stage by stage.
StageInv(c) ==
  \/ c.stage = "check" /\ c.kind # "expand"
  \/ /\ c.stage \in {"pv", "path", "mount"}
     /\ c.kind = "publish"
     /\ c.target \in targetDirs
     /\ mounted[c.target] = 0
  \/ /\ c.stage = "unmount"
     /\ c.kind = "unpublish"
     /\ c.target \in targetDirs
     /\ mounted[c.target] = 1
  \/ /\ c.stage \in {"release", "remove"}
     /\ c.kind = "unpublish"
     /\ c.target \in targetDirs
     /\ mounted[c.target] = 0
  \/ /\ c.stage = "ok"
     /\ c.kind = "publish"
     /\ mounted[c.target] = 1
  \/ /\ c.stage = "ok"
     /\ c.kind = "unpublish"
     /\ mounted[c.target] = 0
     /\ c.target \notin targetDirs
  \/ c.stage \in {"expand", "ok"} /\ c.kind = "expand"

CallInv ==
  \A h \in Handler : call[h] # Nil => WantInv(call[h]) /\ StageInv(call[h])

TargetInv ==
  \A t \in Target :
    /\ mounted[t] \in {0, 1}
    /\ mounted[t] = 1 => t \in targetDirs
    /\ use[t] = "idle" => t \notin targetDirs
    /\ use[t] = "published" => mounted[t] = 1

Inv == TypeOK /\ LockInv /\ LifeInv /\ CallInv /\ TargetInv

\* With EphemeralOnce: a mount a pod uses, or will use, has its data.
DataInv ==
  \A t \in Target :
    use[t] \in {"publishing", "published"} /\ mounted[t] = 1 =>
      t \notin stale /\ VolumeOf[t] \in paths

\* With EphemeralOnce: the directory of an ephemeral volume is kept only as
\* long as its target path, which leads to it.
EphemeralInv ==
  /\ \A t \in Target : VolumeOf[t] \in Ephemeral \cap paths => t \in targetDirs
  /\ \A h \in Handler : call[h] # Nil /\ call[h].stage = "remove" =>
       VolumeOf[call[h].target] \notin Ephemeral \cap paths
=============================================================================
