# hostpathpv-plugin: a TLA+ verification project

The repository is a CSI driver for Kubernetes that gives pods directories of a
node's XFS disks as persistent volumes, each limited by an XFS project quota.
This directory models its stateful parts in TLA+, checks them with TLC on small
instances and proves the central properties with TLAPS for every instance.

## 1. The system

| Part | State it keeps | Operations | Talks to |
|---|---|---|---|
| quota manager (`quotamanager_xfs.go`) | per disk: size, sum of quotas, allocatable size, disabled; per volume: disk and quota | get a volume's path, expand, release, list, disable a disk, restore at start | quota provider, disks |
| quota provider (`quota_xfs.go`, `projidallocator.go`, `quota_common_linux.go`) | path -> project id, bitmap of taken ids | set, get and delete a project quota | kernel |
| controller server (`controllerserver.go`) | locks by volume name | create, delete, expand a volume | meta store |
| meta store (`metestore.go`) | the keys of one ConfigMap, in the API server | add, remove, list | API server |
| node server (`nodeserver.go`) | locks by volume id; mounts, in the kernel | publish, unpublish, expand | quota manager, PV objects |
| sync worker (`syncworker.go`) | deletions to repeat, last published usage | one round per period: delete orphans, publish usage, apply disabled disks | quota manager, meta store, API server |
| object caches (`hostpathclient`) | copies of pods, nodes and PVs | list and watch, convert | API server |
| scheduler extender (`extender-scheduler`) | none of its own | filter nodes, score them, bind a pod | object caches, API server |
| kubectl plugin, liveness probe, gRPC shell, entry points | none | print, probe, route | everything |

How they interact.  The provisioner (outside the repository) calls the
controller, which only records the volume's id in the ConfigMap.  The scheduler
picks a node and writes it into the PV.  The kubelet asks the node server of
that node to publish the volume; the node server asks the quota manager for the
volume's directory, which is made on first use, and bind-mounts it.  Deleting a
volume removes its id from the ConfigMap; each node's sync worker deletes the
directories of volumes that are not in the ConfigMap.  A volume that is missing
from the ConfigMap by mistake therefore loses its data.

What is hard here: the process can die between any two kernel calls and must
rebuild its caches from the disks; every kernel call and every removal can
fail half way through an operation; sizes are `uint64` and wrap; the ConfigMap is
changed by read-modify-write from several goroutines, whose requests outlive the
callers' deadlines and even the process; the sync worker acts on snapshots and
reports only what differs from what it remembers; the scheduler extender decides
on a cache that is behind the API server while it changes what the cache is of.
`PROJECT.json` lists these hazards at their lines.

## 2. Modules

| Module | Models | Role |
|---|---|---|
| `QuotaManager` | quota manager, quota provider, id allocator, `FakeQuotaManager` | specification, properties, inductive invariants |
| `QuotaManagerProofs`, `QuotaManagerRestartProofs` | | proofs under all faults; proofs with working removals or clean restarts |
| `QuotaHistory` | | the same with a history variable, whether there was a restart |
| `SumTheorems` | | what `SumFunctionOnSet` of the community modules computes, for every finite set; sorting |
| `QuotaAccountingProofs` | | proofs about the sums of quotas |
| `MCQuotaManager`, `MCQuotaHistory`, `QM_*.cfg` | | instances |
| `VolumeRegistry` | what the meta store promises | abstract specification |
| `ControllerServer` | controller server, meta store, volume locks | specification; implements `VolumeRegistry` |
| `ControllerServerProofs` | | proofs, the refinement included |
| `MCControllerServer`, `CS_*.cfg` | | instances |
| `NodeServer` | node server, volume locks, the sync worker's cleaning | specification, properties, inductive invariants |
| `NodeServerProofs` | | proofs |
| `MCNodeServer`, `NS_*.cfg` | | instances |
| `NodeStatus` | the sync worker's reports, the hostpath client, the quota manager's listings | specification, properties |
| `Placement` | `canNodeMatch`, the scores of prioritize | functions and a reference definition |
| `NodeReport` | prioritize and the filter's `canNodeMatch` on what the node reports | composes NodeStatus with Placement |
| `NodeReportProofs` | | proofs about NodeStatus's sizes, the order of its report, `canNodeMatch` and the scores |
| `MCNodeStatus`, `ST_*.cfg` | | instances |
| `Scheduler` | PV cache, filter, bind | specification, properties, inductive invariants; uses Placement |
| `BindHistory` | | the same with a history variable, the nodes each PV was pinned to |
| `SchedulerProofs` | | proofs |
| `MCScheduler`, `SC_*.cfg` | | instances |

`PROJECT.json` maps every definition to its source lines.

### QuotaManager

One process with one mutex, so the interleaving is between the steps of one
operation and the faults.  `diskQuotaInfos`, `quotas`, `quotaPathAndId` and
`allocated` are the caches of the same names (the allocator's bitmap is a set);
`dirs`, `limit` and `disableAttr` are what disks and kernel hold and outlive the
process; `op` holds the locals of an operation between two kernel calls;
`mode` says whether the process is down, restoring, serving or has fallen back
to the `FakeQuotaManager`.  Making or expanding a volume takes three steps (book
the directory, set the project id, set the limit) with a possible failure or
crash between them; the other operations are one step each.  Sizes are `uint64`
values of a small word (`Word`), the kernel counts in blocks (`Truncate`).  A
disk is chosen among those `allocateNewQuotaDir` could pick, since the sort it
uses does not fix the order of equals.  `Faults` is the set of failures an
instance admits: `crash` (at any point) or `restart` (between operations),
failing id, limit and statfs calls, a failing removal, a disk that is not mounted
or not readable at start, an unreadable attribute, and a foreign directory.

Left out: the used bytes and `lastSync`, which no decision of the manager reads;
they are in NodeStatus, where they are reported.

### ControllerServer and VolumeRegistry

A `CreateVolume` or `DeleteVolume` runs in a goroutine: it reads the ConfigMap,
sends the changed map with the version it read (`GetAndSend`), and waits for the
API server to accept or refuse it (`Process`).  `updates` holds the writes on
their way; they survive the goroutine's failure and the process.  The caller is
external: it repeats failed calls, one at a time for each volume, deletes what
was confirmed and never reuses a name (the provisioner makes names from object
UIDs).  It may stop waiting at any time, and the handler does not notice.
`VolumeRegistry` states what the rest of the system relies on: a set of
registered volumes, each added or removed on its own and in the right phase of
its life.  `ControllerExpandVolume` takes a lock nobody else takes and changes
nothing.

### NodeServer

The three calls of the kubelet run in goroutines under the lock of their volume
and are cut into the steps between which others can act: look at the target, get
the PV, get the path from the quota manager, mount; look, unmount, release the
path of an ephemeral volume, remove the target.  Beside them, without locks, the
sync worker lists the paths, repeats the failed deletions of the last round,
reads the meta store and deletes what it did not find there.  A call of the quota
manager is one step because it holds the manager's mutex; that `paths` behaves as
it does here is what QuotaManager checks in detail.  `stale` records the mounts
whose files were deleted under them.  External: the life of a volume (registered
before its PV exists, unregistered when no pod uses it), the kubelet (for each
target, it repeats a call until it succeeds, and does not unpublish while it waits
for an answer), the kernel's mounts.

`shouldDeleteVolIds` is a set here; in the code it is a slice that can hold a
volume twice (a hazard in `PROJECT.json`).

### NodeStatus

The second half of a round of the sync worker, in four steps: list the paths and
report each to its PV, list the disks, then tell the disks the state the
administrator asked for and report them on the node.  Between two steps volumes are
made, grown and released, pods write, the administrator changes the annotation,
PVs go away.  A listing reads the used bytes anew only of entries older than
`maxCacheTime`, so which ones is a choice.  `lastSyncQuotaInfoCache` and
`lastNodeUsageInfo` are what the worker remembers to have written.  A failed listing
is an empty one, as in the code.  A write may fail before it arrives and, if
`LostAnswers`, after it.  The annotations' encodings are abstracted to the records they carry; sizes
are reported as `int64`, and `RoundOffBytes` has units of 2 and 4 bytes.

Restart takes the volumes' quotas from the kernel's limits, which an expansion did
not raise, and starts with the whole capacity allocatable: what QuotaManager has in
detail is here because a report after a restart can be negative.

### Placement

`canNodeMatch` and the scores, as functions.  `matched` is the loop of `canNodeMatch`: how
many requests it gets past, on the state `Left` that its two branches change (`Taken`,
`GivenUp`).  `Fits` is the reference: some
distribution of the requests over the disks exceeds none.  `NodeReport` applies it to the
disks of a report that take volumes (`Usable`): one that is reported disabled takes none,
though `canNodeMatch` counts its space.  The code computes scores
in `float64`; for the sizes of disks (below 2^46) its truncation is the integer
division of the model.

### Scheduler

A PV is made, bound to its claim, released and deleted at the API server; every
change is an event on its way to the extender's cache.  The informer takes the
events of a PV in batches (`Process`), and the first one that cannot be converted (the
PV is not bound) ends its batch and drops the rest.  A broken watch lists anew
(`Relist`).  The filter (`FilterNode`) and `Bind` look PVs up by claim in the cache.
`Schedule` is a pass of the filter and kube-scheduler's choice; `Bind` then pins one
volume after the other and binds the pod.  What it does about a volume it decides when it
reads the cached PV (`SkipClaim`, `BindConflict`, `BindHostPathPV`, which only sends the
patch); the patch arrives, or fails before or after it took effect, in a later step
(`PatchArrives`, `PatchFails`).  Several pods are bound at once, so between the two steps
of one Bind another may read the same PV, patch it or see its event.  Nothing waits for
the cache.  External: kube-scheduler, provisioner, PV controller, and the node's reports
(`DiskStatus` is constant here: they are NodeStatus's subject).

Two Binds that both find a volume without a bind node, in a cache that is behind or in one
that is not, both patch it, and the second takes it away from the first (`SC_TwoNodes`).
What holds all the same is stated in `BindHistory`, which remembers the nodes each PV was
pinned to: `PodFollowsVolume` says that a scheduled pod is on a node its volume was pinned
to, and that this is the bind node unless the volume was pinned to a second one too.

`MaxDeltas` bounds the number of deltas of a PV that are on their way when it is written
again: `Bind` of a PV that was released keeps patching it, since the cache never learns the
bind node.  Not modelled: a Bind that kube-scheduler calls for a pod while an earlier one is
still running (its HTTP timeout), or for a pod that is bound already in a view of its own
that is behind; a patch that arrives after its error was returned; PVs without a CSI
source, on which `toPersistentVolume` would dereference nil.

## 3. Runs

| Run | Instance | Result |
|---|---|---|
| `QM_AllFaults` | 2 disks, 2 volumes, 2 ids, one size, all faults but foreign directories | pass: ids, provider map, caches and directories agree, and sizes stay `uint64` |
| `QM_Crash` | 2 sizes; crashes at any point, failing quota calls, foreign directories | pass: ids unique, every directory of a volume accounted for, `QuotaSize` exact |
| `QM_CleanRestart` | 3 volumes for 2 ids, 3 sizes; restarts between operations, failing quota calls | pass: the restore never fails, limits are within the quotas also when ids are used again, and until the first restart no disk is promised beyond its capacity |
| `QM_ExpandLimit` | no faults | violation: an expansion leaves the kernel's limit as it was |
| `QM_RestartOvercommit` | restarts | violation: allocatable size is the whole capacity after a restart |
| `CS_Calls` | 2 volumes, 3 goroutines, 2 faults, with fairness | pass: confirmed volumes registered, deleted ones not, `VolumeRegistry` implemented, every requested creation and deletion gets through |
| `NS_Safety` | a persistent volume with 2 targets, an ephemeral one, 2 goroutines, 2 faults | pass: pods keep their volumes, nothing is left behind, registered volumes keep their directories |
| `NS_Orphans` | a persistent volume with 2 targets, 2 goroutines, 3 faults, with fairness | pass: the directory of a deleted volume goes away for good |
| `ST_Reports` | 2 disks, 2 volumes, 4 changes, 1 fault, with fairness | pass: reports become true, disks get the state asked for; on every report ever published scores follow the free share, `canNodeMatch` refuses no one or two volumes that the enabled disks can take and, if no disk is disabled, accepts only what can be placed |
| `ST_Stale` | the same without faults | violation: allocatable size and disabled state of a disk stay out of date |
| `SC_Pods` | 3 nodes, 3 PVs, 2 pods that share a volume, 2 faults, with fairness | pass: pods are on a node their volumes were pinned to, and part from a volume only if it was pinned twice; the cache has the right bind nodes; a pod that can be scheduled is |
| `SC_TwoNodes` | 4 PVs, one of another driver, without faults | violation: two pods that share a volume are bound to two nodes |

Why the bounds are enough.  Two disks of different sizes make the choice of a
disk matter; capacities of 6 and 4 with sizes 2, 3 and 4 fill a disk exactly, miss
it by one and exceed it, and 3 is no whole number of blocks; two ids run out with
two volumes and a failed release, or three volumes; the word is just large enough
that a wrapped difference differs from every size.  Two volumes are what a
whole-map write needs to lose one; three goroutines allow a late call, its
repetition and a call about the other volume at once.  Two targets of one volume
with two goroutines are what calls of one volume need to meet; two faults allow
a call that is given up and a restart or a failed deletion after it.  The number
of faults is bounded, the moments are not.  Four changes are two volumes made, one
grown past what was left, or a disk disabled, filled and enabled again, with a fault or a
restart anywhere in between; disks of 5 and 4 change their order when a volume comes,
and contents of 0 and 3 round to different units.  Two pods that share a volume, with a second
volume and an ephemeral one, on a node with two disks, one with one disk and one without
any, reach the branches of filter and bind (those about a volume of another driver, which
skip it, only in `SC_TwoNodes`: a fourth PV is more than the liveness check can take); a PV
that is made during the run sends its first two events in one batch or in two (`MaxDeltas` is 2).  Lists of up to two requests, and two of
three, are tried on each report: `canNodeMatch` refuses some lists of three that
fit, and the property says so.  Symmetry is used in safety runs only,
over volumes and ids, goroutines and interchangeable targets.

Deadlock is checked in the QM and ST runs.  In the other runs every volume or pod may be
deleted and every fault spent, so they may stop.

Fairness.  `CS_Calls`: the caller repeats an unfinished call (the provisioner
retries with backoff), a goroutine that can go on does, and a write somebody waits
for is processed; nothing is assumed of writes nobody waits for.  `NS_Orphans`: the
sync worker's goroutine goes on and its timer fires for ever (`JitterUntil` with
a channel that is never closed); nothing is assumed of the kubelet or of calls.
`ST_*`: the same, weakly, and strongly that a listing reads everything anew again and
again: an entry read in one round is older than `maxCacheTime` (60 s) three rounds (of
30 s) later, so it is not skipped for ever.  `SC_Pods`: the informer's goroutine applies
events that have arrived, kube-scheduler tries a pod that the filter passes, and a `Bind`
that was called goes on.
Faults are never fair.

### Findings

`PROJECT.json` quotes the lines.  An expansion of a volume in use is accounted and
logged but never reaches the kernel, because `SetProjectQuota` returns at once for
a path it knows.  After a restart `AllocatableSize` ignores the restored quotas
until something recomputes it, so a disk can be promised twice.  `shouldNodeUpdate`
compares `disk.Allocatable` with itself and never looks at `Disabled`, so a node
reports neither when nothing else changes.  `Bind` writes the bind node
whenever the cached PV had none; a second Bind of a pod with the same volume that read the
cache before the event of the first was applied moves it, and the two pods end up on two
nodes.

Other behaviours bound what is claimed; the hazards in `PROJECT.json` tell where.  A
crash between making a directory and setting its id, like a foreign directory on a
quota disk, makes the next restore give up, so `RestoreSucceeds` is claimed for disks
that hold only volumes and for stops between operations.  A crash between setting the
project id and the limit leaves a volume that is served without a limit, so
`LimitEnforced` is claimed for the same.  A report that arrived although its write
failed can stay (`LostAnswers`), so the ST runs exclude it.  The PV cache can miss a
bound PV and keep a released one, so `CacheFollows` speaks of the bound PVs in it.
`canNodeMatch` counts the space of disks that are reported disabled, where
`allocateNewQuotaDir` makes no directory, so a pod can be sent to a node, and its volumes
pinned there, that cannot serve it: `MatchIsPlacement` claims that what is accepted can be
placed for reports without a disabled disk only.  An error while the disabled attribute is
read counts as enabled (`getDiskQuotaDisableState`), so that a disabled disk stays empty is not claimed.  No node suits a pod whose volumes were pinned to different nodes by
Binds that failed half-way, and nothing unpins them, so `SchedulableIsScheduled` speaks of
pods for which some node stays suitable.

## 4. Proofs

All theorems hold for every value of the constants that satisfies the named
assumptions of the modules (sizes fit the word, `Nil` is none of the other values,
and so on).  TLC evaluates these assumptions in the runs.

`QuotaManagerProofs`, under all faults: `Inv` is inductive.  `IdPoolExact`
(an id is taken exactly when one path, or the operation under way, has it) needs
`TrackedDirHasId` (what the provider believes of a path is on the disk), which needs
`OpInv` (the operation under way has a directory nobody else tracks) and `TodoInv`
(what is still to restore is not tracked yet).  `QuotasHaveDirs` follows along the
way: an aborted operation deletes the directory it made and no other.

`QuotaManagerRestartProofs`: if removals, listings and mounts work, `UniqueInv` is
inductive relative to `Inv`: every id on a disk is known to the process while it
serves, so a new one differs from all.  If moreover the process stops only between
operations, `CleanInv` is: every directory is complete, hence every path can be
loaded, hence the restore succeeds; and limits never exceed the quotas.

`ControllerServerProofs`: `Inv` is inductive.  The key is `UpdateInv`: a write at
the current version is the current map with one change, and a late creation either
finds its volume still being created, or its version is out of date, or its volume
is in the map already.  That needs `LockInv` (one creation per volume) and
`SenderInv`.  The refinement follows: `Process` maps to a step of `VolumeRegistry`
or to none.

`NodeServerProofs`: `Inv` is inductive: one call per volume (`LockInv`), the sync
worker's lists hold only volumes that have left the meta store (`LifeInv`), and each
stage of a call finds its target as the stage before left it (`CallInv`, `TargetInv`).
It gives `UnpublishedLeavesNothing` and `RegisteredKeepsPath`.  With one target per
ephemeral volume (`EphemeralOnce`, an antecedent of the theorems), `DataInv` and
`EphemeralInv` are inductive relative to it and give `PublishedVolumeServed` and
`EphemeralReleased`.  Without the antecedent they fail: `NodeUnpublishVolume` of one
target deletes the ephemeral volume's directory under the other.

`QuotaAccountingProofs`.  `SumTheorems` gives what it rests on: the sum of a function
over a finite set exists, does not depend on the order of the summation, loses exactly
the summand that is removed and is bounded.  The library's induction theorems are out
of the provers' reach, so each of these facts is proved from a least counterexample: a
nonempty set of naturals has a least element, which is proved first.
`CapacityKeptUntilRestart` holds under all faults and without further assumptions:
`FirstRun` (`QuotaSizeAccounts` and `WithinCapacity`; the operation under way was checked
against what its disk has left; the first start finds nothing to load) is inductive
relative to `Inv` as long as there was no restart (`FirstRunInv`).  `QuotaSizeIsSum` is about crashes and
restarts, after which a disk may be promised more than it has; that the sum still does
not wrap follows from the number of ids: a volume in `quotas` has one of its own
(`UniqueInv`), so the sum is at most the largest size times the number of ids.
`SizesFit` says that this product is below 2^64 (with the 5000 ids of `common.go`,
that no volume is larger than 3 PiB); `DisksWork`, that removals, listings and mounts succeed.
Without the latter, `QuotaSize` and the volumes differ: a release whose removal failed
leaves a directory that the restore counts again.

`SchedulerProofs`: `CacheInv` is inductive for a cache at any pace and relates, for each
PV, the API server, the deltas on their way and the cached copy: the last delta of a PV that
is not deleted is the PV as it is, deltas before the first bound one cannot be
converted, none after it is dropped.  It gives `CacheFollows`.  `PatchInv` says that the
patch on its way is for the claim the loop is at.  `BindInv` is inductive relative to both
and gives `PodFollowsVolume`: whatever the API server, the cache or a delta knows as a bind
node is among the nodes the PV was pinned to (`KnownInv`), and a pod that was placed, or
whose `Bind` has passed a claim, is or would be on such a node (`PlacedInv`).  Neither
depends on the order in which the Binds read and write, because the set of those nodes only
grows.  `OnePVPerClaim`, a hypothesis of the theorem, excludes a claim that is deleted and
made again under its name while the released PV of its predecessor is still in the cache:
`GetPersistentVolumeByClaim` may then return the released one, `Bind` pins that and not the
new one, and TLC finds `PodFollowsVolume` violated in an instance with two such PVs.

`NodeReportProofs`: every size is a natural number (`TypeOK`), except the allocatable size
of a disk, so the report's `Capacity` and `QuotaSize` are; on any such report, and against any
others, `ScoresFollowFreeShare` follows from the monotonicity of the two divisions
(`mapScoringNode`, `reduceScoringNode`), capacities of 0 and overcommitted nodes included.
`MatchFollowsReports` is `MatchIsPlacement` for lists of any length.  Its inductive invariant
is `ReportSorted`: whatever the node has reported lists its disks by allocatable size, the
largest first, since a listing is sorted before it is written.  That lists can be sorted at all
is `SortExists`.  `MatchedFacts` establishes that `matched` is the function its equation
describes.  From there on the argument is by a state of the loop of the least size that is
counted wrongly: a request taken from a disk can be added to any placement of the rest, and a
placement on the disks left is one on all (`MatchedFits`), so what is accepted can be placed.
Conversely two requests that can be placed either share a disk, and then the first disk takes
both, or are on two, and then the first two disks take them (`FitsMatched`); this is where the
order of the report and the sorting of the requests are needed.  What can be placed on the
enabled disks can be placed on all (`UsableFits`), and if none is disabled the two are the
same.  With three requests the
converse fails: 3, 2 and 2 fit on disks of 4 and 3, and `canNodeMatch` refuses them.

Only model-checked: the liveness properties, which the prover cannot state about fairness: `CallsGetThrough`, `OrphansCleaned`,
`NodeUsageConverges`, `DisabledStatesApplied`, `PVUsageConverges`, `SchedulableIsScheduled`.

## 5. Not modelled, and the plan

Left to prove: no safety property.  The lemma worth adding is a bound on how much
`canNodeMatch` refuses wrongly with more than two requests.

Left to model, in order of use: a composition of ControllerServer, NodeServer and
QuotaManager in which the meta store, the paths and the caches are those of one system
(each of the three now states what it expects of the others as an action of its
environment); two administrators who disable disks at once (the client reads the
annotation and writes it back without a version); the repetitions in
`shouldDeleteVolIds`.

Not planned, and why:

- the caches of pods and nodes: no decision reads a node from its cache (`GetNode` has
  no caller), and `Bind` uses of a pod only its claims, which never change;
- `OperationLock`: exported, but without a caller in the repository, so there are no
  sequences of calls to check (a caller would have to know that its delete and expand
  locks do not exclude or count a second holder of the same lock);
- composing and decomposing volume ids, the byte layout of ioctls, quotactl and
  annotations: data only, abstracted to what they carry;
- the kubectl plugin: it prints what the annotations say (the client's only write on
  behalf of an administrator, `SetHostPathDiskDisableState`, is an action of NodeStatus);
- command line, gRPC server and identity server, liveness probe, HTTP routing and
  logging: no state of their own;
- request validation: it refuses a call before anything changes.
