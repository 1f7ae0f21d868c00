-------------------------- MODULE ControllerServer --------------------------
(***************************************************************************)
(* CreateVolume and DeleteVolume of the CSI controller server              *)
(* (controllerserver.go), the ConfigMap meta store under them              *)
(* (metestore.go) and the volume locks (util/idlocker.go).                 *)
(*                                                                         *)
(* Both calls read the ConfigMap, change one key of it and write the whole *)
(* map back.  The API server refuses a write whose resourceVersion is not  *)
(* the current one and leaves the version alone when nothing changes.      *)
(* Several calls run at a time, each in its own goroutine; a write may     *)
(* reach the API server long after the goroutine that sent it gave up or   *)
(* the process died.                                                       *)
(*                                                                         *)
(* The caller (the provisioner beside the plugin) is external: for each    *)
(* volume it has one call outstanding at a time, repeats a failed or timed *)
(* out call, deletes only a volume whose creation was confirmed, and never *)
(* uses a name again.  A volume id is made from its name by ComposeCSIID   *)
(* one to one, so one value stands for both.                               *)
(***************************************************************************)
EXTENDS Naturals

CONSTANTS
  Volume,     \* volume names and the ids made from them
  Handler,    \* goroutines that serve calls
  MaxFaults,  \* how many faults may happen
  Nil         \* no call, no sender

Call == [kind : {"create", "delete"}, vol : Volume,
         heard : BOOLEAN,  \* the caller still waits for the answer
         stage : {"get", "wait", "ok", "conflict"}]

ASSUME MaxFaultsAssumption == MaxFaults \in Nat

ASSUME NilAssumption == Nil \notin Call \cup Handler

VARIABLES
  store,    \* API server: the keys of the ConfigMap's Data
  rv,       \* API server: the ConfigMap's resourceVersion
  updates,  \* writes sent and not yet processed by the API server
  call,     \* the call each goroutine serves, or Nil
  locks,    \* VolumeLocks: the names with a CreateVolume under way
  life,     \* the caller's view of each volume
  faults    \* how many faults have happened

vars == <<store, rv, updates, call, locks, life, faults>>

Life == {"none", "creating", "live", "deleting", "gone"}

Update == [from : Handler \cup {Nil}, kind : {"create", "delete"},
           vol : Volume, ver : Nat, data : SUBSET Volume]

Init ==
  /\ store = {}
  /\ rv = 0
  /\ updates = {}
  /\ call = [h \in Handler |-> Nil]
  /\ locks = {}
  /\ life = [v \in Volume |-> "none"]
  /\ faults = 0

-----------------------------------------------------------------------------
(* Calls. *)

\* The caller waits for no other call about the volume.
Free(v) ==
  \A h \in Handler : call[h] # Nil /\ call[h].vol = v => ~call[h].heard

Begin(h, kind, v) ==
  call' = [call EXCEPT
             ![h] = [kind |-> kind, vol |-> v, heard |-> TRUE, stage |-> "get"]]

\* MUTANT of TryAcquire: the lock is not tested.
TryAcquireAlways(v) == locks' = locks \cup {v}

\* VolumeLocks.TryAcquire.  When it fails the call returns Aborted at once.
TryAcquire(v) == v \notin locks /\ locks' = locks \cup {v}

CreateVolume(h, v) ==
  /\ call[h] = Nil
  /\ life[v] \in {"none", "creating"}
  /\ Free(v)
  /\ TryAcquire(v)
  /\ Begin(h, "create", v)
  /\ life' = [life EXCEPT ![v] = "creating"]
  /\ UNCHANGED <<store, rv, updates, faults>>

\* DeleteVolume takes no lock.
DeleteVolume(h, v) ==
  /\ call[h] = Nil
  /\ life[v] \in {"live", "deleting"}
  /\ Free(v)
  /\ Begin(h, "delete", v)
  /\ life' = [life EXCEPT ![v] = "deleting"]
  /\ UNCHANGED <<store, rv, updates, locks, faults>>

\* MUTANT of Release: the lock is kept when the call ends.
ReleaseForgotten(h) == locks' = locks

\* The deferred Release of CreateVolume.
Release(h) ==
  locks' = IF call[h].kind = "create" THEN locks \ {call[h].vol} ELSE locks

Finish(h) == call' = [call EXCEPT ![h] = Nil] /\ Release(h)

-----------------------------------------------------------------------------
(* AddMetaInfo and UnsetMetaInfo. *)

\* MUTANT of Changed: a deletion writes the map back as it was read.
ChangedByCreateOnly(kind, v) == IF kind = "create" THEN store \cup {v} ELSE store

\* MUTANT of Changed: a creation makes a new map although there is one.
ChangedFreshMap(kind, v) == IF kind = "create" THEN {v} ELSE store \ {v}

\* The map that is written back.
Changed(kind, v) == IF kind = "create" THEN store \cup {v} ELSE store \ {v}

\* Get returns the ConfigMap; Update is sent with the version that was read.
GetAndSend(h) ==
  /\ call[h] # Nil
  /\ call[h].stage = "get"
  /\ updates' = updates \cup
       {[from |-> h, kind |-> call[h].kind, vol |-> call[h].vol, ver |-> rv,
         data |-> Changed(call[h].kind, call[h].vol)]}
  /\ call' = [call EXCEPT ![h].stage = "wait"]
  /\ UNCHANGED <<store, rv, locks, life, faults>>

\* The API server accepts a write only at the version it was read at.
Current(u) == u.ver = rv

Process(u) ==
  /\ u \in updates
  /\ updates' = updates \ {u}
  /\ IF Current(u)
       THEN /\ store' = u.data
            /\ rv' = IF u.data = store THEN rv ELSE rv + 1
       ELSE UNCHANGED <<store, rv>>
  /\ call' = IF u.from = Nil THEN call
             ELSE [call EXCEPT ![u.from].stage =
                     IF Current(u) THEN "ok" ELSE "conflict"]
  /\ UNCHANGED <<locks, life, faults>>

\* The answer to the call reaches the caller if it still waits.
Return(h) ==
  /\ call[h] # Nil
  /\ call[h].stage \in {"ok", "conflict"}
  /\ life' = IF call[h].heard /\ call[h].stage = "ok"
               THEN [life EXCEPT ![call[h].vol] =
                       IF call[h].kind = "create" THEN "live" ELSE "gone"]
               ELSE life
  /\ Finish(h)
  /\ UNCHANGED <<store, rv, updates, faults>>

-----------------------------------------------------------------------------
(* Faults. *)

Fault == faults < MaxFaults /\ faults' = faults + 1

\* The writes of the given goroutines are nobody's any more.
Orphaned(H) ==
  {IF u.from \in H THEN [u EXCEPT !.from = Nil] ELSE u : u \in updates}

\* Get or Update returns an error to the goroutine: nothing was read, the
\* write is still on its way, or the answer to the write is lost.
RequestFails(h) ==
  /\ Fault
  /\ call[h] # Nil
  /\ updates' = Orphaned({h})
  /\ Finish(h)
  /\ UNCHANGED <<store, rv, life>>

\* The caller's deadline passes; the goroutine does not look at its context.
CallerGivesUp(h) ==
  /\ Fault
  /\ call[h] # Nil
  /\ call[h].heard
  /\ call' = [call EXCEPT ![h].heard = FALSE]
  /\ UNCHANGED <<store, rv, updates, locks, life>>

\* The controller process dies and is started again.
Crash ==
  /\ Fault
  /\ call' = [h \in Handler |-> Nil]
  /\ locks' = {}
  /\ updates' = Orphaned(Handler)
  /\ UNCHANGED <<store, rv, life>>

-----------------------------------------------------------------------------
Next ==
  \/ \E h \in Handler, v \in Volume : CreateVolume(h, v) \/ DeleteVolume(h, v)
  \/ \E h \in Handler : GetAndSend(h) \/ Return(h)
  \/ \E u \in updates : Process(u)
  \/ \E h \in Handler : RequestFails(h) \/ CallerGivesUp(h)
  \/ Crash

Spec == Init /\ [][Next]_vars

\* The caller repeats its call, a goroutine goes on, and a write that somebody
\* waits for is processed.
Fairness ==
  /\ \A v \in Volume :
       /\ WF_vars(\E h \in Handler : life[v] = "creating" /\ CreateVolume(h, v))
       /\ WF_vars(\E h \in Handler : life[v] = "deleting" /\ DeleteVolume(h, v))
  /\ \A h \in Handler :
       /\ WF_vars(GetAndSend(h))
       /\ WF_vars(Return(h))
       /\ WF_vars(\E u \in updates : u.from = h /\ Process(u))

FairSpec == Spec /\ Fairness

-----------------------------------------------------------------------------
(* Properties. *)

\* Every variable has its type.
TypeOK ==
  /\ store \subseteq Volume
  /\ rv \in Nat
  /\ updates \subseteq Update
  /\ call \in [Handler -> Call \cup {Nil}]
  /\ locks \subseteq Volume
  /\ life \in [Volume -> Life]
  /\ faults \in Nat

\* A volume whose creation was confirmed is in the meta store until it is
\* deleted: no concurrent, late or repeated write of another call removes it
\* (the sync worker of the nodes would delete its data).
LiveVolumeRegistered == \A v \in Volume : life[v] = "live" => v \in store

\* A volume whose deletion was confirmed never comes back into the store, not
\* even by a CreateVolume that was timed out or cut off long before.
GoneVolumeUnregistered == \A v \in Volume : life[v] = "gone" => v \notin store

\* The whole-map writes amount to independent changes of one volume each, in
\* the right phase of that volume's life.
Registry == INSTANCE VolumeRegistry WITH registered <- store

RefinesRegistry == Registry!Spec

\* A call that conflicts with others is repeated and gets through: a requested
\* volume is confirmed, and a volume being deleted is gone, after finitely many
\* faults.
CallsGetThrough ==
  \A v \in Volume :
    /\ life[v] = "creating" ~> life[v] # "creating"
    /\ life[v] = "deleting" ~> life[v] = "gone"

-----------------------------------------------------------------------------
(* The inductive invariant; the proofs are in ControllerServerProofs. *)

\* A call fits the phase of its volume's life, a creation holds its lock, and
\* what a call has achieved lasts until it returns.
CallInv ==
  \A h \in Handler : call[h] # Nil =>
    /\ call[h].kind = "create" =>
         /\ life[call[h].vol] = "creating"
         /\ call[h].vol \in locks
         /\ call[h].stage = "ok" => call[h].vol \in store
    /\ call[h].kind = "delete" =>
         /\ life[call[h].vol] \in {"deleting", "gone"}
         /\ call[h].stage = "ok" => call[h].vol \notin store

\* One creation per volume at a time.
LockInv ==
  \A g, h \in Handler :
    /\ call[g] # Nil /\ call[g].kind = "create"
    /\ call[h] # Nil /\ call[h].kind = "create"
    /\ call[g].vol = call[h].vol
    => g = h

\* A write at the current version is the current map with one change, and a
\* late creation of a volume that was confirmed meanwhile changes nothing.
UpdateInv ==
  \A u \in updates :
    /\ u.ver <= rv
    /\ u.ver = rv => u.data = Changed(u.kind, u.vol)
    /\ u.kind = "create" =>
         life[u.vol] = "creating" \/ u.ver < rv \/ u.vol \in store
    /\ u.kind = "delete" => life[u.vol] \in {"deleting", "gone"}
    /\ u.from # Nil => /\ call[u.from] # Nil
                       /\ call[u.from].kind = u.kind
                       /\ call[u.from].vol = u.vol
                       /\ call[u.from].stage = "wait"

\* A goroutine waits for one write at a time.
SenderInv ==
  \A u, w \in updates : u.from = w.from /\ u.from # Nil => u = w

Inv ==
  /\ TypeOK
  /\ CallInv
  /\ LockInv
  /\ UpdateInv
  /\ SenderInv
  /\ LiveVolumeRegistered
  /\ GoneVolumeUnregistered
=============================================================================
