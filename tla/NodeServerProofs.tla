-------------------------- MODULE NodeServerProofs --------------------------
(***************************************************************************)
(* Proofs about NodeServer, for any volumes, targets, goroutines and       *)
(* faults.  Inv is inductive by itself; DataInv and EphemeralInv are       *)
(* inductive relative to it when every ephemeral volume has one target.    *)
(* TypeOK is a conjunct of Inv; there is one lemma for each other          *)
(* conjunct, with one step for each action.                                *)
(***************************************************************************)
EXTENDS NodeServer, TLAPS

-----------------------------------------------------------------------------
(* Calls. *)

\* A call under way is a record of type Call about a volume.
LEMMA CallFields ==
  ASSUME TypeOK, NEW h \in Handler, call[h] # Nil
  PROVE  /\ call[h] \in Call
         /\ call[h].target \in Target
         /\ VolumeOf[call[h].target] \in Volume
BY ConstantsAssumption DEF TypeOK, Call

\* Goto changes the stage of one call and nothing else of the calls.
LEMMA GotoEffect ==
  ASSUME TypeOK, NEW h \in Handler, call[h] # Nil, NEW s \in Stages, Goto(h, s)
  PROVE  /\ call'[h] \in Call
         /\ call'[h].kind = call[h].kind
         /\ call'[h].target = call[h].target
         /\ call'[h].heard = call[h].heard
         /\ call'[h].stage = s
         /\ \A g \in Handler : g # h => call'[g] = call[g]
         /\ locks' = locks
         /\ call' \in [Handler -> Call \cup {Nil}]
<1>1. call[h] \in Call
  BY CallFields
<1>2. call' = [call EXCEPT ![h] = [call[h] EXCEPT !.stage = s]] /\ locks' = locks
  BY DEF Goto
<1>3. [call[h] EXCEPT !.stage = s] \in Call
  BY <1>1 DEF Call
<1> QED
  BY <1>1, <1>2, <1>3 DEF TypeOK, Call

\* Finish ends one call, releases its lock and leaves the other calls alone.
LEMMA FinishEffect ==
  ASSUME TypeOK, NEW h \in Handler, call[h] # Nil, Finish(h)
  PROVE  /\ call'[h] = Nil
         /\ \A g \in Handler : g # h => call'[g] = call[g]
         /\ locks' = locks \ {VolumeOf[call[h].target]}
         /\ call' \in [Handler -> Call \cup {Nil}]
BY DEF Finish, TypeOK

\* Begin starts one call with the lock of its volume.
LEMMA BeginEffect ==
  ASSUME TypeOK, NEW h \in Handler, NEW t \in Target, NEW s \in Stages,
         NEW k \in {"publish", "unpublish", "expand"}, Begin(h, k, t, s)
  PROVE  /\ call[h] = Nil
         /\ call'[h] # Nil
         /\ call'[h].kind = k
         /\ call'[h].target = t
         /\ call'[h].heard
         /\ call'[h].stage = s
         /\ \A g \in Handler : g # h => call'[g] = call[g]
         /\ VolumeOf[t] \notin locks
         /\ locks' = locks \cup {VolumeOf[t]}
         /\ call' \in [Handler -> Call \cup {Nil}]
<1> DEFINE c == [kind |-> k, target |-> t, heard |-> TRUE, stage |-> s]
<1>1. c \in Call /\ c.kind = k /\ c.target = t /\ c.heard /\ c.stage = s
  BY DEF Call
<1>2. call[h] = Nil /\ call' = [call EXCEPT ![h] = c]
  BY DEF Begin
<1>3. VolumeOf[t] \notin locks /\ locks' = locks \cup {VolumeOf[t]}
  BY DEF Begin, TryAcquire
<1> HIDE DEF c
<1> QED
  BY <1>1, <1>2, <1>3, NilAssumption DEF TypeOK

\* Begin gives the volume of a call to one goroutine only.
LEMMA BeginLocks ==
  ASSUME TypeOK, LockInv, NEW h \in Handler, NEW t \in Target,
         NEW s \in Stages, NEW k \in {"publish", "unpublish", "expand"},
         Begin(h, k, t, s)
  PROVE  LockInv'
<1>1. /\ call[h] = Nil
      /\ call'[h] # Nil /\ call'[h].target = t
      /\ \A g \in Handler : g # h => call'[g] = call[g]
      /\ VolumeOf[t] \notin locks
      /\ locks' = locks \cup {VolumeOf[t]}
  BY BeginEffect
<1> QED
  BY <1>1 DEF LockInv


-----------------------------------------------------------------------------
(* Inv is preserved by every step. *)

\* Steps keep the types.
LEMMA TypeOKKept ==
  ASSUME Inv, [Next]_vars
  PROVE  TypeOK'
<1>0. TypeOK
  BY DEF Inv
<1> USE <1>0
<1>1. ASSUME NEW v \in Volume, NextLife(v) PROVE TypeOK'
  BY <1>1 DEF NextLife, TypeOK, Life, worker, disk
<1>2. ASSUME NEW t \in Target, PodStarts(t) PROVE TypeOK'
  BY <1>2 DEF PodStarts, TypeOK, Use, worker, disk
<1>3. ASSUME NEW t \in Target, PodStops(t) PROVE TypeOK'
  BY <1>3 DEF PodStops, TypeOK, Use, worker, disk
<1>4. ASSUME NEW h \in Handler, NEW t \in Target, NodePublishVolume(h, t)
      PROVE  TypeOK'
  <2>1. Begin(h, "publish", t, "check")
    BY <1>4 DEF NodePublishVolume
  <2>2. call' \in [Handler -> Call \cup {Nil}] /\ locks' = locks \cup {VolumeOf[t]}
    BY <2>1, BeginEffect DEF Stages
  <2> QED
    BY <2>1, <2>2, ConstantsAssumption DEF Begin, TypeOK, worker, disk
<1>5. ASSUME NEW h \in Handler, NEW t \in Target, NodeUnpublishVolume(h, t)
      PROVE  TypeOK'
  <2>1. Begin(h, "unpublish", t, "check")
    BY <1>5 DEF NodeUnpublishVolume
  <2>2. call' \in [Handler -> Call \cup {Nil}] /\ locks' = locks \cup {VolumeOf[t]}
    BY <2>1, BeginEffect DEF Stages
  <2> QED
    BY <2>1, <2>2, ConstantsAssumption DEF Begin, TypeOK, worker, disk
<1>6. ASSUME NEW h \in Handler, NEW t \in Target, NodeExpandVolume(h, t)
      PROVE  TypeOK'
  <2>1. Begin(h, "expand", t, "expand")
    BY <1>6 DEF NodeExpandVolume
  <2>2. call' \in [Handler -> Call \cup {Nil}] /\ locks' = locks \cup {VolumeOf[t]}
    BY <2>1, BeginEffect DEF Stages
  <2> QED
    BY <2>1, <2>2, ConstantsAssumption DEF Begin, TypeOK, worker, disk
<1>7. ASSUME NEW h \in Handler, PublishCheck(h) PROVE TypeOK'
  BY <1>7, CallFields, GotoEffect
  DEF PublishCheck, At, Stages, TypeOK, worker, disk
<1>8. ASSUME NEW h \in Handler, GetPV(h) PROVE TypeOK'
  BY <1>8, CallFields, GotoEffect, FinishEffect
  DEF GetPV, At, Stages, Finish, TypeOK, worker, disk
<1>9. ASSUME NEW h \in Handler, GetPath(h) PROVE TypeOK'
  BY <1>9, CallFields, GotoEffect DEF GetPath, At, Stages, TypeOK, worker, disk
<1>10. ASSUME NEW h \in Handler, MountVolume(h) PROVE TypeOK'
  <2>1. mounted' \in [Target -> Nat] /\ stale' \subseteq Target
    BY <1>10, CallFields DEF MountVolume, At, TypeOK
  <2> QED
    BY <1>10, <2>1, GotoEffect, FinishEffect
    DEF MountVolume, At, Stages, Finish, TypeOK, worker, disk
<1>11. ASSUME NEW h \in Handler, Expand(h) PROVE TypeOK'
  BY <1>11, CallFields, GotoEffect DEF Expand, At, Stages, TypeOK, worker, disk
<1>12. ASSUME NEW h \in Handler, UnpublishCheck(h) PROVE TypeOK'
  BY <1>12, CallFields, GotoEffect
  DEF UnpublishCheck, AfterCheck, At, Stages, TypeOK, worker, disk
<1>13. ASSUME NEW h \in Handler, Unmount(h) PROVE TypeOK'
  <2>1. mounted[call[h].target] = 1
    BY <1>13 DEF Inv, CallInv, StageInv, At, Unmount
  <2>2. mounted' \in [Target -> Nat] /\ stale' \subseteq Target
    BY <1>13, <2>1, CallFields DEF Unmount, At, TypeOK
  <2> QED
    BY <1>13, <2>2, GotoEffect DEF Unmount, At, Stages, TypeOK, worker, disk
<1>14. ASSUME NEW h \in Handler, Release(h) PROVE TypeOK'
  <2>1. paths' \subseteq Volume /\ stale' \subseteq Target
    BY <1>14 DEF Release, ReleaseVolumePath, Wipe, TypeOK
  <2> QED
    BY <1>14, <2>1, GotoEffect DEF Release, At, Stages, TypeOK, worker, disk
<1>15. ASSUME NEW h \in Handler, RemoveTarget(h) PROVE TypeOK'
  <2>1. targetDirs' \subseteq Target /\ stale' \subseteq Target
    BY <1>15 DEF RemoveTarget, Wipe, TypeOK
  <2>2. call' \in [Handler -> Call \cup {Nil}] /\ locks' \subseteq Volume
    BY <1>15, GotoEffect, FinishEffect DEF RemoveTarget, At, Stages, TypeOK
  <2> QED
    BY <1>15, <2>1, <2>2 DEF RemoveTarget, TypeOK, worker, disk
<1>16. ASSUME NEW h \in Handler, Return(h) PROVE TypeOK'
  <2>1. call[h].target \in Target /\ use' \in [Target -> Use]
    BY <1>16, CallFields DEF Return, TypeOK, Use
  <2> QED
    BY <1>16, <2>1, FinishEffect DEF Return, Finish, TypeOK, worker, disk
<1>17. CASE ListPaths
  BY <1>17 DEF ListPaths, TypeOK, worker, disk
<1>18. ASSUME NEW v \in todo, CleanPath(v) PROVE TypeOK'
  BY <1>18 DEF CleanPath, ReleaseVolumePath, Wipe, TypeOK, worker, disk
<1>19. CASE ListMetaInfos
  BY <1>19 DEF ListMetaInfos, Orphans, TypeOK, worker, disk
<1>20. CASE EndRound
  BY <1>20 DEF EndRound, TypeOK, worker, disk
<1>21. ASSUME NEW h \in Handler, CallFails(h) PROVE TypeOK'
  BY <1>21, FinishEffect DEF CallFails, Finish, Fault, TypeOK, worker, disk
<1>22. ASSUME NEW h \in Handler, KubeletGivesUp(h) PROVE TypeOK'
  <2>1. call' \in [Handler -> Call \cup {Nil}]
    <3>1. [call[h] EXCEPT !.heard = FALSE] \in Call
      BY <1>22, CallFields DEF KubeletGivesUp, Call
    <3> QED
      BY <1>22, <3>1 DEF KubeletGivesUp, TypeOK
  <2> QED
    BY <1>22, <2>1 DEF KubeletGivesUp, Fault, TypeOK, worker, disk
<1>23. ASSUME NEW h \in Handler, ReleaseFails(h) PROVE TypeOK'
  BY <1>23, FinishEffect
  DEF ReleaseFails, At, Finish, Fault, Wipe, TypeOK, worker, disk
<1>24. ASSUME NEW v \in todo, CleanPathFails(v) PROVE TypeOK'
  BY <1>24 DEF CleanPathFails, Fault, Wipe, TypeOK, worker, disk
<1>25. CASE ListPathsFails
  BY <1>25 DEF ListPathsFails, Fault, TypeOK, worker, disk
<1>26. CASE ListMetaInfosFails
  BY <1>26 DEF ListMetaInfosFails, Fault, TypeOK, worker, disk
<1>27. CASE Restart
  BY <1>27 DEF Restart, Fault, TypeOK, worker, disk
<1>28. CASE UNCHANGED vars
  BY <1>28 DEF TypeOK, vars, worker, disk
<1> QED
  BY <1>1, <1>2, <1>3, <1>4, <1>5, <1>6, <1>7, <1>8, <1>9, <1>10, <1>11,
     <1>12, <1>13, <1>14, <1>15, <1>16, <1>17, <1>18, <1>19, <1>20, <1>21,
     <1>22, <1>23, <1>24, <1>25, <1>26, <1>27, <1>28
  DEF Next, Kubelet, Serve, SyncWorker, Faulty

\* Steps keep the locks and the calls together.
LEMMA LockInvKept ==
  ASSUME Inv, [Next]_vars
  PROVE  LockInv'
<1>0. TypeOK /\ LockInv
  BY DEF Inv
<1> USE <1>0
<1>1. ASSUME NEW v \in Volume, NextLife(v) PROVE LockInv'
  BY <1>1 DEF NextLife, LockInv
<1>2. ASSUME NEW t \in Target, PodStarts(t) PROVE LockInv'
  BY <1>2 DEF PodStarts, LockInv
<1>3. ASSUME NEW t \in Target, PodStops(t) PROVE LockInv'
  BY <1>3 DEF PodStops, LockInv
<1>4. ASSUME NEW h \in Handler, NEW t \in Target, NodePublishVolume(h, t)
      PROVE  LockInv'
  <2>1. Begin(h, "publish", t, "check")
    BY <1>4 DEF NodePublishVolume
  <2> QED
    BY <2>1, BeginLocks DEF Stages
<1>5. ASSUME NEW h \in Handler, NEW t \in Target, NodeUnpublishVolume(h, t)
      PROVE  LockInv'
  <2>1. Begin(h, "unpublish", t, "check")
    BY <1>5 DEF NodeUnpublishVolume
  <2> QED
    BY <2>1, BeginLocks DEF Stages
<1>6. ASSUME NEW h \in Handler, NEW t \in Target, NodeExpandVolume(h, t)
      PROVE  LockInv'
  <2>1. Begin(h, "expand", t, "expand")
    BY <1>6 DEF NodeExpandVolume
  <2> QED
    BY <2>1, BeginLocks DEF Stages
<1>7. ASSUME NEW h \in Handler, PublishCheck(h) PROVE LockInv'
  BY <1>7, GotoEffect DEF PublishCheck, At, Stages, LockInv
<1>8. ASSUME NEW h \in Handler, GetPV(h) PROVE LockInv'
  BY <1>8, GotoEffect, FinishEffect DEF GetPV, At, Stages, LockInv
<1>9. ASSUME NEW h \in Handler, GetPath(h) PROVE LockInv'
  BY <1>9, GotoEffect DEF GetPath, At, Stages, LockInv
<1>10. ASSUME NEW h \in Handler, MountVolume(h) PROVE LockInv'
  BY <1>10, GotoEffect, FinishEffect DEF MountVolume, At, Stages, LockInv
<1>11. ASSUME NEW h \in Handler, Expand(h) PROVE LockInv'
  BY <1>11, GotoEffect DEF Expand, At, Stages, LockInv
<1>12. ASSUME NEW h \in Handler, UnpublishCheck(h) PROVE LockInv'
  BY <1>12, GotoEffect DEF UnpublishCheck, AfterCheck, At, Stages, LockInv
<1>13. ASSUME NEW h \in Handler, Unmount(h) PROVE LockInv'
  BY <1>13, GotoEffect DEF Unmount, At, Stages, LockInv
<1>14. ASSUME NEW h \in Handler, Release(h) PROVE LockInv'
  BY <1>14, GotoEffect DEF Release, At, Stages, LockInv
<1>15. ASSUME NEW h \in Handler, RemoveTarget(h) PROVE LockInv'
  BY <1>15, GotoEffect, FinishEffect DEF RemoveTarget, At, Stages, LockInv
<1>16. ASSUME NEW h \in Handler, Return(h) PROVE LockInv'
  BY <1>16, FinishEffect DEF Return, At, LockInv
<1>17. CASE ListPaths
  BY <1>17 DEF ListPaths, LockInv
<1>18. ASSUME NEW v \in todo, CleanPath(v) PROVE LockInv'
  BY <1>18 DEF CleanPath, LockInv
<1>19. CASE ListMetaInfos
  BY <1>19 DEF ListMetaInfos, LockInv
<1>20. CASE EndRound
  BY <1>20 DEF EndRound, LockInv
<1>21. ASSUME NEW h \in Handler, CallFails(h) PROVE LockInv'
  BY <1>21, FinishEffect DEF CallFails, At, LockInv
<1>22. ASSUME NEW h \in Handler, KubeletGivesUp(h) PROVE LockInv'
  <2>1. \A g \in Handler :
          /\ call'[g] # Nil => call[g] # Nil
          /\ call[g] # Nil => call'[g].target = call[g].target
    BY <1>22, CallFields DEF KubeletGivesUp, TypeOK, Call
  <2> QED
    BY <1>22, <2>1 DEF KubeletGivesUp, LockInv
<1>23. ASSUME NEW h \in Handler, ReleaseFails(h) PROVE LockInv'
  BY <1>23, FinishEffect DEF ReleaseFails, At, LockInv
<1>24. ASSUME NEW v \in todo, CleanPathFails(v) PROVE LockInv'
  BY <1>24 DEF CleanPathFails, LockInv
<1>25. CASE ListPathsFails
  BY <1>25 DEF ListPathsFails, LockInv
<1>26. CASE ListMetaInfosFails
  BY <1>26 DEF ListMetaInfosFails, LockInv
<1>27. CASE Restart
  BY <1>27 DEF Restart, LockInv
<1>28. CASE UNCHANGED vars
  BY <1>28 DEF LockInv, vars
<1> QED
  BY <1>1, <1>2, <1>3, <1>4, <1>5, <1>6, <1>7, <1>8, <1>9, <1>10, <1>11,
     <1>12, <1>13, <1>14, <1>15, <1>16, <1>17, <1>18, <1>19, <1>20, <1>21,
     <1>22, <1>23, <1>24, <1>25, <1>26, <1>27, <1>28
  DEF Next, Kubelet, Serve, SyncWorker, Faulty

\* Steps keep what is known of the lives of volumes.
LEMMA LifeInvKept ==
  ASSUME Inv, [Next]_vars
  PROVE  LifeInv'
<1>0. TypeOK /\ LifeInv
  BY DEF Inv
<1> USE <1>0
<1>1. ASSUME NEW v \in Volume, NextLife(v) PROVE LifeInv'
  <2>1. Provisioned \subseteq Provisioned' /\ Deleted \subseteq Deleted'
    BY <1>1 DEF NextLife, Provisioned, Deleted, TypeOK
  <2>2. ASSUME NEW t \in Target, use[t] \in {"publishing", "published"}
        PROVE  life'[VolumeOf[t]] = "bound"
    BY <1>1, <2>2, ConstantsAssumption DEF NextLife, LifeInv, TypeOK
  <2>3. UNCHANGED <<use, paths, worker>>
    BY <1>1 DEF NextLife, disk
  <2> QED
    BY <2>1, <2>2, <2>3 DEF LifeInv, worker
<1>2. ASSUME NEW t \in Target, PodStarts(t) PROVE LifeInv'
  BY <1>2, ConstantsAssumption
  DEF PodStarts, LifeInv, Provisioned, Deleted, TypeOK, worker, disk
<1>3. ASSUME NEW t \in Target, PodStops(t) PROVE LifeInv'
  BY <1>3 DEF PodStops, LifeInv, Provisioned, Deleted, TypeOK, worker, disk
<1>4. ASSUME NEW h \in Handler, NEW t \in Target, NodePublishVolume(h, t)
      PROVE  LifeInv'
  BY <1>4
  DEF NodePublishVolume, Begin, LifeInv, Provisioned, Deleted, worker, disk
<1>5. ASSUME NEW h \in Handler, NEW t \in Target, NodeUnpublishVolume(h, t)
      PROVE  LifeInv'
  BY <1>5
  DEF NodeUnpublishVolume, Begin, LifeInv, Provisioned, Deleted, worker, disk
<1>6. ASSUME NEW h \in Handler, NEW t \in Target, NodeExpandVolume(h, t)
      PROVE  LifeInv'
  BY <1>6
  DEF NodeExpandVolume, Begin, LifeInv, Provisioned, Deleted, worker, disk
<1>7. ASSUME NEW h \in Handler, PublishCheck(h) PROVE LifeInv'
  BY <1>7 DEF PublishCheck, LifeInv, Provisioned, Deleted, worker, disk
<1>8. ASSUME NEW h \in Handler, GetPV(h) PROVE LifeInv'
  BY <1>8 DEF GetPV, LifeInv, Provisioned, Deleted, worker, disk
<1>9. ASSUME NEW h \in Handler, GetPath(h) PROVE LifeInv'
  <2>1. VolumeOf[call[h].target] \in Provisioned
    BY <1>9, CallFields DEF Inv, CallInv, WantInv, LifeInv, GetPath, At
  <2> QED
    BY <1>9, <2>1 DEF GetPath, LifeInv, Provisioned, Deleted, worker, disk
<1>10. ASSUME NEW h \in Handler, MountVolume(h) PROVE LifeInv'
  BY <1>10 DEF MountVolume, LifeInv, Provisioned, Deleted, worker, disk
<1>11. ASSUME NEW h \in Handler, Expand(h) PROVE LifeInv'
  BY <1>11 DEF Expand, LifeInv, Provisioned, Deleted, worker, disk
<1>12. ASSUME NEW h \in Handler, UnpublishCheck(h) PROVE LifeInv'
  BY <1>12 DEF UnpublishCheck, LifeInv, Provisioned, Deleted, worker, disk
<1>13. ASSUME NEW h \in Handler, Unmount(h) PROVE LifeInv'
  BY <1>13 DEF Unmount, LifeInv, Provisioned, Deleted, worker, disk
<1>14. ASSUME NEW h \in Handler, Release(h) PROVE LifeInv'
  BY <1>14
  DEF Release, ReleaseVolumePath, LifeInv, Provisioned, Deleted, worker, disk
<1>15. ASSUME NEW h \in Handler, RemoveTarget(h) PROVE LifeInv'
  BY <1>15 DEF RemoveTarget, LifeInv, Provisioned, Deleted, worker, disk
<1>16. ASSUME NEW h \in Handler, Return(h) PROVE LifeInv'
  <2>1. /\ call[h].target \in Target
        /\ call[h].heard /\ call[h].kind = "publish" =>
             use[call[h].target] = "publishing"
    BY <1>16, CallFields DEF Inv, CallInv, WantInv, Return
  <2>2. call[h].kind \in {"publish", "unpublish", "expand"}
    BY <1>16, CallFields DEF Call, Return
  <2>3. \A t \in Target :
          /\ use'[t] # "idle" => use[t] # "idle"
          /\ use'[t] \in {"publishing", "published"} =>
               use[t] \in {"publishing", "published"}
    BY <1>16, <2>1, <2>2 DEF Return, TypeOK
  <2> QED
    BY <1>16, <2>3 DEF Return, LifeInv, Provisioned, Deleted, worker, disk
<1>17. CASE ListPaths
  BY <1>17 DEF ListPaths, LifeInv, Provisioned, Deleted, worker, disk
<1>18. ASSUME NEW v \in todo, CleanPath(v) PROVE LifeInv'
  BY <1>18
  DEF CleanPath, ReleaseVolumePath, LifeInv, Provisioned, Deleted, worker,
     disk
<1>19. CASE ListMetaInfos
  BY <1>19
  DEF ListMetaInfos, Orphans, Registered, LifeInv, Provisioned, Deleted,
     TypeOK, Life, worker, disk
<1>20. CASE EndRound
  BY <1>20 DEF EndRound, LifeInv, Provisioned, Deleted, worker, disk
<1>21. ASSUME NEW h \in Handler, CallFails(h) PROVE LifeInv'
  BY <1>21 DEF CallFails, LifeInv, Provisioned, Deleted, worker, disk
<1>22. ASSUME NEW h \in Handler, KubeletGivesUp(h) PROVE LifeInv'
  BY <1>22 DEF KubeletGivesUp, LifeInv, Provisioned, Deleted, worker, disk
<1>23. ASSUME NEW h \in Handler, ReleaseFails(h) PROVE LifeInv'
  BY <1>23 DEF ReleaseFails, LifeInv, Provisioned, Deleted, worker, disk
<1>24. ASSUME NEW v \in todo, CleanPathFails(v) PROVE LifeInv'
  BY <1>24 DEF CleanPathFails, LifeInv, Provisioned, Deleted, worker, disk
<1>25. CASE ListPathsFails
  BY <1>25 DEF ListPathsFails, LifeInv, Provisioned, Deleted, worker, disk
<1>26. CASE ListMetaInfosFails
  BY <1>26 DEF ListMetaInfosFails, LifeInv, Provisioned, Deleted, worker, disk
<1>27. CASE Restart
  BY <1>27 DEF Restart, LifeInv, Provisioned, Deleted, worker, disk
<1>28. CASE UNCHANGED vars
  BY <1>28 DEF LifeInv, Provisioned, Deleted, vars, worker, disk
<1> QED
  BY <1>1, <1>2, <1>3, <1>4, <1>5, <1>6, <1>7, <1>8, <1>9, <1>10, <1>11,
     <1>12, <1>13, <1>14, <1>15, <1>16, <1>17, <1>18, <1>19, <1>20, <1>21,
     <1>22, <1>23, <1>24, <1>25, <1>26, <1>27, <1>28
  DEF Next, Kubelet, Serve, SyncWorker, Faulty

\* Two calls under way have different targets.
LEMMA OtherTarget ==
  ASSUME Inv, NEW g \in Handler, NEW h \in Handler, g # h,
         call[g] # Nil, call[h] # Nil
  PROVE  call[g].target # call[h].target
BY DEF Inv, LockInv

\* CallInv is kept when one call goes on and only its own target changes.
LEMMA GotoCalls ==
  ASSUME Inv, NEW h \in Handler, call[h] # Nil, NEW s \in Stages, Goto(h, s),
         use' = use,
         \A t \in Target : t # call[h].target =>
           mounted'[t] = mounted[t] /\ (t \in targetDirs' <=> t \in targetDirs),
         StageInv(call[h])'
  PROVE  CallInv'
<1>0. TypeOK /\ CallInv
  BY DEF Inv
<1> SUFFICES ASSUME NEW g \in Handler, call'[g] # Nil
             PROVE  WantInv(call[g])' /\ StageInv(call[g])'
  BY DEF CallInv
<1>1. CASE g = h
  BY <1>0, <1>1, GotoEffect DEF CallInv, WantInv
<1>2. CASE g # h
  <2>1. call'[g] = call[g] /\ call[g] # Nil /\ call[g].target \in Target
    BY <1>0, <1>2, GotoEffect, CallFields
  <2>2. call[g].target # call[h].target
    BY <1>2, <2>1, OtherTarget
  <2> QED
    BY <1>0, <2>1, <2>2 DEF CallInv, WantInv, StageInv
<1> QED
  BY <1>1, <1>2

\* CallInv is kept when one call ends and only its own target changes.
LEMMA FinishCalls ==
  ASSUME Inv, NEW h \in Handler, call[h] # Nil, Finish(h),
         \A t \in Target : t # call[h].target =>
           /\ use'[t] = use[t]
           /\ mounted'[t] = mounted[t]
           /\ t \in targetDirs' <=> t \in targetDirs
  PROVE  CallInv'
<1>0. TypeOK /\ CallInv
  BY DEF Inv
<1> SUFFICES ASSUME NEW g \in Handler, call'[g] # Nil
             PROVE  WantInv(call[g])' /\ StageInv(call[g])'
  BY DEF CallInv
<1>1. g # h /\ call'[g] = call[g] /\ call[g] # Nil /\ call[g].target \in Target
  BY <1>0, FinishEffect, CallFields
<1>2. call[g].target # call[h].target
  BY <1>1, OtherTarget
<1> QED
  BY <1>0, <1>1, <1>2 DEF CallInv, WantInv, StageInv

\* CallInv is kept when a call begins in the right situation.
LEMMA BeginCalls ==
  ASSUME Inv, NEW h \in Handler, NEW t \in Target, NEW s \in Stages,
         NEW k \in {"publish", "unpublish", "expand"}, Begin(h, k, t, s),
         \/ k = "publish" /\ s = "check" /\ use[t] = "publishing"
         \/ k = "unpublish" /\ s = "check" /\ use[t] = "unpublishing"
         \/ k = "expand" /\ s = "expand" /\ use[t] = "published"
  PROVE  CallInv'
<1>0. TypeOK /\ CallInv /\ UNCHANGED <<use, mounted, targetDirs>>
  BY DEF Inv, Begin, disk
<1> SUFFICES ASSUME NEW g \in Handler, call'[g] # Nil
             PROVE  WantInv(call[g])' /\ StageInv(call[g])'
  BY DEF CallInv
<1>1. CASE g = h
  <2>1. /\ call'[h].kind = k /\ call'[h].target = t
        /\ call'[h].heard /\ call'[h].stage = s
    BY <1>0, BeginEffect
  <2> QED
    BY <1>0, <1>1, <2>1 DEF WantInv, StageInv
<1>2. CASE g # h
  <2>1. call'[g] = call[g]
    BY <1>0, <1>2, BeginEffect
  <2> QED
    BY <1>0, <2>1 DEF CallInv, WantInv, StageInv
<1> QED
  BY <1>1, <1>2


\* Steps keep what each stage of a call relies on.
LEMMA CallInvKept ==
  ASSUME Inv, [Next]_vars
  PROVE  CallInv'
<1>0. TypeOK /\ CallInv
  BY DEF Inv
<1> USE <1>0
<1>1. ASSUME NEW v \in Volume, NextLife(v) PROVE CallInv'
  BY <1>1 DEF NextLife, CallInv, WantInv, StageInv, worker, disk
<1>2. ASSUME NEW t \in Target, PodStarts(t) PROVE CallInv'
  <2>1. \A g \in Handler : call[g] # Nil => call[g].target # t
    BY <1>2 DEF PodStarts, CallInv, WantInv
  <2> QED
    BY <1>2, <2>1, CallFields
    DEF PodStarts, CallInv, WantInv, StageInv, TypeOK, disk
<1>3. ASSUME NEW t \in Target, PodStops(t) PROVE CallInv'
  <2>1. UNCHANGED <<call, mounted, targetDirs>>
    BY <1>3 DEF PodStops, disk
  <2>2. ASSUME NEW g \in Handler, call[g] # Nil PROVE WantInv(call[g])'
    BY <1>3, <2>1, <2>2, CallFields DEF PodStops, Free, CallInv, WantInv, TypeOK
  <2> QED
    BY <2>1, <2>2 DEF CallInv, StageInv
<1>4. ASSUME NEW h \in Handler, NEW t \in Target, NodePublishVolume(h, t)
      PROVE  CallInv'
  BY <1>4, BeginCalls DEF NodePublishVolume, Stages
<1>5. ASSUME NEW h \in Handler, NEW t \in Target, NodeUnpublishVolume(h, t)
      PROVE  CallInv'
  BY <1>5, BeginCalls DEF NodeUnpublishVolume, Stages
<1>6. ASSUME NEW h \in Handler, NEW t \in Target, NodeExpandVolume(h, t)
      PROVE  CallInv'
  BY <1>6, BeginCalls DEF NodeExpandVolume, Stages
<1>7. ASSUME NEW h \in Handler, PublishCheck(h) PROVE CallInv'
  <2> DEFINE s == IF mounted[call[h].target] > 0 THEN "ok" ELSE "pv"
  <2>1. call[h] # Nil /\ Goto(h, s) /\ s \in Stages
    BY <1>7 DEF PublishCheck, At, Stages
  <2>2. /\ call'[h].kind = "publish" /\ call'[h].target = call[h].target
        /\ call'[h].stage = s
    BY <1>7, <2>1, GotoEffect DEF PublishCheck, At
  <2>3. mounted[call[h].target] \in {0, 1} /\ call[h].target \in targetDirs'
    BY <1>7, CallFields DEF Inv, TargetInv, PublishCheck, At
  <2>4. StageInv(call[h])'
    BY <1>7, <2>2, <2>3 DEF PublishCheck, StageInv
  <2> HIDE DEF s
  <2> QED
    BY <1>7, <2>1, <2>4, GotoCalls DEF PublishCheck, disk
<1>8. ASSUME NEW h \in Handler, GetPV(h) PROVE CallInv'
  <2>1. CASE Goto(h, "path")
    <3>1. /\ call'[h].kind = "publish" /\ call'[h].target = call[h].target
          /\ call'[h].stage = "path"
      BY <1>8, <2>1, GotoEffect DEF GetPV, At, Stages
    <3>2. StageInv(call[h])'
      BY <1>8, <3>1 DEF GetPV, At, CallInv, StageInv, disk
    <3> QED
      BY <1>8, <2>1, <3>2, GotoCalls DEF GetPV, At, Stages, disk
  <2>2. CASE Finish(h)
    BY <1>8, <2>2, FinishCalls DEF GetPV, At, disk
  <2> QED
    BY <1>8, <2>1, <2>2 DEF GetPV
<1>9. ASSUME NEW h \in Handler, GetPath(h) PROVE CallInv'
  <2>1. call[h] # Nil /\ Goto(h, "mount")
    BY <1>9 DEF GetPath, At
  <2>2. /\ call'[h].kind = call[h].kind /\ call'[h].target = call[h].target
        /\ call'[h].stage = "mount"
    BY <2>1, GotoEffect DEF Stages
  <2>3. StageInv(call[h])'
    BY <1>9, <2>2, CallFields DEF GetPath, At, CallInv, StageInv, TypeOK, disk
  <2> QED
    BY <1>9, <2>1, <2>3, GotoCalls DEF GetPath, Stages, TypeOK, disk
<1>10. ASSUME NEW h \in Handler, MountVolume(h) PROVE CallInv'
  <2>1. CASE VolumeOf[call[h].target] \in paths
    <3>1. Goto(h, "ok") /\ mounted' = [mounted EXCEPT ![call[h].target] = @ + 1]
      BY <1>10, <2>1 DEF MountVolume
    <3>2. /\ call'[h].kind = "publish" /\ call'[h].target = call[h].target
          /\ call'[h].stage = "ok"
      BY <1>10, <3>1, GotoEffect DEF MountVolume, At, Stages
    <3>3. mounted'[call[h].target] = 1
      BY <1>10, <3>1, CallFields DEF MountVolume, At, CallInv, StageInv, TypeOK
    <3>4. StageInv(call[h])'
      BY <3>2, <3>3 DEF StageInv
    <3> QED
      BY <1>10, <3>1, <3>4, GotoCalls DEF MountVolume, At, Stages, TypeOK
  <2>2. CASE VolumeOf[call[h].target] \notin paths
    BY <1>10, <2>2, FinishCalls DEF MountVolume, At
  <2> QED
    BY <2>1, <2>2
<1>11. ASSUME NEW h \in Handler, Expand(h) PROVE CallInv'
  <2>1. call[h] # Nil /\ Goto(h, "ok")
    BY <1>11 DEF Expand, At
  <2>2. /\ call'[h].kind = call[h].kind /\ call'[h].target = call[h].target
        /\ call'[h].stage = "ok"
    BY <2>1, GotoEffect DEF Stages
  <2>3. StageInv(call[h])'
    BY <1>11, <2>2, CallFields DEF Expand, At, CallInv, StageInv, TypeOK, disk
  <2> QED
    BY <1>11, <2>1, <2>3, GotoCalls DEF Expand, Stages, TypeOK, disk
<1>12. ASSUME NEW h \in Handler, UnpublishCheck(h) PROVE CallInv'
  <2> DEFINE s == AfterCheck(call[h].target)
  <2>1. call[h] # Nil /\ Goto(h, s) /\ s \in Stages
    BY <1>12 DEF UnpublishCheck, At, Stages, AfterCheck
  <2>2. /\ call'[h].kind = "unpublish" /\ call'[h].target = call[h].target
        /\ call'[h].stage = s
    BY <1>12, <2>1, GotoEffect DEF UnpublishCheck, At
  <2>3. /\ mounted[call[h].target] \in {0, 1}
        /\ mounted[call[h].target] = 1 => call[h].target \in targetDirs
    BY <1>12, CallFields DEF Inv, TargetInv, UnpublishCheck, At
  <2>4. StageInv(call[h])'
    BY <1>12, <2>2, <2>3 DEF UnpublishCheck, AfterCheck, StageInv, disk
  <2> HIDE DEF s
  <2> QED
    BY <1>12, <2>1, <2>4, GotoCalls DEF UnpublishCheck, disk
<1>13. ASSUME NEW h \in Handler, Unmount(h) PROVE CallInv'
  <2>1. call[h] # Nil /\ Goto(h, "release")
    BY <1>13 DEF Unmount, At
  <2>2. /\ call'[h].kind = call[h].kind /\ call'[h].target = call[h].target
        /\ call'[h].stage = "release"
    BY <2>1, GotoEffect DEF Stages
  <2>3. StageInv(call[h])'
    BY <1>13, <2>2, CallFields DEF Unmount, At, CallInv, StageInv, TypeOK, disk
  <2> QED
    BY <1>13, <2>1, <2>3, GotoCalls DEF Unmount, Stages, TypeOK, disk
<1>14. ASSUME NEW h \in Handler, Release(h) PROVE CallInv'
  <2>1. call[h] # Nil /\ Goto(h, "remove")
    BY <1>14 DEF Release, At
  <2>2. /\ call'[h].kind = call[h].kind /\ call'[h].target = call[h].target
        /\ call'[h].stage = "remove"
    BY <2>1, GotoEffect DEF Stages
  <2>3. StageInv(call[h])'
    BY <1>14, <2>2, CallFields DEF Release, At, CallInv, StageInv, TypeOK, disk
  <2> QED
    BY <1>14, <2>1, <2>3, GotoCalls DEF Release, Stages, TypeOK, disk
<1>15. ASSUME NEW h \in Handler, RemoveTarget(h) PROVE CallInv'
  <2>1. mounted[call[h].target] = 0 /\ call[h] # Nil
    BY <1>15 DEF RemoveTarget, At, CallInv, StageInv
  <2>2. Goto(h, "ok") /\ targetDirs' = targetDirs \ {call[h].target}
    BY <1>15, <2>1 DEF RemoveTarget
  <2>3. /\ call'[h].kind = "unpublish" /\ call'[h].target = call[h].target
        /\ call'[h].stage = "ok"
    BY <1>15, <2>1, <2>2, GotoEffect DEF RemoveTarget, At, Stages
  <2>4. StageInv(call[h])'
    BY <1>15, <2>1, <2>2, <2>3 DEF RemoveTarget, StageInv
  <2> QED
    BY <1>15, <2>1, <2>2, <2>4, GotoCalls DEF RemoveTarget, Stages
<1>16. ASSUME NEW h \in Handler, Return(h) PROVE CallInv'
  BY <1>16, FinishCalls DEF Return, TypeOK, disk
<1>17. CASE ListPaths
  BY <1>17 DEF ListPaths, CallInv, WantInv, StageInv, worker, disk
<1>18. ASSUME NEW v \in todo, CleanPath(v) PROVE CallInv'
  BY <1>18 DEF CleanPath, CallInv, WantInv, StageInv, worker, disk
<1>19. CASE ListMetaInfos
  BY <1>19 DEF ListMetaInfos, CallInv, WantInv, StageInv, worker, disk
<1>20. CASE EndRound
  BY <1>20 DEF EndRound, CallInv, WantInv, StageInv, worker, disk
<1>21. ASSUME NEW h \in Handler, CallFails(h) PROVE CallInv'
  BY <1>21, FinishCalls DEF CallFails, disk
<1>22. ASSUME NEW h \in Handler, KubeletGivesUp(h) PROVE CallInv'
  <2>1. UNCHANGED <<use, mounted, targetDirs>>
    BY <1>22 DEF KubeletGivesUp, disk
  <2>2. ASSUME NEW g \in Handler, call'[g] # Nil
        PROVE  /\ call[g] # Nil
               /\ call'[g].kind = call[g].kind /\ call'[g].target = call[g].target
               /\ call'[g].stage = call[g].stage
               /\ call'[g].heard => call[g].heard
    BY <1>22, <2>2, CallFields DEF KubeletGivesUp, TypeOK, Call
  <2> QED
    BY <2>1, <2>2 DEF CallInv, WantInv, StageInv
<1>23. ASSUME NEW h \in Handler, ReleaseFails(h) PROVE CallInv'
  BY <1>23, FinishCalls DEF ReleaseFails, At
<1>24. ASSUME NEW v \in todo, CleanPathFails(v) PROVE CallInv'
  BY <1>24 DEF CleanPathFails, CallInv, WantInv, StageInv, worker, disk
<1>25. CASE ListPathsFails
  BY <1>25 DEF ListPathsFails, CallInv, WantInv, StageInv, worker, disk
<1>26. CASE ListMetaInfosFails
  BY <1>26 DEF ListMetaInfosFails, CallInv, WantInv, StageInv, worker, disk
<1>27. CASE Restart
  BY <1>27 DEF Restart, CallInv, WantInv, StageInv, worker, disk
<1>28. CASE UNCHANGED vars
  BY <1>28 DEF CallInv, WantInv, StageInv, vars, disk
<1> QED
  BY <1>1, <1>2, <1>3, <1>4, <1>5, <1>6, <1>7, <1>8, <1>9, <1>10, <1>11,
     <1>12, <1>13, <1>14, <1>15, <1>16, <1>17, <1>18, <1>19, <1>20, <1>21,
     <1>22, <1>23, <1>24, <1>25, <1>26, <1>27, <1>28
  DEF Next, Kubelet, Serve, SyncWorker, Faulty

\* Steps keep the mounts, the target paths and the kubelet together.
LEMMA TargetInvKept ==
  ASSUME Inv, [Next]_vars
  PROVE  TargetInv'
<1>0. TypeOK /\ CallInv /\ TargetInv
  BY DEF Inv
<1> USE <1>0
<1>1. ASSUME NEW v \in Volume, NextLife(v) PROVE TargetInv'
  BY <1>1 DEF NextLife, TargetInv, worker, disk
<1>2. ASSUME NEW t \in Target, PodStarts(t) PROVE TargetInv'
  BY <1>2 DEF PodStarts, TargetInv, TypeOK, disk
<1>3. ASSUME NEW t \in Target, PodStops(t) PROVE TargetInv'
  BY <1>3 DEF PodStops, TargetInv, TypeOK, disk
<1>4. ASSUME NEW h \in Handler, NEW t \in Target, NodePublishVolume(h, t)
      PROVE  TargetInv'
  BY <1>4 DEF NodePublishVolume, Begin, TargetInv, disk
<1>5. ASSUME NEW h \in Handler, NEW t \in Target, NodeUnpublishVolume(h, t)
      PROVE  TargetInv'
  BY <1>5 DEF NodeUnpublishVolume, Begin, TargetInv, disk
<1>6. ASSUME NEW h \in Handler, NEW t \in Target, NodeExpandVolume(h, t)
      PROVE  TargetInv'
  BY <1>6 DEF NodeExpandVolume, Begin, TargetInv, disk
<1>7. ASSUME NEW h \in Handler, PublishCheck(h) PROVE TargetInv'
  BY <1>7 DEF PublishCheck, At, CallInv, WantInv, TargetInv
<1>8. ASSUME NEW h \in Handler, GetPV(h) PROVE TargetInv'
  BY <1>8 DEF GetPV, TargetInv, worker, disk
<1>9. ASSUME NEW h \in Handler, GetPath(h) PROVE TargetInv'
  BY <1>9 DEF GetPath, TargetInv, worker, disk
<1>10. ASSUME NEW h \in Handler, MountVolume(h) PROVE TargetInv'
  BY <1>10, CallFields DEF MountVolume, At, CallInv, StageInv, TargetInv, TypeOK
<1>11. ASSUME NEW h \in Handler, Expand(h) PROVE TargetInv'
  BY <1>11 DEF Expand, TargetInv, worker, disk
<1>12. ASSUME NEW h \in Handler, UnpublishCheck(h) PROVE TargetInv'
  BY <1>12 DEF UnpublishCheck, TargetInv, worker, disk
<1>13. ASSUME NEW h \in Handler, Unmount(h) PROVE TargetInv'
  BY <1>13, CallFields
  DEF Unmount, At, CallInv, WantInv, StageInv, TargetInv, TypeOK
<1>14. ASSUME NEW h \in Handler, Release(h) PROVE TargetInv'
  BY <1>14 DEF Release, TargetInv, worker, disk
<1>15. ASSUME NEW h \in Handler, RemoveTarget(h) PROVE TargetInv'
  BY <1>15, CallFields
  DEF RemoveTarget, At, CallInv, WantInv, StageInv, TargetInv, TypeOK
<1>16. ASSUME NEW h \in Handler, Return(h) PROVE TargetInv'
  <2>1. /\ call[h].target \in Target
        /\ call[h].kind = "publish" => mounted[call[h].target] = 1
        /\ call[h].kind = "unpublish" => call[h].target \notin targetDirs
        /\ call[h].kind \in {"publish", "unpublish", "expand"}
    BY <1>16, CallFields DEF Return, CallInv, StageInv, Call
  <2>2. UNCHANGED <<mounted, targetDirs>>
    BY <1>16 DEF Return, disk
  <2> QED
    BY <1>16, <2>1, <2>2 DEF Return, TargetInv, TypeOK
<1>17. CASE ListPaths
  BY <1>17 DEF ListPaths, TargetInv, worker, disk
<1>18. ASSUME NEW v \in todo, CleanPath(v) PROVE TargetInv'
  BY <1>18 DEF CleanPath, TargetInv, worker, disk
<1>19. CASE ListMetaInfos
  BY <1>19 DEF ListMetaInfos, TargetInv, worker, disk
<1>20. CASE EndRound
  BY <1>20 DEF EndRound, TargetInv, worker, disk
<1>21. ASSUME NEW h \in Handler, CallFails(h) PROVE TargetInv'
  BY <1>21 DEF CallFails, TargetInv, worker, disk
<1>22. ASSUME NEW h \in Handler, KubeletGivesUp(h) PROVE TargetInv'
  BY <1>22 DEF KubeletGivesUp, TargetInv, worker, disk
<1>23. ASSUME NEW h \in Handler, ReleaseFails(h) PROVE TargetInv'
  BY <1>23 DEF ReleaseFails, TargetInv, worker, disk
<1>24. ASSUME NEW v \in todo, CleanPathFails(v) PROVE TargetInv'
  BY <1>24 DEF CleanPathFails, TargetInv, worker, disk
<1>25. CASE ListPathsFails
  BY <1>25 DEF ListPathsFails, TargetInv, worker, disk
<1>26. CASE ListMetaInfosFails
  BY <1>26 DEF ListMetaInfosFails, TargetInv, worker, disk
<1>27. CASE Restart
  BY <1>27 DEF Restart, TargetInv, worker, disk
<1>28. CASE UNCHANGED vars
  BY <1>28 DEF TargetInv, vars, disk
<1> QED
  BY <1>1, <1>2, <1>3, <1>4, <1>5, <1>6, <1>7, <1>8, <1>9, <1>10, <1>11,
     <1>12, <1>13, <1>14, <1>15, <1>16, <1>17, <1>18, <1>19, <1>20, <1>21,
     <1>22, <1>23, <1>24, <1>25, <1>26, <1>27, <1>28
  DEF Next, Kubelet, Serve, SyncWorker, Faulty

\* Inv holds in every reachable state of the node server.
THEOREM Invariance == Spec => []Inv
<1>1. Init => Inv
  BY DEF Init, Inv, TypeOK, Life, Use, LockInv, LifeInv, CallInv, TargetInv
<1>2. Inv /\ [Next]_vars => Inv'
  BY TypeOKKept, LockInvKept, LifeInvKept, CallInvKept, TargetInvKept DEF Inv
<1> QED
  BY <1>1, <1>2, PTL DEF Spec

\* TypeOK: every variable of the node server keeps its type.
THEOREM TypeCorrect == Spec => []TypeOK
<1>1. Inv => TypeOK
  BY DEF Inv
<1> QED
  BY <1>1, Invariance, PTL

\* UnpublishedLeavesNothing: after NodeUnpublishVolume answered, nothing is
\* mounted on the target and the target path is gone.
THEOREM NothingLeftBehind == Spec => []UnpublishedLeavesNothing
<1>1. Inv => UnpublishedLeavesNothing
  BY DEF Inv, TargetInv, UnpublishedLeavesNothing
<1> QED
  BY <1>1, Invariance, PTL


\* A step that takes the path of a persistent volume finds it deleted.
LEMMA PathTaken ==
  ASSUME Inv, [Next]_vars, NEW u \in Volume \ Ephemeral, u \in paths \ paths'
  PROVE  u \notin Registered
<1>0. LifeInv
  BY DEF Inv
<1> USE <1>0
<1>1. ASSUME NEW v \in Volume, NextLife(v) PROVE u \notin Registered
  BY <1>1 DEF NextLife, disk
<1>2. ASSUME NEW t \in Target, PodStarts(t) PROVE u \notin Registered
  BY <1>2 DEF PodStarts, disk
<1>3. ASSUME NEW t \in Target, PodStops(t) PROVE u \notin Registered
  BY <1>3 DEF PodStops, disk
<1>4. ASSUME NEW h \in Handler, NEW t \in Target, NodePublishVolume(h, t)
      PROVE  u \notin Registered
  BY <1>4 DEF NodePublishVolume, Begin, disk
<1>5. ASSUME NEW h \in Handler, NEW t \in Target, NodeUnpublishVolume(h, t)
      PROVE  u \notin Registered
  BY <1>5 DEF NodeUnpublishVolume, Begin, disk
<1>6. ASSUME NEW h \in Handler, NEW t \in Target, NodeExpandVolume(h, t)
      PROVE  u \notin Registered
  BY <1>6 DEF NodeExpandVolume, Begin, disk
<1>7. ASSUME NEW h \in Handler, PublishCheck(h) PROVE u \notin Registered
  BY <1>7 DEF PublishCheck, disk
<1>8. ASSUME NEW h \in Handler, GetPV(h) PROVE u \notin Registered
  BY <1>8 DEF GetPV, disk
<1>9. ASSUME NEW h \in Handler, GetPath(h) PROVE u \notin Registered
  BY <1>9 DEF GetPath, disk
<1>10. ASSUME NEW h \in Handler, MountVolume(h) PROVE u \notin Registered
  BY <1>10 DEF MountVolume, disk
<1>11. ASSUME NEW h \in Handler, Expand(h) PROVE u \notin Registered
  BY <1>11 DEF Expand, disk
<1>12. ASSUME NEW h \in Handler, UnpublishCheck(h) PROVE u \notin Registered
  BY <1>12 DEF UnpublishCheck, disk
<1>13. ASSUME NEW h \in Handler, Unmount(h) PROVE u \notin Registered
  BY <1>13 DEF Unmount, disk
<1>14. ASSUME NEW h \in Handler, Release(h) PROVE u \notin Registered
  BY <1>14 DEF Release, ReleaseVolumePath
<1>15. ASSUME NEW h \in Handler, RemoveTarget(h) PROVE u \notin Registered
  BY <1>15 DEF RemoveTarget, disk
<1>16. ASSUME NEW h \in Handler, Return(h) PROVE u \notin Registered
  BY <1>16 DEF Return, disk
<1>17. CASE ListPaths
  BY <1>17 DEF ListPaths, disk
<1>18. ASSUME NEW v \in todo, CleanPath(v) PROVE u \notin Registered
  <2>1. v \in Deleted
    BY <1>18 DEF LifeInv
  <2> QED
    BY <1>18, <2>1 DEF CleanPath, ReleaseVolumePath, Deleted, Registered
<1>19. CASE ListMetaInfos
  BY <1>19 DEF ListMetaInfos, disk
<1>20. CASE EndRound
  BY <1>20 DEF EndRound, disk
<1>21. ASSUME NEW h \in Handler, CallFails(h) PROVE u \notin Registered
  BY <1>21 DEF CallFails, disk
<1>22. ASSUME NEW h \in Handler, KubeletGivesUp(h) PROVE u \notin Registered
  BY <1>22 DEF KubeletGivesUp, disk
<1>23. ASSUME NEW h \in Handler, ReleaseFails(h) PROVE u \notin Registered
  BY <1>23 DEF ReleaseFails, disk
<1>24. ASSUME NEW v \in todo, CleanPathFails(v) PROVE u \notin Registered
  BY <1>24 DEF CleanPathFails, disk
<1>25. CASE ListPathsFails
  BY <1>25 DEF ListPathsFails, disk
<1>26. CASE ListMetaInfosFails
  BY <1>26 DEF ListMetaInfosFails, disk
<1>27. CASE Restart
  BY <1>27 DEF Restart, disk
<1>28. CASE UNCHANGED vars
  BY <1>28 DEF vars, disk
<1> QED
  BY <1>1, <1>2, <1>3, <1>4, <1>5, <1>6, <1>7, <1>8, <1>9, <1>10, <1>11,
     <1>12, <1>13, <1>14, <1>15, <1>16, <1>17, <1>18, <1>19, <1>20, <1>21,
     <1>22, <1>23, <1>24, <1>25, <1>26, <1>27, <1>28
  DEF Next, Kubelet, Serve, SyncWorker, Faulty

\* RegisteredKeepsPath: neither a call nor the sync worker, with its old lists,
\* removes the directory of a persistent volume that is in the meta store.
THEOREM RegisteredPathsStay == Spec => RegisteredKeepsPath
<1>1. Inv /\ [Next]_vars =>
        [\A v \in Volume \ Ephemeral : v \in paths \ paths' => v \notin Registered]_vars
  BY PathTaken
<1> QED
  BY <1>1, Invariance, PTL DEF Spec, RegisteredKeepsPath

-----------------------------------------------------------------------------
(* The data, when every ephemeral volume has one target. *)

\* A volume with a call to unpublish it, if ephemeral, is in no pod's use.
LEMMA EphemeralUnused ==
  ASSUME EphemeralOnce, Inv, NEW h \in Handler, call[h] # Nil,
         call[h].kind = "unpublish", VolumeOf[call[h].target] \in Ephemeral,
         NEW t \in Target, VolumeOf[t] = VolumeOf[call[h].target]
  PROVE  use[t] = "unpublishing"
<1>1. call[h].target \in Target
  BY CallFields DEF Inv
<1>2. t = call[h].target
  BY <1>1 DEF EphemeralOnce
<1> QED
  BY <1>2 DEF Inv, CallInv, WantInv

\* A volume that left the meta store is in no pod's use.
LEMMA DeletedUnused ==
  ASSUME Inv, NEW v \in Deleted, NEW t \in Target, VolumeOf[t] = v
  PROVE  use[t] \notin {"publishing", "published"}
BY DEF Inv, LifeInv, Deleted

\* Steps keep the data under the mounts pods use.
LEMMA DataInvKept ==
  ASSUME EphemeralOnce, Inv, DataInv, [Next]_vars
  PROVE  DataInv'
<1>0. TypeOK /\ CallInv /\ TargetInv
  BY DEF Inv
<1> USE <1>0
<1>1. ASSUME NEW v \in Volume, NextLife(v) PROVE DataInv'
  BY <1>1 DEF NextLife, DataInv, worker, disk
<1>2. ASSUME NEW t \in Target, PodStarts(t) PROVE DataInv'
  <2>1. mounted[t] # 1
    BY <1>2 DEF PodStarts, TargetInv
  <2> QED
    BY <1>2, <2>1 DEF PodStarts, DataInv, TypeOK, disk
<1>3. ASSUME NEW t \in Target, PodStops(t) PROVE DataInv'
  BY <1>3 DEF PodStops, DataInv, TypeOK, disk
<1>4. ASSUME NEW h \in Handler, NEW t \in Target, NodePublishVolume(h, t)
      PROVE  DataInv'
  BY <1>4 DEF NodePublishVolume, Begin, DataInv, disk
<1>5. ASSUME NEW h \in Handler, NEW t \in Target, NodeUnpublishVolume(h, t)
      PROVE  DataInv'
  BY <1>5 DEF NodeUnpublishVolume, Begin, DataInv, disk
<1>6. ASSUME NEW h \in Handler, NEW t \in Target, NodeExpandVolume(h, t)
      PROVE  DataInv'
  BY <1>6 DEF NodeExpandVolume, Begin, DataInv, disk
<1>7. ASSUME NEW h \in Handler, PublishCheck(h) PROVE DataInv'
  BY <1>7 DEF PublishCheck, DataInv, worker, disk
<1>8. ASSUME NEW h \in Handler, GetPV(h) PROVE DataInv'
  BY <1>8 DEF GetPV, DataInv, worker, disk
<1>9. ASSUME NEW h \in Handler, GetPath(h) PROVE DataInv'
  BY <1>9 DEF GetPath, DataInv, worker, disk
<1>10. ASSUME NEW h \in Handler, MountVolume(h) PROVE DataInv'
  BY <1>10, CallFields DEF MountVolume, At, CallInv, StageInv, DataInv, TypeOK
<1>11. ASSUME NEW h \in Handler, Expand(h) PROVE DataInv'
  BY <1>11 DEF Expand, DataInv, worker, disk
<1>12. ASSUME NEW h \in Handler, UnpublishCheck(h) PROVE DataInv'
  BY <1>12 DEF UnpublishCheck, DataInv, worker, disk
<1>13. ASSUME NEW h \in Handler, Unmount(h) PROVE DataInv'
  BY <1>13, CallFields DEF Unmount, At, CallInv, WantInv, DataInv, TypeOK
<1>14. ASSUME NEW h \in Handler, Release(h) PROVE DataInv'
  <2>1. CASE VolumeOf[call[h].target] \notin Ephemeral
    BY <1>14, <2>1 DEF Release, DataInv
  <2>2. CASE VolumeOf[call[h].target] \in Ephemeral
    <3>1. ASSUME NEW t \in Target, VolumeOf[t] = VolumeOf[call[h].target]
          PROVE  use[t] = "unpublishing"
      BY <1>14, <2>2, <3>1, EphemeralUnused DEF Release, At
    <3> QED
      BY <1>14, <2>2, <3>1 DEF Release, ReleaseVolumePath, Wipe, DataInv
  <2> QED
    BY <2>1, <2>2
<1>15. ASSUME NEW h \in Handler, RemoveTarget(h) PROVE DataInv'
  <2>1. mounted[call[h].target] = 0
    BY <1>15 DEF RemoveTarget, At, CallInv, StageInv
  <2> QED
    BY <1>15, <2>1 DEF RemoveTarget, DataInv
<1>16. ASSUME NEW h \in Handler, Return(h) PROVE DataInv'
  <2>1. \A t \in Target : use'[t] \in {"publishing", "published"} =>
          use[t] \in {"publishing", "published"}
    <3>1. /\ call[h].target \in Target
          /\ call[h].heard /\ call[h].kind = "publish" =>
               use[call[h].target] = "publishing"
      BY <1>16, CallFields DEF CallInv, WantInv, Return
    <3>2. call[h].kind \in {"publish", "unpublish", "expand"}
      BY <1>16, CallFields DEF Call, Return
    <3> QED
      BY <1>16, <3>1, <3>2 DEF Return, TypeOK
  <2> QED
    BY <1>16, <2>1 DEF Return, DataInv, disk
<1>17. CASE ListPaths
  BY <1>17 DEF ListPaths, DataInv, worker, disk
<1>18. ASSUME NEW v \in todo, CleanPath(v) PROVE DataInv'
  <2>1. v \in Deleted
    BY DEF Inv, LifeInv
  <2> QED
    BY <1>18, <2>1, DeletedUnused
    DEF CleanPath, ReleaseVolumePath, Wipe, DataInv
<1>19. CASE ListMetaInfos
  BY <1>19 DEF ListMetaInfos, DataInv, worker, disk
<1>20. CASE EndRound
  BY <1>20 DEF EndRound, DataInv, worker, disk
<1>21. ASSUME NEW h \in Handler, CallFails(h) PROVE DataInv'
  BY <1>21 DEF CallFails, DataInv, worker, disk
<1>22. ASSUME NEW h \in Handler, KubeletGivesUp(h) PROVE DataInv'
  BY <1>22 DEF KubeletGivesUp, DataInv, worker, disk
<1>23. ASSUME NEW h \in Handler, ReleaseFails(h) PROVE DataInv'
  <2>1. ASSUME NEW t \in Target, VolumeOf[t] = VolumeOf[call[h].target]
        PROVE  use[t] = "unpublishing"
    BY <1>23, <2>1, EphemeralUnused DEF ReleaseFails, At
  <2> QED
    BY <1>23, <2>1 DEF ReleaseFails, Wipe, DataInv
<1>24. ASSUME NEW v \in todo, CleanPathFails(v) PROVE DataInv'
  <2>1. v \in Deleted
    BY DEF Inv, LifeInv
  <2> QED
    BY <1>24, <2>1, DeletedUnused DEF CleanPathFails, Wipe, DataInv
<1>25. CASE ListPathsFails
  BY <1>25 DEF ListPathsFails, DataInv, worker, disk
<1>26. CASE ListMetaInfosFails
  BY <1>26 DEF ListMetaInfosFails, DataInv, worker, disk
<1>27. CASE Restart
  BY <1>27 DEF Restart, DataInv, worker, disk
<1>28. CASE UNCHANGED vars
  BY <1>28 DEF DataInv, vars, disk
<1> QED
  BY <1>1, <1>2, <1>3, <1>4, <1>5, <1>6, <1>7, <1>8, <1>9, <1>10, <1>11,
     <1>12, <1>13, <1>14, <1>15, <1>16, <1>17, <1>18, <1>19, <1>20, <1>21,
     <1>22, <1>23, <1>24, <1>25, <1>26, <1>27, <1>28
  DEF Next, Kubelet, Serve, SyncWorker, Faulty

\* EphemeralInv is kept when one call goes on to another stage than "remove",
\* and paths and target paths stay or grow by its own.
LEMMA GotoEphemeral ==
  ASSUME TypeOK, EphemeralInv, NEW h \in Handler, call[h] # Nil,
         NEW s \in Stages \ {"remove"}, Goto(h, s),
         paths' = paths, targetDirs \subseteq targetDirs'
  PROVE  EphemeralInv'
<1>1. call'[h].stage # "remove" /\ \A g \in Handler : g # h => call'[g] = call[g]
  BY GotoEffect
<1> QED
  BY <1>1 DEF EphemeralInv

\* EphemeralInv is kept when one call ends.
LEMMA FinishEphemeral ==
  ASSUME TypeOK, EphemeralInv, NEW h \in Handler, call[h] # Nil, Finish(h),
         paths' = paths, targetDirs' = targetDirs
  PROVE  EphemeralInv'
<1>1. call'[h] = Nil /\ \A g \in Handler : g # h => call'[g] = call[g]
  BY FinishEffect
<1> QED
  BY <1>1 DEF EphemeralInv

\* Steps keep the directory of an ephemeral volume and its target path together.
LEMMA EphemeralInvKept ==
  ASSUME EphemeralOnce, Inv, EphemeralInv, [Next]_vars
  PROVE  EphemeralInv'
<1>0. TypeOK /\ LockInv /\ CallInv
  BY DEF Inv
<1> USE <1>0
<1>1. ASSUME NEW v \in Volume, NextLife(v) PROVE EphemeralInv'
  BY <1>1 DEF NextLife, EphemeralInv, worker, disk
<1>2. ASSUME NEW t \in Target, PodStarts(t) PROVE EphemeralInv'
  BY <1>2 DEF PodStarts, EphemeralInv, worker, disk
<1>3. ASSUME NEW t \in Target, PodStops(t) PROVE EphemeralInv'
  BY <1>3 DEF PodStops, EphemeralInv, worker, disk
<1>4. ASSUME NEW h \in Handler, NEW t \in Target, NodePublishVolume(h, t)
      PROVE  EphemeralInv'
  <2>1. Begin(h, "publish", t, "check")
    BY <1>4 DEF NodePublishVolume
  <2>2. /\ call'[h].stage = "check"
        /\ \A g \in Handler : g # h => call'[g] = call[g]
    BY <2>1, BeginEffect DEF Stages
  <2> QED
    BY <2>1, <2>2 DEF Begin, EphemeralInv, disk
<1>5. ASSUME NEW h \in Handler, NEW t \in Target, NodeUnpublishVolume(h, t)
      PROVE  EphemeralInv'
  <2>1. Begin(h, "unpublish", t, "check")
    BY <1>5 DEF NodeUnpublishVolume
  <2>2. /\ call'[h].stage = "check"
        /\ \A g \in Handler : g # h => call'[g] = call[g]
    BY <2>1, BeginEffect DEF Stages
  <2> QED
    BY <2>1, <2>2 DEF Begin, EphemeralInv, disk
<1>6. ASSUME NEW h \in Handler, NEW t \in Target, NodeExpandVolume(h, t)
      PROVE  EphemeralInv'
  <2>1. Begin(h, "expand", t, "expand")
    BY <1>6 DEF NodeExpandVolume
  <2>2. /\ call'[h].stage = "expand"
        /\ \A g \in Handler : g # h => call'[g] = call[g]
    BY <2>1, BeginEffect DEF Stages
  <2> QED
    BY <2>1, <2>2 DEF Begin, EphemeralInv, disk
<1>7. ASSUME NEW h \in Handler, PublishCheck(h) PROVE EphemeralInv'
  BY <1>7, GotoEphemeral DEF PublishCheck, At, Stages, disk
<1>8. ASSUME NEW h \in Handler, GetPV(h) PROVE EphemeralInv'
  BY <1>8, GotoEphemeral, FinishEphemeral DEF GetPV, At, Stages, disk
<1>9. ASSUME NEW h \in Handler, GetPath(h) PROVE EphemeralInv'
  <2>1. /\ call[h] # Nil /\ call[h].target \in targetDirs
        /\ call[h].target \in Target
    BY <1>9, CallFields DEF GetPath, At, CallInv, StageInv
  <2>2. call'[h].stage = "mount" /\ \A g \in Handler : g # h => call'[g] = call[g]
    BY <1>9, <2>1, GotoEffect DEF GetPath, Stages
  <2>3. \A t \in Target : VolumeOf[t] \in Ephemeral \cap paths' => t \in targetDirs
    BY <1>9, <2>1 DEF GetPath, EphemeralInv, EphemeralOnce
  <2>4. ASSUME NEW g \in Handler, g # h, call[g] # Nil
        PROVE  VolumeOf[call[g].target] # VolumeOf[call[h].target]
    BY <2>1, <2>4 DEF LockInv
  <2> QED
    BY <1>9, <2>2, <2>3, <2>4 DEF GetPath, EphemeralInv
<1>10. ASSUME NEW h \in Handler, MountVolume(h) PROVE EphemeralInv'
  BY <1>10, GotoEphemeral, FinishEphemeral DEF MountVolume, At, Stages, disk
<1>11. ASSUME NEW h \in Handler, Expand(h) PROVE EphemeralInv'
  BY <1>11, GotoEphemeral DEF Expand, At, Stages, disk
<1>12. ASSUME NEW h \in Handler, UnpublishCheck(h) PROVE EphemeralInv'
  BY <1>12, GotoEphemeral DEF UnpublishCheck, AfterCheck, At, Stages, disk
<1>13. ASSUME NEW h \in Handler, Unmount(h) PROVE EphemeralInv'
  BY <1>13, GotoEphemeral DEF Unmount, At, Stages, disk
<1>14. ASSUME NEW h \in Handler, Release(h) PROVE EphemeralInv'
  <2>1. call[h] # Nil /\ Goto(h, "remove")
    BY <1>14 DEF Release, At
  <2>2. /\ call'[h].target = call[h].target
        /\ \A g \in Handler : g # h => call'[g] = call[g]
    BY <2>1, GotoEffect DEF Stages
  <2>3. /\ paths' \subseteq paths /\ targetDirs' = targetDirs
        /\ VolumeOf[call[h].target] \notin Ephemeral \cap paths'
    BY <1>14 DEF Release, ReleaseVolumePath
  <2> QED
    BY <2>2, <2>3 DEF EphemeralInv
<1>15. ASSUME NEW h \in Handler, RemoveTarget(h) PROVE EphemeralInv'
  <2>1. call[h] # Nil /\ call[h].target \in Target /\ mounted[call[h].target] = 0
    BY <1>15, CallFields DEF RemoveTarget, At, CallInv, StageInv
  <2>2. /\ Goto(h, "ok") /\ paths' = paths
        /\ targetDirs' = targetDirs \ {call[h].target}
    BY <1>15, <2>1 DEF RemoveTarget
  <2>3. call'[h].stage = "ok" /\ \A g \in Handler : g # h => call'[g] = call[g]
    BY <2>1, <2>2, GotoEffect DEF Stages
  <2>4. VolumeOf[call[h].target] \notin Ephemeral \cap paths
    BY <1>15 DEF RemoveTarget, At, EphemeralInv
  <2> QED
    BY <2>1, <2>2, <2>3, <2>4 DEF EphemeralInv
<1>16. ASSUME NEW h \in Handler, Return(h) PROVE EphemeralInv'
  BY <1>16, FinishEphemeral DEF Return, disk
<1>17. CASE ListPaths
  BY <1>17 DEF ListPaths, EphemeralInv, worker, disk
<1>18. ASSUME NEW v \in todo, CleanPath(v) PROVE EphemeralInv'
  BY <1>18 DEF CleanPath, ReleaseVolumePath, EphemeralInv
<1>19. CASE ListMetaInfos
  BY <1>19 DEF ListMetaInfos, EphemeralInv, worker, disk
<1>20. CASE EndRound
  BY <1>20 DEF EndRound, EphemeralInv, worker, disk
<1>21. ASSUME NEW h \in Handler, CallFails(h) PROVE EphemeralInv'
  BY <1>21, FinishEphemeral DEF CallFails, disk
<1>22. ASSUME NEW h \in Handler, KubeletGivesUp(h) PROVE EphemeralInv'
  <2>1. \A g \in Handler : call'[g] # Nil =>
          /\ call[g] # Nil
          /\ call'[g].target = call[g].target /\ call'[g].stage = call[g].stage
    BY <1>22, CallFields DEF KubeletGivesUp, TypeOK, Call
  <2> QED
    BY <1>22, <2>1 DEF KubeletGivesUp, EphemeralInv, disk
<1>23. ASSUME NEW h \in Handler, ReleaseFails(h) PROVE EphemeralInv'
  BY <1>23, FinishEphemeral DEF ReleaseFails, At
<1>24. ASSUME NEW v \in todo, CleanPathFails(v) PROVE EphemeralInv'
  BY <1>24 DEF CleanPathFails, EphemeralInv, worker, disk
<1>25. CASE ListPathsFails
  BY <1>25 DEF ListPathsFails, EphemeralInv, worker, disk
<1>26. CASE ListMetaInfosFails
  BY <1>26 DEF ListMetaInfosFails, EphemeralInv, worker, disk
<1>27. CASE Restart
  BY <1>27 DEF Restart, EphemeralInv, worker, disk
<1>28. CASE UNCHANGED vars
  BY <1>28 DEF EphemeralInv, vars, disk
<1> QED
  BY <1>1, <1>2, <1>3, <1>4, <1>5, <1>6, <1>7, <1>8, <1>9, <1>10, <1>11,
     <1>12, <1>13, <1>14, <1>15, <1>16, <1>17, <1>18, <1>19, <1>20, <1>21,
     <1>22, <1>23, <1>24, <1>25, <1>26, <1>27, <1>28
  DEF Next, Kubelet, Serve, SyncWorker, Faulty

\* PublishedVolumeServed: a pod whose NodePublishVolume was answered keeps its
\* mount and its data until it stops, if ephemeral volumes have one target each.
THEOREM PodsKeepTheirVolumes == EphemeralOnce => (Spec => []PublishedVolumeServed)
<1> SUFFICES ASSUME EphemeralOnce PROVE Spec => []PublishedVolumeServed
  OBVIOUS
<1>1. Init => DataInv
  BY DEF Init, DataInv
<1>2. Inv /\ DataInv /\ [Next]_vars => DataInv'
  BY DataInvKept
<1>3. Inv /\ DataInv => PublishedVolumeServed
  BY DEF Inv, TargetInv, DataInv, PublishedVolumeServed
<1> QED
  BY <1>1, <1>2, <1>3, Invariance, PTL DEF Spec

\* EphemeralReleased: NodeUnpublishVolume leaves no directory of an ephemeral
\* volume, if ephemeral volumes have one target each.
THEOREM EphemeralDirsRemoved == EphemeralOnce => (Spec => []EphemeralReleased)
<1> SUFFICES ASSUME EphemeralOnce PROVE Spec => []EphemeralReleased
  OBVIOUS
<1>1. Init => EphemeralInv
  BY DEF Init, EphemeralInv
<1>2. Inv /\ EphemeralInv /\ [Next]_vars => EphemeralInv'
  BY EphemeralInvKept
<1>3. Inv /\ EphemeralInv => EphemeralReleased
  BY DEF Inv, TargetInv, EphemeralInv, EphemeralReleased
<1> QED
  BY <1>1, <1>2, <1>3, Invariance, PTL DEF Spec
=============================================================================
