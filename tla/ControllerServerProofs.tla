----------------------- MODULE ControllerServerProofs -----------------------
(***************************************************************************)
(* Theorems about ControllerServer, for every set of volumes and handlers  *)
(* and every number of faults: the inductive invariant, the properties it  *)
(* implies, and that the whole-map writes implement VolumeRegistry.        *)
(***************************************************************************)
EXTENDS ControllerServer, TLAPS


\* Nil is told apart from calls and goroutines.
LEMMA NilFacts ==
  Nil \notin Handler /\ \A c \in Call : c # Nil
  BY NilAssumption

\* The invariant holds when the controller starts on an empty ConfigMap.
LEMMA InitInv == Init => Inv
<1> SUFFICES ASSUME Init PROVE Inv
  OBVIOUS
<1>1. TypeOK
  BY DEF Init, TypeOK, Life
<1>2. CallInv /\ LockInv /\ UpdateInv /\ SenderInv
  BY DEF Init, CallInv, LockInv, UpdateInv, SenderInv
<1>3. LiveVolumeRegistered /\ GoneVolumeUnregistered
  BY DEF Init, LiveVolumeRegistered, GoneVolumeUnregistered
<1> QED
  BY <1>1, <1>2, <1>3 DEF Inv

\* A call that begins is one of the calls, and no other call changes.
LEMMA BeginFacts ==
  ASSUME TypeOK, NEW h \in Handler, NEW v \in Volume,
         NEW kind \in {"create", "delete"}, Begin(h, kind, v)
  PROVE  /\ call' \in [Handler -> Call \cup {Nil}]
         /\ call'[h] = [kind |-> kind, vol |-> v, heard |-> TRUE,
                        stage |-> "get"]
         /\ call'[h] # Nil
         /\ \A g \in Handler : g # h => call'[g] = call[g]
<1>1. [kind |-> kind, vol |-> v, heard |-> TRUE, stage |-> "get"] \in Call
  BY DEF Call
<1> QED
  BY <1>1, NilFacts DEF Begin, TypeOK

\* Starting a CreateVolume preserves the invariant: the lock keeps a second
\* creation of the volume out.
LEMMA CreateVolumeInv ==
  ASSUME Inv, NEW h \in Handler, NEW v \in Volume, CreateVolume(h, v)
  PROVE  Inv'
<1> USE DEF Inv
<1>0. /\ call' \in [Handler -> Call \cup {Nil}]
      /\ call'[h] = [kind |-> "create", vol |-> v, heard |-> TRUE,
                     stage |-> "get"]
      /\ call'[h] # Nil
      /\ \A g \in Handler : g # h => call'[g] = call[g]
  BY BeginFacts DEF CreateVolume
<1>1. /\ call[h] = Nil /\ life[v] \in {"none", "creating"}
      /\ v \notin locks /\ locks' = locks \cup {v}
      /\ life' = [life EXCEPT ![v] = "creating"]
      /\ store' = store /\ rv' = rv /\ updates' = updates
      /\ faults' = faults
  BY DEF CreateVolume, TryAcquire
<1>2. TypeOK'
  BY <1>0, <1>1 DEF TypeOK, Life
<1>3. /\ life'[v] = "creating"
      /\ \A w \in Volume : w # v => life'[w] = life[w]
  BY <1>1 DEF TypeOK
<1>4. \A g \in Handler : call[g] # Nil => call[g].vol \in Volume
  BY DEF TypeOK, Call
<1>5. CallInv'
  BY <1>0, <1>1, <1>3, <1>4 DEF CallInv
<1>6. LockInv'
  BY <1>0, <1>1, <1>4 DEF CallInv, LockInv
<1>7. UpdateInv'
  <2> SUFFICES ASSUME NEW u \in updates
               PROVE  /\ u.ver <= rv
                      /\ u.ver = rv => u.data = Changed(u.kind, u.vol)
                      /\ u.kind = "create" => \/ life'[u.vol] = "creating"
                                              \/ u.ver < rv
                                              \/ u.vol \in store
                      /\ u.kind = "delete" =>
                           life'[u.vol] \in {"deleting", "gone"}
                      /\ u.from # Nil => /\ call'[u.from] # Nil
                                         /\ call'[u.from].kind = u.kind
                                         /\ call'[u.from].vol = u.vol
                                         /\ call'[u.from].stage = "wait"
    BY <1>1 DEF UpdateInv, Changed
  <2>1. u.vol \in Volume /\ u.from \in Handler \cup {Nil}
    BY DEF TypeOK, Update
  <2>2. u.from # Nil => u.from # h /\ call'[u.from] = call[u.from]
    BY <2>1, <1>0, <1>1 DEF UpdateInv
  <2>3. u.kind = "delete" => u.vol # v
    BY <1>1 DEF UpdateInv
  <2> QED
    BY <2>1, <2>2, <2>3, <1>3 DEF UpdateInv
<1>8. SenderInv'
  BY <1>1 DEF SenderInv
<1>9. LiveVolumeRegistered' /\ GoneVolumeUnregistered'
  BY <1>1, <1>3 DEF LiveVolumeRegistered, GoneVolumeUnregistered
<1> QED
  BY <1>2, <1>5, <1>6, <1>7, <1>8, <1>9

\* Starting a DeleteVolume preserves the invariant: a late write of the
\* volume's creation is stale or changes nothing.
LEMMA DeleteVolumeInv ==
  ASSUME Inv, NEW h \in Handler, NEW v \in Volume, DeleteVolume(h, v)
  PROVE  Inv'
<1> USE DEF Inv
<1>0. /\ call' \in [Handler -> Call \cup {Nil}]
      /\ call'[h] = [kind |-> "delete", vol |-> v, heard |-> TRUE,
                     stage |-> "get"]
      /\ call'[h] # Nil
      /\ \A g \in Handler : g # h => call'[g] = call[g]
  BY BeginFacts DEF DeleteVolume
<1>1. /\ call[h] = Nil /\ life[v] \in {"live", "deleting"}
      /\ life' = [life EXCEPT ![v] = "deleting"]
      /\ locks' = locks
      /\ store' = store /\ rv' = rv /\ updates' = updates
      /\ faults' = faults
  BY DEF DeleteVolume
<1>2. TypeOK'
  BY <1>0, <1>1 DEF TypeOK, Life
<1>3. /\ life'[v] = "deleting"
      /\ \A w \in Volume : w # v => life'[w] = life[w]
  BY <1>1 DEF TypeOK
<1>4. \A g \in Handler : call[g] # Nil => call[g].vol \in Volume
  BY DEF TypeOK, Call
<1>5. CallInv'
  BY <1>0, <1>1, <1>3, <1>4 DEF CallInv
<1>6. LockInv'
  BY <1>0, <1>1, <1>4 DEF CallInv, LockInv
<1>7. UpdateInv'
  <2>1. \A u \in updates : u.vol \in Volume /\ u.from \in Handler \cup {Nil}
    BY DEF TypeOK, Update
  <2> QED
    BY <2>1, <1>0, <1>1, <1>3 DEF UpdateInv, Changed
<1>8. SenderInv'
  BY <1>1 DEF SenderInv
<1>9. LiveVolumeRegistered' /\ GoneVolumeUnregistered'
  BY <1>1, <1>3 DEF LiveVolumeRegistered, GoneVolumeUnregistered
<1> QED
  BY <1>2, <1>5, <1>6, <1>7, <1>8, <1>9

\* Reading the ConfigMap and sending the changed map preserves the invariant.
LEMMA GetAndSendInv ==
  ASSUME Inv, NEW h \in Handler, GetAndSend(h)
  PROVE  Inv'
<1> USE DEF Inv
<1> DEFINE n == [from |-> h, kind |-> call[h].kind, vol |-> call[h].vol,
                 ver |-> rv, data |-> Changed(call[h].kind, call[h].vol)]
<1>1. /\ call[h] # Nil /\ call[h].stage = "get"
      /\ updates' = updates \cup {n}
      /\ call' = [call EXCEPT ![h].stage = "wait"]
      /\ store' = store /\ rv' = rv /\ locks' = locks /\ life' = life
      /\ faults' = faults
  BY DEF GetAndSend
<1>2. call[h] \in Call
  BY <1>1 DEF TypeOK
<1>3. /\ call'[h] = [call[h] EXCEPT !.stage = "wait"]
      /\ call'[h] \in Call /\ call'[h] # Nil
      /\ call'[h].kind = call[h].kind /\ call'[h].vol = call[h].vol
      /\ call'[h].stage = "wait"
      /\ \A g \in Handler : g # h => call'[g] = call[g]
  <2>1. call'[h] = [call[h] EXCEPT !.stage = "wait"]
    BY <1>1 DEF TypeOK
  <2>2. /\ call'[h] \in Call
        /\ call'[h].kind = call[h].kind /\ call'[h].vol = call[h].vol
        /\ call'[h].stage = "wait"
    BY <2>1, <1>2 DEF Call
  <2> QED
    BY <2>1, <2>2, <1>1, NilFacts DEF TypeOK
<1>4. n \in Update
  <2>1. Changed(call[h].kind, call[h].vol) \in SUBSET Volume
    BY <1>2 DEF Changed, TypeOK, Call
  <2> QED
    BY <2>1, <1>2 DEF Update, TypeOK, Call
<1>5. TypeOK'
  BY <1>1, <1>3, <1>4 DEF TypeOK
<1>6. CallInv'
  BY <1>1, <1>3 DEF CallInv
<1>7. LockInv'
  BY <1>1, <1>3 DEF LockInv
<1>8. \A u \in updates : u.from # h
  BY <1>1, NilFacts DEF UpdateInv
<1>9. UpdateInv'
  <2>1. \A u \in updates : u.from \in Handler \cup {Nil}
    BY DEF TypeOK, Update
  <2>2. /\ n.from = h /\ n.kind = call[h].kind /\ n.vol = call[h].vol
        /\ n.ver = rv /\ n.data = Changed(n.kind, n.vol)
        /\ n.kind = "create" => life[n.vol] = "creating"
        /\ n.kind = "delete" => life[n.vol] \in {"deleting", "gone"}
    BY <1>1 DEF CallInv
  <2>3. rv \in Nat
    BY DEF TypeOK
  <2> HIDE DEF n
  <2> SUFFICES ASSUME NEW u \in updates \cup {n}
               PROVE  /\ u.ver <= rv
                      /\ u.ver = rv => u.data = Changed(u.kind, u.vol)
                      /\ u.kind = "create" => \/ life[u.vol] = "creating"
                                              \/ u.ver < rv
                                              \/ u.vol \in store
                      /\ u.kind = "delete" =>
                           life[u.vol] \in {"deleting", "gone"}
                      /\ u.from # Nil => /\ call'[u.from] # Nil
                                         /\ call'[u.from].kind = u.kind
                                         /\ call'[u.from].vol = u.vol
                                         /\ call'[u.from].stage = "wait"
    BY <1>1 DEF UpdateInv, Changed
  <2>4. CASE u = n
    <3>1. n.ver <= rv
      BY <2>2, <2>3
    <3>2. /\ call'[n.from] # Nil /\ call'[n.from].kind = n.kind
          /\ call'[n.from].vol = n.vol /\ call'[n.from].stage = "wait"
      BY <2>2, <1>3
    <3> QED
      BY ONLY <2>2, <2>4, <3>1, <3>2
  <2>5. CASE u \in updates
    <3>1. u.from # Nil => call'[u.from] = call[u.from]
      BY <2>1, <2>5, <1>3, <1>8
    <3> QED
      BY <2>5, <3>1 DEF UpdateInv
  <2> QED
    BY <2>4, <2>5
<1>10. SenderInv'
  BY <1>1, <1>8 DEF SenderInv
<1>11. LiveVolumeRegistered' /\ GoneVolumeUnregistered'
  BY <1>1 DEF LiveVolumeRegistered, GoneVolumeUnregistered
<1> QED
  BY <1>5, <1>6, <1>7, <1>9, <1>10, <1>11

\* A write that the API server accepts is one change of the current map; it
\* adds a volume only while that is being created, and removes one only while
\* that is being deleted.
LEMMA AcceptedWrite ==
  ASSUME Inv, NEW u \in updates, Current(u)
  PROVE  /\ u.data = Changed(u.kind, u.vol)
         /\ u.kind \in {"create", "delete"}
         /\ u.kind = "create" =>
              life[u.vol] = "creating" \/ u.vol \in store
         /\ u.kind = "delete" => life[u.vol] \in {"deleting", "gone"}
         /\ u.data \in SUBSET Volume
         /\ u.vol \in Volume
<1>1. u \in Update /\ rv \in Nat
  BY DEF Inv, TypeOK
<1> QED
  BY <1>1 DEF Inv, UpdateInv, Current, Update

\* Processing a write preserves the invariant.
LEMMA ProcessInv ==
  ASSUME Inv, NEW u \in updates, Process(u)
  PROVE  Inv'
<1> USE DEF Inv
<1>1. /\ updates' = updates \ {u}
      /\ locks' = locks /\ life' = life /\ faults' = faults
      /\ ~Current(u) => store' = store /\ rv' = rv
      /\ Current(u) => /\ store' = u.data
                       /\ rv' = IF u.data = store THEN rv ELSE rv + 1
      /\ call' = IF u.from = Nil THEN call
                 ELSE [call EXCEPT ![u.from].stage =
                         IF Current(u) THEN "ok" ELSE "conflict"]
  BY DEF Process
<1>2. u \in Update /\ rv \in Nat /\ updates \subseteq Update
  BY DEF TypeOK
<1>3. ASSUME u.from # Nil
      PROVE  /\ u.from \in Handler
             /\ call[u.from] \in Call
             /\ call'[u.from] \in Call
             /\ call'[u.from].kind = u.kind /\ call'[u.from].vol = u.vol
             /\ Current(u) => call'[u.from].stage = "ok"
             /\ ~Current(u) => call'[u.from].stage = "conflict"
  <2> DEFINE s == IF Current(u) THEN "ok" ELSE "conflict"
  <2>1. /\ u.from \in Handler /\ call[u.from] \in Call
        /\ call[u.from].kind = u.kind /\ call[u.from].vol = u.vol
    BY <1>2, <1>3 DEF Update, UpdateInv, TypeOK
  <2>2. call'[u.from] = [call[u.from] EXCEPT !.stage = s]
    BY <1>1, <1>3, <2>1 DEF TypeOK
  <2> QED
    BY <2>1, <2>2 DEF Call
<1>4. \A g \in Handler : g # u.from => call'[g] = call[g]
  BY <1>1 DEF TypeOK
<1>5. /\ rv' \in Nat /\ rv <= rv'
      /\ rv' = rv => store' = store
      /\ store' \in SUBSET Volume
  <2>1. CASE Current(u)
    BY <1>1, <1>2, <2>1, AcceptedWrite
  <2>2. CASE ~Current(u)
    BY <1>1, <1>2, <2>2 DEF TypeOK
  <2> QED
    BY <2>1, <2>2
<1>6. TypeOK'
  <2>1. call' \in [Handler -> Call \cup {Nil}]
    BY <1>1, <1>3, <1>4 DEF TypeOK
  <2> QED
    BY <1>1, <1>5, <2>1 DEF TypeOK
<1>7. \A v \in Volume :
        /\ v \in store' \ store => life[v] = "creating"
        /\ v \in store \ store' => life[v] \in {"deleting", "gone"}
  <2>1. CASE Current(u)
    <3>1. /\ store' = Changed(u.kind, u.vol)
          /\ u.kind \in {"create", "delete"}
          /\ u.kind = "create" => life[u.vol] = "creating" \/ u.vol \in store
          /\ u.kind = "delete" => life[u.vol] \in {"deleting", "gone"}
      BY <1>1, <2>1, AcceptedWrite
    <3> QED
      BY ONLY <3>1 DEF Changed
  <2>2. CASE ~Current(u)
    BY <1>1, <2>2
  <2> QED
    BY <2>1, <2>2
<1>8. Current(u) => /\ u.kind = "create" => u.vol \in store'
                    /\ u.kind = "delete" => u.vol \notin store'
  BY <1>1, AcceptedWrite DEF Changed
<1>9. CallInv'
  <2> SUFFICES ASSUME NEW g \in Handler, call'[g] # Nil
               PROVE  /\ call'[g].kind = "create" =>
                           /\ life[call'[g].vol] = "creating"
                           /\ call'[g].vol \in locks
                           /\ call'[g].stage = "ok" => call'[g].vol \in store'
                      /\ call'[g].kind = "delete" =>
                           /\ life[call'[g].vol] \in {"deleting", "gone"}
                           /\ call'[g].stage = "ok" => call'[g].vol \notin store'
    BY <1>1 DEF CallInv
  <2>1. CASE g = u.from
    <3>1. call[g] # Nil /\ call[g].kind = u.kind /\ call[g].vol = u.vol
      BY <2>1, NilFacts DEF UpdateInv
    <3> QED
      BY <2>1, <3>1, <1>3, <1>8, NilFacts DEF CallInv
  <2>2. CASE g # u.from
    <3>1. call'[g] = call[g] /\ call[g].vol \in Volume
      BY <2>2, <1>4 DEF TypeOK, Call
    <3> QED
      BY <3>1, <1>7 DEF CallInv
  <2> QED
    BY <2>1, <2>2
<1>10. LockInv'
  <2>1. \A g \in Handler : call'[g] # Nil =>
          /\ call[g] # Nil
          /\ call'[g].kind = call[g].kind /\ call'[g].vol = call[g].vol
    BY <1>3, <1>4, NilFacts DEF UpdateInv
  <2> QED
    BY <2>1 DEF LockInv
<1>11. UpdateInv'
  <2> SUFFICES ASSUME NEW w \in updates, w # u
               PROVE  /\ w.ver <= rv'
                      /\ w.ver = rv' => w.data = Changed(w.kind, w.vol)'
                      /\ w.kind = "create" => \/ life[w.vol] = "creating"
                                              \/ w.ver < rv'
                                              \/ w.vol \in store'
                      /\ w.kind = "delete" =>
                           life[w.vol] \in {"deleting", "gone"}
                      /\ w.from # Nil => /\ call'[w.from] # Nil
                                         /\ call'[w.from].kind = w.kind
                                         /\ call'[w.from].vol = w.vol
                                         /\ call'[w.from].stage = "wait"
    BY <1>1 DEF UpdateInv, Changed
  <2>1. w.ver \in Nat /\ w.from \in Handler \cup {Nil}
    BY <1>2 DEF Update
  <2>2. w.from # Nil => call'[w.from] = call[w.from]
    BY <2>1, <1>4 DEF SenderInv
  <2>3. CASE rv' = rv
    BY <2>1, <2>2, <2>3, <1>5 DEF UpdateInv, Changed
  <2>4. CASE rv' # rv
    <3>1. w.ver < rv'
      BY <2>1, <2>4, <1>2, <1>5 DEF UpdateInv
    <3> QED
      BY <2>1, <2>2, <3>1, <1>5 DEF UpdateInv
  <2> QED
    BY <2>3, <2>4
<1>12. SenderInv'
  BY <1>1 DEF SenderInv
<1>13. LiveVolumeRegistered' /\ GoneVolumeUnregistered'
  BY <1>1, <1>7 DEF LiveVolumeRegistered, GoneVolumeUnregistered
<1> QED
  BY <1>6, <1>9, <1>10, <1>11, <1>12, <1>13

\* A goroutine that ends gives its lock back and leaves the others alone.
LEMMA FinishFacts ==
  ASSUME Inv, NEW h \in Handler, call[h] # Nil, Finish(h)
  PROVE  /\ call' \in [Handler -> Call \cup {Nil}]
         /\ call'[h] = Nil
         /\ \A g \in Handler : g # h => call'[g] = call[g]
         /\ locks' \subseteq locks
         /\ \A g \in Handler :
              g # h /\ call[g] # Nil /\ call[g].kind = "create"
                => call[g].vol \in locks'
<1>1. /\ call' \in [Handler -> Call \cup {Nil}]
      /\ call'[h] = Nil
      /\ \A g \in Handler : g # h => call'[g] = call[g]
  BY DEF Inv, TypeOK, Finish
<1>2. locks' = IF call[h].kind = "create" THEN locks \ {call[h].vol} ELSE locks
  BY DEF Finish, Release
<1> QED
  BY <1>1, <1>2 DEF Inv, CallInv, LockInv

\* Answering a call preserves the invariant: what the caller then believes of
\* the volume is in the store, and the late writes about it are harmless.
LEMMA ReturnInv ==
  ASSUME Inv, NEW h \in Handler, Return(h)
  PROVE  Inv'
<1> USE DEF Inv
<1> DEFINE v == call[h].vol
<1>1. /\ call[h] # Nil /\ call[h].stage \in {"ok", "conflict"} /\ Finish(h)
      /\ store' = store /\ rv' = rv /\ updates' = updates /\ faults' = faults
      /\ life' = IF call[h].heard /\ call[h].stage = "ok"
                   THEN [life EXCEPT ![v] =
                           IF call[h].kind = "create" THEN "live" ELSE "gone"]
                   ELSE life
  BY DEF Return
<1>2. /\ call' \in [Handler -> Call \cup {Nil}]
      /\ call'[h] = Nil
      /\ \A g \in Handler : g # h => call'[g] = call[g]
      /\ locks' \subseteq locks
      /\ \A g \in Handler :
           g # h /\ call[g] # Nil /\ call[g].kind = "create"
             => call[g].vol \in locks'
  BY <1>1, FinishFacts
<1>3. /\ v \in Volume /\ call[h].kind \in {"create", "delete"}
      /\ \A g \in Handler : call[g] # Nil =>
           call[g].vol \in Volume /\ call[g].kind \in {"create", "delete"}
  BY <1>1 DEF TypeOK, Call
<1>4. /\ \A w \in Volume : w # v => life'[w] = life[w]
      /\ \/ life'[v] = life[v]
         \/ call[h].kind = "create" /\ life'[v] = "live" /\ v \in store
              /\ life[v] = "creating"
         \/ call[h].kind = "delete" /\ life'[v] = "gone" /\ v \notin store
              /\ life[v] \in {"deleting", "gone"}
  BY <1>1, <1>3 DEF TypeOK, CallInv
<1>5. TypeOK'
  <2>1. life' \in [Volume -> Life]
    BY <1>1, <1>3 DEF TypeOK, Life
  <2> QED
    BY <2>1, <1>1, <1>2 DEF TypeOK
<1> HIDE DEF v
<1>6. CallInv'
  <2> SUFFICES ASSUME NEW g \in Handler, g # h, call[g] # Nil
               PROVE  /\ call[g].kind = "create" =>
                           /\ life'[call[g].vol] = "creating"
                           /\ call[g].vol \in locks'
                           /\ call[g].stage = "ok" => call[g].vol \in store
                      /\ call[g].kind = "delete" =>
                           /\ life'[call[g].vol] \in {"deleting", "gone"}
                           /\ call[g].stage = "ok" => call[g].vol \notin store
    BY <1>1, <1>2 DEF CallInv
  <2>1. call[g].kind = "create" /\ call[h].kind = "create"
          => call[g].vol # v
    BY <1>1 DEF LockInv, v
  <2> QED
    BY <2>1, <1>2, <1>3, <1>4 DEF CallInv
<1>7. LockInv'
  BY <1>1, <1>2 DEF LockInv
<1>8. \A u \in updates : /\ u.from # h /\ u.vol \in Volume
                         /\ u.from \in Handler \cup {Nil}
                         /\ u.ver \in Nat
  BY <1>1, NilFacts DEF UpdateInv, TypeOK, Update
<1>9. UpdateInv'
  BY <1>1, <1>2, <1>4, <1>8 DEF UpdateInv, Changed
<1>10. SenderInv'
  BY <1>1 DEF SenderInv
<1>11. LiveVolumeRegistered' /\ GoneVolumeUnregistered'
  BY <1>1, <1>4 DEF LiveVolumeRegistered, GoneVolumeUnregistered
<1> QED
  BY <1>5, <1>6, <1>7, <1>9, <1>10, <1>11

\* Writes whose senders are gone are the same writes, without a sender.
LEMMA OrphanedFacts ==
  ASSUME Inv, NEW H \in SUBSET Handler
  PROVE  /\ Orphaned(H) \subseteq Update
         /\ \A u \in Orphaned(H) : u.from \notin H
         /\ \A u \in Orphaned(H) : u.from # Nil => u \in updates
         /\ \A u \in Orphaned(H) : \E w \in updates :
              /\ u.kind = w.kind /\ u.vol = w.vol
              /\ u.ver = w.ver /\ u.data = w.data
<1> SUFFICES ASSUME NEW w \in updates,
                    NEW u, u = IF w.from \in H THEN [w EXCEPT !.from = Nil]
                               ELSE w
             PROVE  /\ u \in Update /\ u.from \notin H
                    /\ u.from # Nil => u \in updates
                    /\ u.kind = w.kind /\ u.vol = w.vol
                    /\ u.ver = w.ver /\ u.data = w.data
  BY DEF Orphaned
<1>1. w \in Update
  BY DEF Inv, TypeOK
<1>2. CASE w.from \in H
  BY <1>1, <1>2, NilFacts DEF Update
<1>3. CASE w.from \notin H
  BY <1>1, <1>3
<1> QED
  BY <1>2, <1>3

\* Losing some goroutines with their calls preserves the invariant.
LEMMA LostInv ==
  ASSUME Inv, NEW H \in SUBSET Handler,
         call' = [h \in Handler |-> IF h \in H THEN Nil ELSE call[h]],
         updates' = Orphaned(H), locks' \subseteq locks, faults' \in Nat,
         \A g \in Handler \ H : call[g] # Nil /\ call[g].kind = "create"
           => call[g].vol \in locks',
         UNCHANGED <<store, rv, life>>
  PROVE  Inv'
<1> USE DEF Inv
<1>1. /\ Orphaned(H) \subseteq Update
      /\ \A u \in Orphaned(H) : u.from \notin H
      /\ \A u \in Orphaned(H) : u.from # Nil => u \in updates
      /\ \A u \in Orphaned(H) : \E w \in updates :
           /\ u.kind = w.kind /\ u.vol = w.vol
           /\ u.ver = w.ver /\ u.data = w.data
  BY OrphanedFacts
<1>2. TypeOK'
  BY <1>1 DEF TypeOK
<1>3. CallInv'
  BY DEF CallInv
<1>4. LockInv'
  BY DEF LockInv
<1>5. UpdateInv'
  <2> SUFFICES ASSUME NEW u \in Orphaned(H)
               PROVE  /\ u.ver <= rv
                      /\ u.ver = rv => u.data = Changed(u.kind, u.vol)
                      /\ u.kind = "create" => \/ life[u.vol] = "creating"
                                              \/ u.ver < rv
                                              \/ u.vol \in store
                      /\ u.kind = "delete" =>
                           life[u.vol] \in {"deleting", "gone"}
                      /\ u.from # Nil => /\ call'[u.from] # Nil
                                         /\ call'[u.from].kind = u.kind
                                         /\ call'[u.from].vol = u.vol
                                         /\ call'[u.from].stage = "wait"
    BY DEF UpdateInv, Changed
  <2>1. PICK w \in updates : /\ u.kind = w.kind /\ u.vol = w.vol
                             /\ u.ver = w.ver /\ u.data = w.data
    BY <1>1
  <2>2. u.from # Nil => /\ call'[u.from] # Nil
                        /\ call'[u.from].kind = u.kind
                        /\ call'[u.from].vol = u.vol
                        /\ call'[u.from].stage = "wait"
    <3>1. u.from # Nil => u.from \in Handler \ H /\ u \in updates
      BY <1>1 DEF Update
    <3> QED
      BY <3>1 DEF UpdateInv
  <2> QED
    BY <2>1, <2>2 DEF UpdateInv
<1>6. SenderInv'
  BY <1>1 DEF SenderInv
<1>7. LiveVolumeRegistered' /\ GoneVolumeUnregistered'
  BY DEF LiveVolumeRegistered, GoneVolumeUnregistered
<1> QED
  BY <1>2, <1>3, <1>4, <1>5, <1>6, <1>7

\* A request that fails preserves the invariant.
LEMMA RequestFailsInv ==
  ASSUME Inv, NEW h \in Handler, RequestFails(h)
  PROVE  Inv'
<1>1. /\ call[h] # Nil /\ Finish(h) /\ updates' = Orphaned({h})
      /\ UNCHANGED <<store, rv, life>>
  BY DEF RequestFails
<1>2. faults' \in Nat
  BY DEF RequestFails, Fault, Inv, TypeOK
<1>3. /\ locks' \subseteq locks
      /\ \A g \in Handler \ {h} : call[g] # Nil /\ call[g].kind = "create"
           => call[g].vol \in locks'
  BY <1>1, FinishFacts
<1>4. call' = [g \in Handler |-> IF g \in {h} THEN Nil ELSE call[g]]
  BY <1>1 DEF Finish, Inv, TypeOK
<1> QED
  BY <1>1, <1>2, <1>3, <1>4, LostInv

\* A crash of the controller preserves the invariant.
LEMMA CrashInv ==
  ASSUME Inv, Crash
  PROVE  Inv'
<1>1. /\ call' = [h \in Handler |-> IF h \in Handler THEN Nil ELSE call[h]]
      /\ updates' = Orphaned(Handler) /\ locks' = {}
      /\ UNCHANGED <<store, rv, life>>
  BY DEF Crash
<1>2. faults' \in Nat
  BY DEF Crash, Fault, Inv, TypeOK
<1>3. locks' \subseteq locks
  BY <1>1
<1>4. \A g \in Handler \ Handler : call[g] # Nil /\ call[g].kind = "create"
        => call[g].vol \in locks'
  OBVIOUS
<1> QED
  BY <1>1, <1>2, <1>3, <1>4, LostInv

\* A caller that gives up preserves the invariant.
LEMMA CallerGivesUpInv ==
  ASSUME Inv, NEW h \in Handler, CallerGivesUp(h)
  PROVE  Inv'
<1> USE DEF Inv
<1>1. /\ call[h] # Nil
      /\ call' = [call EXCEPT ![h].heard = FALSE]
      /\ store' = store /\ rv' = rv /\ updates' = updates /\ locks' = locks
      /\ life' = life
  BY DEF CallerGivesUp
<1>2. faults' \in Nat
  BY DEF CallerGivesUp, Fault, TypeOK
<1>3. call[h] \in Call /\ call'[h] = [call[h] EXCEPT !.heard = FALSE]
  BY <1>1 DEF TypeOK
<1>4. /\ call'[h] \in Call /\ call'[h].kind = call[h].kind
      /\ call'[h].vol = call[h].vol /\ call'[h].stage = call[h].stage
  BY <1>3 DEF Call
<1>5. \A g \in Handler : g # h => call'[g] = call[g]
  BY <1>1 DEF TypeOK
<1>6. \A g \in Handler :
        /\ call'[g] = Nil <=> call[g] = Nil
        /\ call[g] # Nil => /\ call'[g].kind = call[g].kind
                            /\ call'[g].vol = call[g].vol
                            /\ call'[g].stage = call[g].stage
  BY <1>1, <1>4, <1>5, NilFacts
<1>7. TypeOK'
  BY <1>1, <1>2, <1>4, <1>5 DEF TypeOK
<1>8. CallInv'
  BY <1>1, <1>6 DEF CallInv
<1>9. LockInv'
  BY <1>6 DEF LockInv
<1>10. UpdateInv'
  <2> SUFFICES ASSUME NEW u \in updates
               PROVE  /\ u.ver <= rv
                      /\ u.ver = rv => u.data = Changed(u.kind, u.vol)
                      /\ u.kind = "create" => \/ life[u.vol] = "creating"
                                              \/ u.ver < rv
                                              \/ u.vol \in store
                      /\ u.kind = "delete" =>
                           life[u.vol] \in {"deleting", "gone"}
                      /\ u.from # Nil => /\ call'[u.from] # Nil
                                         /\ call'[u.from].kind = u.kind
                                         /\ call'[u.from].vol = u.vol
                                         /\ call'[u.from].stage = "wait"
    BY <1>1 DEF UpdateInv, Changed
  <2>1. u.from \in Handler \cup {Nil}
    BY DEF TypeOK, Update
  <2> QED
    BY <2>1, <1>6 DEF UpdateInv
<1>11. SenderInv' /\ LiveVolumeRegistered' /\ GoneVolumeUnregistered'
  BY <1>1 DEF SenderInv, LiveVolumeRegistered, GoneVolumeUnregistered
<1> QED
  BY <1>7, <1>8, <1>9, <1>10, <1>11

\* Every step preserves the invariant.
LEMMA StepInv == Inv /\ [Next]_vars => Inv'
<1> SUFFICES ASSUME Inv, [Next]_vars PROVE Inv'
  OBVIOUS
<1>1. ASSUME NEW h \in Handler, NEW v \in Volume,
             CreateVolume(h, v) \/ DeleteVolume(h, v)
      PROVE  Inv'
  BY <1>1, CreateVolumeInv, DeleteVolumeInv
<1>2. ASSUME NEW h \in Handler, GetAndSend(h) \/ Return(h)
      PROVE  Inv'
  BY <1>2, GetAndSendInv, ReturnInv
<1>3. ASSUME NEW u \in updates, Process(u)
      PROVE  Inv'
  BY <1>3, ProcessInv
<1>4. ASSUME NEW h \in Handler, RequestFails(h) \/ CallerGivesUp(h)
      PROVE  Inv'
  BY <1>4, RequestFailsInv, CallerGivesUpInv
<1>5. CASE Crash
  BY <1>5, CrashInv
<1>6. CASE UNCHANGED vars
  <2>1. TypeOK' /\ CallInv' /\ LockInv'
    BY <1>6 DEF vars, Inv, TypeOK, CallInv, LockInv
  <2>2. UpdateInv'
    BY <1>6 DEF vars, Inv, UpdateInv, Changed
  <2>3. SenderInv' /\ LiveVolumeRegistered' /\ GoneVolumeUnregistered'
    BY <1>6 DEF vars, Inv, SenderInv, LiveVolumeRegistered, GoneVolumeUnregistered
  <2> QED
    BY <2>1, <2>2, <2>3 DEF Inv
<1> QED
  BY <1>1, <1>2, <1>3, <1>4, <1>5, <1>6 DEF Next

\* The inductive invariant holds in every reachable state.
THEOREM Invariance == Spec => []Inv
<1> QED
  BY InitInv, StepInv, PTL DEF Spec

\* The variables of the controller and the API server keep their types.
THEOREM TypeCorrect == Spec => []TypeOK
<1>1. Inv => TypeOK
  BY DEF Inv
<1> QED
  BY <1>1, Invariance, PTL

\* A confirmed volume stays registered until it is deleted: no stale or late
\* whole-map write of another call can drop it (AddMetaInfo, UnsetMetaInfo).
THEOREM LiveVolumesStayRegistered == Spec => []LiveVolumeRegistered
<1>1. Inv => LiveVolumeRegistered
  BY DEF Inv
<1> QED
  BY <1>1, Invariance, PTL

\* A deleted volume is never registered again by a call left over from before.
THEOREM GoneVolumesStayGone == Spec => []GoneVolumeUnregistered
<1>1. Inv => GoneVolumeUnregistered
  BY DEF Inv
<1> QED
  BY <1>1, Invariance, PTL

-----------------------------------------------------------------------------
(* The refinement. *)

\* The controller starts where the registry starts.
LEMMA InitRefines == Init => Registry!Init
  BY DEF Init, Registry!Init

\* Every step of the controller is a step of the registry or leaves it alone.
LEMMA StepRefines == Inv /\ [Next]_vars => [Registry!Next]_(Registry!vars)
<1> SUFFICES ASSUME Inv, [Next]_vars
             PROVE  Registry!Next \/ (store' = store /\ life' = life)
  BY DEF Registry!vars
<1> DEFINE Stutter == store' = store /\ life' = life
<1>1. ASSUME NEW h \in Handler, NEW v \in Volume, CreateVolume(h, v)
      PROVE  Registry!Next \/ Stutter
  <2>1. CASE life[v] = "none"
    BY <1>1, <2>1 DEF CreateVolume, Registry!Next, Registry!Request,
                      Registry!Moves
  <2>2. CASE life[v] = "creating"
    BY <1>1, <2>2 DEF CreateVolume, Inv, TypeOK
  <2> QED
    BY <1>1, <2>1, <2>2 DEF CreateVolume
<1>2. ASSUME NEW h \in Handler, NEW v \in Volume, DeleteVolume(h, v)
      PROVE  Registry!Next \/ Stutter
  <2>1. CASE life[v] = "live"
    BY <1>2, <2>1 DEF DeleteVolume, Registry!Next, Registry!Retire,
                      Registry!Moves
  <2>2. CASE life[v] = "deleting"
    BY <1>2, <2>2 DEF DeleteVolume, Inv, TypeOK
  <2> QED
    BY <1>2, <2>1, <2>2 DEF DeleteVolume
<1>3. ASSUME NEW h \in Handler, Return(h)
      PROVE  Registry!Next \/ Stutter
  <2> DEFINE v == call[h].vol
  <2>1. /\ call[h] # Nil /\ store' = store
        /\ v \in Volume /\ call[h].kind \in {"create", "delete"}
    BY <1>3 DEF Return, Inv, TypeOK, Call
  <2>2. CASE ~(call[h].heard /\ call[h].stage = "ok")
    BY <1>3, <2>1, <2>2 DEF Return
  <2>3. CASE call[h].heard /\ call[h].stage = "ok" /\ call[h].kind = "create"
    <3>1. life[v] = "creating" /\ v \in store
      BY <2>1, <2>3 DEF Inv, CallInv
    <3>2. life' = [life EXCEPT ![v] = "live"]
      BY <1>3, <2>3 DEF Return
    <3> QED
      BY <2>1, <3>1, <3>2 DEF Registry!Next, Registry!Confirm, Registry!Moves
  <2>4. CASE call[h].heard /\ call[h].stage = "ok" /\ call[h].kind = "delete"
    <3>1. life[v] \in {"deleting", "gone"} /\ v \notin store
      BY <2>1, <2>4 DEF Inv, CallInv
    <3>2. life' = [life EXCEPT ![v] = "gone"]
      BY <1>3, <2>4 DEF Return
    <3>3. CASE life[v] = "deleting"
      BY <2>1, <3>1, <3>2, <3>3 DEF Registry!Next, Registry!Forget,
                                    Registry!Moves
    <3>4. CASE life[v] = "gone"
      BY <2>1, <3>2, <3>4 DEF Inv, TypeOK
    <3> QED
      BY <3>1, <3>3, <3>4
  <2> QED
    BY <2>1, <2>2, <2>3, <2>4
<1>4. ASSUME NEW u \in updates, Process(u)
      PROVE  Registry!Next \/ Stutter
  <2>1. life' = life
    BY <1>4 DEF Process
  <2>2. CASE ~Current(u)
    BY <1>4, <2>1, <2>2 DEF Process
  <2>3. CASE Current(u)
    <3>1. /\ u.data = Changed(u.kind, u.vol) /\ u.vol \in Volume
          /\ u.kind \in {"create", "delete"}
          /\ u.kind = "create" => life[u.vol] = "creating" \/ u.vol \in store
          /\ u.kind = "delete" => life[u.vol] \in {"deleting", "gone"}
      BY <2>3, AcceptedWrite
    <3>2. store' = Changed(u.kind, u.vol)
      BY <1>4, <2>3, <3>1 DEF Process
    <3>3. CASE u.kind = "create"
      <4>1. store' = store \cup {u.vol}
        BY <3>2, <3>3 DEF Changed
      <4>2. CASE u.vol \in store
        BY <2>1, <4>1, <4>2
      <4>3. CASE life[u.vol] = "creating"
        BY <2>1, <3>1, <4>1, <4>3 DEF Registry!Next, Registry!Register
      <4> QED
        BY <3>1, <3>3, <4>2, <4>3
    <3>4. CASE u.kind = "delete"
      <4>1. store' = store \ {u.vol}
        BY <3>2, <3>4 DEF Changed
      <4>2. CASE life[u.vol] = "deleting"
        BY <2>1, <3>1, <4>1, <4>2 DEF Registry!Next, Registry!Unregister
      <4>3. CASE life[u.vol] = "gone"
        <5>1. u.vol \notin store
          BY <3>1, <4>3 DEF Inv, GoneVolumeUnregistered
        <5> QED
          BY <2>1, <4>1, <5>1
      <4> QED
        BY <3>1, <3>4, <4>2, <4>3
    <3> QED
      BY <3>1, <3>3, <3>4
  <2> QED
    BY <2>2, <2>3
<1>5. ASSUME NEW h \in Handler,
             GetAndSend(h) \/ RequestFails(h) \/ CallerGivesUp(h)
      PROVE  Stutter
  BY <1>5 DEF GetAndSend, RequestFails, CallerGivesUp
<1>6. CASE Crash
  BY <1>6 DEF Crash
<1>7. CASE UNCHANGED vars
  BY <1>7 DEF vars
<1> QED
  BY <1>1, <1>2, <1>3, <1>4, <1>5, <1>6, <1>7 DEF Next

\* The controller implements the registry: with any number of concurrent,
\* repeated, timed out and cut-off calls, the ConfigMap changes as if each
\* volume were registered and unregistered on its own, in its right phase.
THEOREM Refinement == Spec => RefinesRegistry
<1> QED
  BY InitRefines, StepRefines, Invariance, PTL DEF Spec, RefinesRegistry,
     Registry!Spec
=============================================================================
