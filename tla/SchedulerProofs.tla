-------------------------- MODULE SchedulerProofs ---------------------------
(***************************************************************************)
(* Theorems about Scheduler and BindHistory, for any nodes, PVs, pods and  *)
(* faults.  CacheInv, which describes the deltas on their way for a PV, is *)
(* inductive with TypeOK and PatchInv.  BindInv is inductive relative to   *)
(* them when a claim has one PV in its life.                               *)
(***************************************************************************)
EXTENDS BindHistory, SumTheorems, SequenceTheorems

\* No claim is given a second PV, after the first was released.
OnePVPerClaim == \A v, w \in PV : ClaimOf[v] = ClaimOf[w] => v = w

PVState == [phase : Phase, bindNode : Node \cup {Nil}]

-----------------------------------------------------------------------------
(* Types, and what the steps do to the sequences of deltas. *)

\* A delta of a PV's state is a delta.
LEMMA DeltaFacts ==
  ASSUME NEW x \in PVState, NEW type \in {"update", "delete", "deleteUnknown"}
  PROVE  /\ Delta(type, x) \in DeltaType
         /\ Delta(type, x).type = type
         /\ Delta(type, x).phase = x.phase
         /\ Delta(type, x).bindNode = x.bindNode
  BY DEF Delta, DeltaType, PVState

\* A delta is appended to the events of one PV.
LEMMA AppendFacts ==
  ASSUME TypeOK, NEW v \in PV, NEW delta \in DeltaType,
         events' = [events EXCEPT ![v] = Append(@, delta)]
  PROVE  /\ events' \in [PV -> Seq(DeltaType)]
         /\ \A w \in PV \ {v} : events'[w] = events[w]
         /\ DOMAIN events[v] = 1 .. Len(events[v])
         /\ Len(events[v]) \in Nat
         /\ events'[v] # <<>>
         /\ Len(events'[v]) = Len(events[v]) + 1
         /\ DOMAIN events'[v] = 1 .. (Len(events[v]) + 1)
         /\ \A i \in DOMAIN events[v] : events'[v][i] = events[v][i]
         /\ events'[v][Len(events[v]) + 1] = delta
<1>1. events \in [PV -> Seq(DeltaType)] /\ events[v] \in Seq(DeltaType)
  BY DEF TypeOK
<1>2. events'[v] = Append(events[v], delta)
  BY <1>1
<1>3. \A w \in PV \ {v} : events'[w] = events[w]
  BY <1>1
<1>4. /\ events'[v] \in Seq(DeltaType) /\ events'[v] # <<>>
      /\ Len(events'[v]) = Len(events[v]) + 1
      /\ \A i \in 1 .. Len(events[v]) : events'[v][i] = events[v][i]
      /\ events'[v][Len(events[v]) + 1] = delta
  BY <1>1, <1>2, AppendProperties
<1>5. DOMAIN events[v] = 1 .. Len(events[v]) /\ Len(events[v]) \in Nat
  BY <1>1, LenProperties
<1>6. DOMAIN events'[v] = 1 .. (Len(events[v]) + 1)
  BY <1>4, LenProperties
<1>. QED
  BY <1>1, <1>3, <1>4, <1>5, <1>6

\* A PV changes and the watch reports it.
LEMMA ChangeFacts ==
  ASSUME TypeOK, NEW v \in PV, NEW x \in PVState, Change(v, x, "update")
  PROVE  /\ pvs' \in [PV -> PVState]
         /\ pvs'[v] = x
         /\ \A w \in PV \ {v} : pvs'[w] = pvs[w] /\ events'[w] = events[w]
         /\ events' \in [PV -> Seq(DeltaType)]
         /\ DOMAIN events[v] = 1 .. Len(events[v])
         /\ Len(events[v]) \in Nat
         /\ events'[v] # <<>>
         /\ Len(events'[v]) = Len(events[v]) + 1
         /\ DOMAIN events'[v] = 1 .. (Len(events[v]) + 1)
         /\ \A i \in DOMAIN events[v] : events'[v][i] = events[v][i]
         /\ events'[v][Len(events[v]) + 1].type = "update"
         /\ events'[v][Len(events[v]) + 1].phase = x.phase
         /\ events'[v][Len(events[v]) + 1].bindNode = x.bindNode
<1>1. /\ Delta("update", x) \in DeltaType
      /\ Delta("update", x).type = "update"
      /\ Delta("update", x).phase = x.phase
      /\ Delta("update", x).bindNode = x.bindNode
  BY DeltaFacts
<1>2. /\ pvs' = [pvs EXCEPT ![v] = x]
      /\ events' = [events EXCEPT ![v] = Append(@, Delta("update", x))]
  BY DEF Change
<1>3. /\ pvs' \in [PV -> PVState] /\ pvs'[v] = x
      /\ \A w \in PV \ {v} : pvs'[w] = pvs[w]
  BY <1>2 DEF TypeOK, PVState
<1>. HIDE DEF Delta
<1>. QED
  BY <1>1, <1>2, <1>3, AppendFacts

\* What the parts of a PV's events are that are handed over and that are left.
LEMMA SplitFacts ==
  ASSUME NEW ev \in Seq(DeltaType), NEW n \in 0 .. Len(ev)
  PROVE  LET first == SubSeq(ev, 1, n)
             rest == SubSeq(ev, n + 1, Len(ev))
         IN /\ first \in Seq(DeltaType) /\ rest \in Seq(DeltaType)
            /\ Len(ev) \in Nat /\ DOMAIN ev = 1 .. Len(ev)
            /\ Len(first) = n /\ DOMAIN first = 1 .. n
            /\ \A i \in 1 .. n : first[i] = ev[i]
            /\ Len(rest) = Len(ev) - n /\ DOMAIN rest = 1 .. (Len(ev) - n)
            /\ \A i \in 1 .. (Len(ev) - n) : rest[i] = ev[n + i]
            /\ rest = <<>> <=> n = Len(ev)
<1>. DEFINE first == SubSeq(ev, 1, n)
            rest == SubSeq(ev, n + 1, Len(ev))
<1>1. /\ Len(ev) \in Nat /\ DOMAIN ev = 1 .. Len(ev)
      /\ n \in Nat /\ n <= Len(ev) /\ Len(ev) - n \in Nat
      /\ \A i \in 1 .. Len(ev) : ev[i] \in DeltaType
  BY LenProperties
<1>2. /\ first \in Seq(DeltaType) /\ Len(first) = n
      /\ \A i \in 1 .. n : first[i] = ev[i]
  BY <1>1, SubSeqProperties
<1>3. /\ rest \in Seq(DeltaType) /\ Len(rest) = Len(ev) - n
      /\ \A i \in 1 .. (Len(ev) - n) : rest[i] = ev[n + i]
  <2>1. /\ n + 1 \in Int /\ Len(ev) \in Int
        /\ \A i \in n + 1 .. Len(ev) : ev[i] \in DeltaType
    BY <1>1
  <2>2. /\ rest \in Seq(DeltaType)
        /\ Len(rest) = IF n + 1 <= Len(ev) THEN Len(ev) - (n + 1) + 1 ELSE 0
        /\ \A i \in 1 .. Len(ev) - (n + 1) + 1 : rest[i] = ev[(n + 1) + i - 1]
    BY <2>1, SubSeqProperties
  <2>3. \A i \in Int : (n + 1) + i - 1 = n + i
    BY <1>1
  <2>4. Len(ev) - (n + 1) + 1 = Len(ev) - n
    BY <1>1
  <2>. HIDE DEF rest
  <2>5. Len(rest) = Len(ev) - n
    <3>1. CASE n = Len(ev)
      BY <1>1, <2>2, <3>1
    <3>2. CASE n # Len(ev)
      <4>1. \A k, m \in Nat : k <= m /\ k # m => k + 1 <= m
        OBVIOUS
      <4>2. n + 1 <= Len(ev)
        BY <1>1, <3>2, <4>1
      <4>. QED
        BY <2>2, <2>4, <4>2
    <3>. QED
      BY <3>1, <3>2
  <2>6. ASSUME NEW i \in 1 .. (Len(ev) - n) PROVE rest[i] = ev[n + i]
    <3>1. i \in Int /\ i \in 1 .. Len(ev) - (n + 1) + 1
      BY <2>4
    <3>. QED
      BY <2>2, <2>3, <3>1
  <2>. QED
    BY <2>2, <2>5, <2>6
<1>. HIDE DEF first, rest
<1>4. DOMAIN first = 1 .. n /\ DOMAIN rest = 1 .. (Len(ev) - n)
  BY <1>2, <1>3, LenProperties
<1>5. rest = <<>> <=> n = Len(ev)
  <2>1. rest = <<>> <=> Len(rest) = 0
    BY <1>3, EmptySeq
  <2>2. Len(ev) - n = 0 <=> n = Len(ev)
    BY <1>1
  <2>. QED
    BY <1>3, <2>1, <2>2
<1>. QED
  BY <1>1, <1>2, <1>3, <1>4, <1>5 DEF first, rest

\* A nonempty set of naturals has a least element, which is its Min.
LEMMA MinFacts ==
  ASSUME NEW T \in SUBSET Nat, T # {}
  PROVE  Min(T) \in T /\ \A m \in T : Min(T) <= m
<1>1. PICK n \in T : \A m \in T : n <= m
  BY LeastNat
<1>. QED
  BY <1>1 DEF Min

\* What DefaultProcessor makes of a batch: it stops before the first delta that
\* cannot be converted, and the last one before it counts.
LEMMA DefaultProcessorFacts ==
  ASSUME NEW v \in PV, NEW batch \in Seq(DeltaType)
  PROVE  \E done \in 0 .. Len(batch) :
           /\ DOMAIN batch = 1 .. Len(batch)
           /\ \A i \in 1 .. done : i \notin Failing(batch)
           /\ done # Len(batch) => done + 1 \in Failing(batch)
           /\ done = 0 => DefaultProcessor(v, batch) = Entry(v)
           /\ done > 0 /\ batch[done].type = "update" =>
                DefaultProcessor(v, batch) = {batch[done].bindNode}
           /\ done > 0 /\ batch[done].type # "update" =>
                DefaultProcessor(v, batch) = {}
<1>. DEFINE failing == Failing(batch)
            done == IF failing = {} THEN Len(batch) ELSE Min(failing) - 1
<1>1. Len(batch) \in Nat /\ DOMAIN batch = 1 .. Len(batch)
  BY LenProperties
<1>2. failing \subseteq 1 .. Len(batch)
  BY <1>1 DEF Failing
<1>3. /\ done \in 0 .. Len(batch)
      /\ \A i \in 1 .. done : i \notin failing
      /\ done # Len(batch) => done + 1 \in failing
  <2>1. CASE failing = {}
    BY <1>1, <2>1
  <2>2. CASE failing # {}
    <3>1. Min(failing) \in failing /\ \A m \in failing : Min(failing) <= m
      BY <1>1, <1>2, <2>2, MinFacts
    <3>. HIDE DEF failing
    <3>2. Min(failing) \in 1 .. Len(batch) /\ done = Min(failing) - 1
      BY <1>2, <2>2, <3>1
    <3>3. done \in 0 .. Len(batch) /\ done + 1 = Min(failing)
      BY <1>1, <3>2
    <3>4. ASSUME NEW i \in 1 .. done PROVE i \notin failing
      BY <1>1, <3>1, <3>2
    <3>. QED
      BY <3>1, <3>3, <3>4
  <2>. QED
    BY <2>1, <2>2
<1>4. /\ done = 0 => DefaultProcessor(v, batch) = Entry(v)
      /\ done > 0 /\ batch[done].type = "update" =>
           DefaultProcessor(v, batch) = {batch[done].bindNode}
      /\ done > 0 /\ batch[done].type # "update" =>
           DefaultProcessor(v, batch) = {}
  <2>. DEFINE result(d) == CASE d = 0 -> Entry(v)
                     [] d > 0 /\ batch[d].type = "update" -> {batch[d].bindNode}
                     [] d > 0 /\ batch[d].type # "update" -> {}
  <2>1. DefaultProcessor(v, batch) = result(done)
    BY DEF DefaultProcessor
  <2>2. \A d \in Int : /\ d = 0 => result(d) = Entry(v)
                       /\ d > 0 /\ batch[d].type = "update" =>
                            result(d) = {batch[d].bindNode}
                       /\ d > 0 /\ batch[d].type # "update" => result(d) = {}
    OBVIOUS
  <2>. HIDE DEF result
  <2>3. done \in Int
    BY <1>1, <1>3
  <2>. HIDE DEF done
  <2>. QED
    BY <2>1, <2>2, <2>3
<1>. HIDE DEF done
<1>. QED
  BY <1>1, <1>3, <1>4 DEF failing

-----------------------------------------------------------------------------
(* CacheInv. *)

\* A step that leaves a PV, its deltas and its place in the cache alone.
LEMMA PVInvFrame ==
  ASSUME NEW v \in PV, PVInv(v), pvs'[v] = pvs[v], events'[v] = events[v],
         v \in DOMAIN pvCache' <=> v \in DOMAIN pvCache,
         v \in DOMAIN pvCache => pvCache'[v] = pvCache[v]
  PROVE  PVInv(v)'
  BY DEF PVInv, UnboundInv, BoundInv

\* The PV changes, never back in its phases, and the watch reports it.
LEMMA ChangeKeepsPVInv ==
  ASSUME TypeOK, CacheInv, NEW v \in PV, NEW x \in PVState,
         Change(v, x, "update"), UNCHANGED pvCache,
         \/ x.phase = "Pending" /\ pvs[v].phase \in {"none", "Pending"}
         \/ x.phase = "Bound" /\ pvs[v].phase \in {"Pending", "Bound"}
         \/ x.phase = "Released"
  PROVE  /\ CacheInv'
         /\ pvs' \in [PV -> PVState]
         /\ events' \in [PV -> Seq(DeltaType)]
<1>. DEFINE len == Len(events[v])
<1>1. /\ pvs' \in [PV -> PVState]
      /\ pvs'[v] = x
      /\ \A w \in PV \ {v} : pvs'[w] = pvs[w] /\ events'[w] = events[w]
      /\ events' \in [PV -> Seq(DeltaType)]
      /\ DOMAIN events[v] = 1 .. len
      /\ len \in Nat
      /\ events'[v] # <<>>
      /\ Len(events'[v]) = len + 1
      /\ DOMAIN events'[v] = 1 .. (len + 1)
      /\ \A i \in DOMAIN events[v] : events'[v][i] = events[v][i]
      /\ events'[v][len + 1].type = "update"
      /\ events'[v][len + 1].phase = x.phase
      /\ events'[v][len + 1].bindNode = x.bindNode
  BY ChangeFacts
<1>. HIDE DEF len
<1>2. \A w \in PV \ {v} : PVInv(w)'
  BY <1>1, PVInvFrame DEF CacheInv
<1>3. PVInv(v)'
  <2>1. CASE x.phase = "Pending" /\ pvs[v].phase \in {"none", "Pending"}
    <3>1. UnboundInv(v)
      BY <2>1 DEF CacheInv, PVInv
    <3>2. \A i \in 1 .. (len + 1) : i \in 1 .. len \/ i = len + 1
      BY <1>1
    <3>3. UnboundInv(v)'
      BY <1>1, <2>1, <3>1, <3>2 DEF UnboundInv
    <3>. QED
      BY <1>1, <2>1, <3>3 DEF PVInv
  <2>2. CASE x.phase = "Bound" /\ pvs[v].phase \in {"Pending", "Bound"}
    <3>1. /\ \A i \in DOMAIN events[v] :
               /\ events[v][i].type = "update"
               /\ events[v][i].phase \in {"Pending", "Bound"}
          /\ \A i, j \in DOMAIN events[v] :
               i <= j /\ events[v][i].phase = "Bound" =>
                 events[v][j].phase = "Bound"
          /\ v \in DOMAIN pvCache =>
               \A i \in DOMAIN events[v] : events[v][i].phase = "Bound"
      BY <2>2 DEF CacheInv, PVInv, UnboundInv, BoundInv
    <3>2. \A i \in 1 .. (len + 1) : i \in 1 .. len \/ i = len + 1
      BY <1>1
    <3>3. /\ \A i \in DOMAIN events'[v] :
               /\ events'[v][i].type = "update"
               /\ events'[v][i].phase \in {"Pending", "Bound"}
          /\ v \in DOMAIN pvCache' =>
               \A i \in DOMAIN events'[v] : events'[v][i].phase = "Bound"
      <4>1. \A i \in DOMAIN events'[v] : i \in DOMAIN events[v] \/ i = len + 1
        BY <1>1, <3>2
      <4>2. \A i \in DOMAIN events[v] : events'[v][i] = events[v][i]
        BY <1>1
      <4>3. /\ events'[v][len + 1].type = "update"
            /\ events'[v][len + 1].phase = "Bound"
        BY <1>1, <2>2
      <4>4. DOMAIN pvCache' = DOMAIN pvCache
        BY <1>1
      <4>. QED
        BY <3>1, <4>1, <4>2, <4>3, <4>4
    <3>4. ASSUME NEW i \in DOMAIN events'[v], NEW j \in DOMAIN events'[v],
                 i <= j, events'[v][i].phase = "Bound"
          PROVE  events'[v][j].phase = "Bound"
      <4>1. CASE j = len + 1
        BY <1>1, <2>2, <4>1
      <4>2. CASE j \in 1 .. len
        <5>1. i \in 1 .. len
          BY <1>1, <3>4, <4>2
        <5>. QED
          BY <1>1, <3>1, <3>4, <4>2, <5>1
      <4>. QED
        BY <1>1, <3>2, <4>1, <4>2
    <3>5. BoundInv(v)'
      BY <1>1, <2>2, <3>3, <3>4 DEF BoundInv
    <3>. QED
      BY <1>1, <2>2, <3>5 DEF PVInv
  <2>3. CASE x.phase = "Released"
    BY <1>1, <2>3 DEF PVInv
  <2>. QED
    BY <2>1, <2>2, <2>3
<1>. QED
  BY <1>1, <1>2, <1>3 DEF CacheInv

\* A batch leaves the PV in the cache or not; in no case does it touch another.
LEMMA ProcessFacts ==
  ASSUME TypeOK, NEW v \in PV, Process(v)
  PROVE  \E n \in 1 .. Len(events[v]), done \in 0 .. Len(events[v]) :
           LET ev == events[v] IN
           /\ Len(ev) \in Nat /\ DOMAIN ev = 1 .. Len(ev)
           /\ events' \in [PV -> Seq(DeltaType)]
           /\ \A w \in PV \ {v} : events'[w] = events[w]
           /\ Len(events'[v]) = Len(ev) - n
           /\ DOMAIN events'[v] = 1 .. (Len(ev) - n)
           /\ \A i \in 1 .. (Len(ev) - n) : events'[v][i] = ev[n + i]
           /\ events'[v] = <<>> <=> n = Len(ev)
           /\ DOMAIN pvCache' \subseteq PV
           /\ pvCache' \in [DOMAIN pvCache' -> Node \cup {Nil}]
           /\ \A w \in PV \ {v} : /\ w \in DOMAIN pvCache' <=> w \in DOMAIN pvCache
                                  /\ w \in DOMAIN pvCache => pvCache'[w] = pvCache[w]
           /\ done <= n
           /\ \A i \in 1 .. done : \/ ev[i].type = "deleteUnknown"
                                   \/ ev[i].phase = "Bound"
           /\ done # n => /\ ev[done + 1].type # "deleteUnknown"
                          /\ ev[done + 1].phase # "Bound"
           /\ done = 0 => (v \in DOMAIN pvCache' <=> v \in DOMAIN pvCache)
           /\ done > 0 /\ ev[done].type = "update" =>
                v \in DOMAIN pvCache' /\ pvCache'[v] = ev[done].bindNode
           /\ v \in DOMAIN pvCache' =>
                \/ v \in DOMAIN pvCache /\ pvCache'[v] = pvCache[v]
                \/ \E i \in DOMAIN ev : pvCache'[v] = ev[i].bindNode
<1>. DEFINE ev == events[v]
<1>1. ev \in Seq(DeltaType) /\ events \in [PV -> Seq(DeltaType)]
  BY DEF TypeOK
<1>2. PICK n \in 1 .. Len(ev) :
        LET entry == DefaultProcessor(v, SubSeq(ev, 1, n))
            cached == IF entry = {} THEN DOMAIN pvCache \ {v}
                      ELSE DOMAIN pvCache \cup {v}
        IN /\ pvCache' = [w \in cached |->
                            IF w = v THEN CHOOSE x \in entry : TRUE
                            ELSE pvCache[w]]
           /\ events' = [events EXCEPT ![v] = SubSeq(@, n + 1, Len(@))]
  BY DEF Process
<1>. DEFINE batch == SubSeq(ev, 1, n)
            rest == SubSeq(ev, n + 1, Len(ev))
            entry == DefaultProcessor(v, batch)
<1>3. n \in 0 .. Len(ev)
  BY <1>1, LenProperties
<1>4. /\ batch \in Seq(DeltaType) /\ rest \in Seq(DeltaType)
      /\ Len(ev) \in Nat /\ DOMAIN ev = 1 .. Len(ev)
      /\ Len(batch) = n /\ DOMAIN batch = 1 .. n
      /\ \A i \in 1 .. n : batch[i] = ev[i]
      /\ Len(rest) = Len(ev) - n /\ DOMAIN rest = 1 .. (Len(ev) - n)
      /\ \A i \in 1 .. (Len(ev) - n) : rest[i] = ev[n + i]
      /\ rest = <<>> <=> n = Len(ev)
  BY <1>1, <1>3, SplitFacts
<1>5. PICK done \in 0 .. n :
        /\ \A i \in 1 .. done : i \notin Failing(batch)
        /\ done # n => done + 1 \in Failing(batch)
        /\ done = 0 => entry = Entry(v)
        /\ done > 0 /\ batch[done].type = "update" => entry = {batch[done].bindNode}
        /\ done > 0 /\ batch[done].type # "update" => entry = {}
  BY <1>4, DefaultProcessorFacts
<1>6. /\ events' \in [PV -> Seq(DeltaType)] /\ events'[v] = rest
      /\ \A w \in PV \ {v} : events'[w] = events[w]
  <2>1. events' = [events EXCEPT ![v] = rest]
    BY <1>1, <1>2
  <2>. HIDE DEF rest
  <2>. QED
    BY <1>1, <1>4, <2>1
<1>. HIDE DEF batch, rest
<1>7. /\ done \in Nat /\ done <= n /\ n \in Nat /\ done \in 0 .. Len(ev)
      /\ \A i \in 1 .. done : i \in 1 .. n
      /\ done > 0 => done \in 1 .. n
      /\ done # n => done + 1 \in 1 .. n
  BY <1>3, <1>4, <1>5
<1>8. \A i \in 1 .. n : i \in Failing(batch) <=>
        ev[i].type # "deleteUnknown" /\ ev[i].phase # "Bound"
  BY <1>4 DEF Failing, ToPersistentVolume
<1>9. entry = {} \/ \E x \in Node \cup {Nil} : entry = {x}
  <2>1. CASE done = 0
    BY <1>5, <2>1 DEF Entry, TypeOK
  <2>2. CASE done > 0
    <3>1. batch[done] \in DeltaType
      <4>1. batch \in [1 .. n -> DeltaType]
        BY <1>4, LenProperties
      <4>. QED
        BY <1>7, <2>2, <4>1
    <3>2. batch[done].bindNode \in Node \cup {Nil}
      BY <3>1 DEF DeltaType
    <3>. QED
      BY <1>5, <2>2, <3>2
  <2>. QED
    BY <1>7, <2>1, <2>2
<1>. DEFINE cached == IF entry = {} THEN DOMAIN pvCache \ {v}
                      ELSE DOMAIN pvCache \cup {v}
<1>10. pvCache' = [w \in cached |-> IF w = v THEN CHOOSE x \in entry : TRUE
                                    ELSE pvCache[w]]
  BY <1>2 DEF batch
<1>. HIDE DEF entry
<1>11. /\ DOMAIN pvCache' \subseteq PV
       /\ pvCache' \in [DOMAIN pvCache' -> Node \cup {Nil}]
       /\ \A w \in PV \ {v} : /\ w \in DOMAIN pvCache' <=> w \in DOMAIN pvCache
                              /\ w \in DOMAIN pvCache => pvCache'[w] = pvCache[w]
       /\ v \in DOMAIN pvCache' <=> entry # {}
       /\ \A x : entry = {x} => pvCache'[v] = x
  <2>1. DOMAIN pvCache \subseteq PV /\ pvCache \in [DOMAIN pvCache -> Node \cup {Nil}]
    BY DEF TypeOK
  <2>2. CASE entry = {}
    BY <1>10, <2>1, <2>2
  <2>3. CASE entry # {}
    <3>1. PICK x \in Node \cup {Nil} : entry = {x}
      BY <1>9, <2>3
    <3>2. (CHOOSE y \in entry : TRUE) = x
      BY <3>1
    <3>3. pvCache' = [w \in DOMAIN pvCache \cup {v} |->
                        IF w = v THEN x ELSE pvCache[w]]
      BY <1>10, <2>3, <3>2
    <3>. QED
      BY <2>1, <3>1, <3>3
  <2>. QED
    BY <2>2, <2>3
<1>12. /\ done = 0 => (v \in DOMAIN pvCache' <=> v \in DOMAIN pvCache)
       /\ done > 0 /\ ev[done].type = "update" =>
            v \in DOMAIN pvCache' /\ pvCache'[v] = ev[done].bindNode
  <2>1. ASSUME done = 0 PROVE v \in DOMAIN pvCache' <=> v \in DOMAIN pvCache
    <3>1. entry = {} <=> v \notin DOMAIN pvCache
      BY <1>5, <2>1 DEF Entry
    <3>. QED
      BY <1>11, <3>1
  <2>2. ASSUME done > 0, ev[done].type = "update"
        PROVE  v \in DOMAIN pvCache' /\ pvCache'[v] = ev[done].bindNode
    <3>1. entry = {ev[done].bindNode}
      BY <1>4, <1>5, <1>7, <2>2
    <3>2. entry # {}
      BY <3>1
    <3>. QED
      BY <1>11, <3>1, <3>2
  <2>. QED
    BY <2>1, <2>2
<1>13. /\ \A i \in 1 .. done : ev[i].type = "deleteUnknown" \/ ev[i].phase = "Bound"
       /\ done # n => /\ ev[done + 1].type # "deleteUnknown"
                      /\ ev[done + 1].phase # "Bound"
  BY <1>5, <1>7, <1>8
<1>14. ASSUME v \in DOMAIN pvCache'
       PROVE  \/ v \in DOMAIN pvCache /\ pvCache'[v] = pvCache[v]
              \/ \E i \in DOMAIN ev : pvCache'[v] = ev[i].bindNode
  <2>1. CASE done = 0
    <3>1. entry # {} /\ entry = Entry(v)
      BY <1>5, <1>11, <1>14, <2>1
    <3>2. v \in DOMAIN pvCache /\ entry = {pvCache[v]}
      BY <3>1 DEF Entry
    <3>. QED
      BY <1>11, <3>2
  <2>2. CASE done > 0
    <3>1. batch[done].type = "update"
      BY <1>5, <1>11, <1>14, <2>2
    <3>2. done \in DOMAIN ev /\ ev[done].type = "update"
      BY <1>4, <1>7, <2>2, <3>1
    <3>. QED
      BY <1>12, <2>2, <3>2
  <2>. QED
    BY <1>7, <2>1, <2>2
<1>. QED
  BY <1>4, <1>6, <1>7, <1>11, <1>12, <1>13, <1>14

\* A batch of deltas keeps the invariant, and no bound PV leaves the cache.
LEMMA ProcessKeepsInv ==
  ASSUME TypeOK, CacheInv, NEW v \in PV, Process(v)
  PROVE  /\ TypeOK' /\ CacheInv'
         /\ \A w \in DOMAIN pvCache : pvs[w].phase = "Bound" => w \in DOMAIN pvCache'
<1>. DEFINE ev == events[v]
<1>1. PICK n \in 1 .. Len(ev), done \in 0 .. Len(ev) :
           /\ Len(ev) \in Nat /\ DOMAIN ev = 1 .. Len(ev)
           /\ events' \in [PV -> Seq(DeltaType)]
           /\ \A w \in PV \ {v} : events'[w] = events[w]
           /\ Len(events'[v]) = Len(ev) - n
           /\ DOMAIN events'[v] = 1 .. (Len(ev) - n)
           /\ \A i \in 1 .. (Len(ev) - n) : events'[v][i] = ev[n + i]
           /\ events'[v] = <<>> <=> n = Len(ev)
           /\ DOMAIN pvCache' \subseteq PV
           /\ pvCache' \in [DOMAIN pvCache' -> Node \cup {Nil}]
           /\ \A w \in PV \ {v} : /\ w \in DOMAIN pvCache' <=> w \in DOMAIN pvCache
                                  /\ w \in DOMAIN pvCache => pvCache'[w] = pvCache[w]
           /\ done <= n
           /\ \A i \in 1 .. done : \/ ev[i].type = "deleteUnknown"
                                   \/ ev[i].phase = "Bound"
           /\ done # n => /\ ev[done + 1].type # "deleteUnknown"
                          /\ ev[done + 1].phase # "Bound"
           /\ done = 0 => (v \in DOMAIN pvCache' <=> v \in DOMAIN pvCache)
           /\ done > 0 /\ ev[done].type = "update" =>
                v \in DOMAIN pvCache' /\ pvCache'[v] = ev[done].bindNode
  BY ProcessFacts
<1>. HIDE DEF ev
<1>2. UNCHANGED <<pvs, podNode, attempt, faults>>
  BY DEF Process
<1>3. TypeOK'
  BY <1>1, <1>2 DEF TypeOK
<1>4. \A w \in PV \ {v} : PVInv(w)'
  BY <1>1, <1>2, PVInvFrame DEF CacheInv
<1>5. /\ \A i \in 1 .. (Len(ev) - n) : n + i \in DOMAIN ev
      /\ 1 \in DOMAIN ev /\ n \in Nat \ {0} /\ n <= Len(ev) /\ done \in Nat
      /\ done > 0 => 1 \in 1 .. done
      /\ done > 0 => done \in DOMAIN ev
  BY <1>1
<1>6. ASSUME pvs[v].phase \in {"none", "Pending"} PROVE PVInv(v)'
  <2>1. /\ v \notin DOMAIN pvCache
        /\ \A i \in DOMAIN ev : ev[i].type = "update" /\ ev[i].phase = "Pending"
    BY <1>6 DEF CacheInv, PVInv, UnboundInv, ev
  <2>2. done = 0
    BY <1>1, <1>5, <2>1
  <2>3. UnboundInv(v)'
    BY <1>1, <1>5, <2>1, <2>2 DEF UnboundInv
  <2>. QED
    BY <1>2, <1>6, <2>3 DEF PVInv
<1>7. ASSUME pvs[v].phase = "Bound"
      PROVE  PVInv(v)' /\ (v \in DOMAIN pvCache => v \in DOMAIN pvCache')
  <2>1. /\ \A i \in DOMAIN ev : /\ ev[i].type = "update"
                                /\ ev[i].phase \in {"Pending", "Bound"}
        /\ \A i, j \in DOMAIN ev :
             i <= j /\ ev[i].phase = "Bound" => ev[j].phase = "Bound"
        /\ v \in DOMAIN pvCache => \A i \in DOMAIN ev : ev[i].phase = "Bound"
        /\ ev # <<>> => /\ ev[Len(ev)].phase = "Bound"
                        /\ ev[Len(ev)].bindNode = pvs[v].bindNode
    BY <1>7 DEF CacheInv, PVInv, BoundInv, ev
  <2>2. ev # <<>>
    BY <1>1, <1>5
  <2>3. /\ \A i \in DOMAIN events'[v] : /\ events'[v][i].type = "update"
                                       /\ events'[v][i].phase \in {"Pending", "Bound"}
    BY <1>1, <1>5, <2>1
  <2>4. ASSUME NEW i \in DOMAIN events'[v], NEW j \in DOMAIN events'[v],
               i <= j, events'[v][i].phase = "Bound"
        PROVE  events'[v][j].phase = "Bound"
    <3>1. i \in Nat /\ j \in Nat /\ n + i <= n + j
      BY <1>1, <1>5, <2>4
    <3>. QED
      BY <1>1, <1>5, <2>1, <2>4, <3>1
  <2>5. events'[v] # <<>> =>
          /\ events'[v][Len(events'[v])].phase = "Bound"
          /\ events'[v][Len(events'[v])].bindNode = pvs'[v].bindNode
    <3>. SUFFICES ASSUME events'[v] # <<>>
         PROVE  events'[v][Len(events'[v])] = ev[Len(ev)]
      BY <1>2, <2>1, <2>2
    <3>1. n # Len(ev)
      BY <1>1
    <3>2. Len(ev) - n \in 1 .. (Len(ev) - n) /\ n + (Len(ev) - n) = Len(ev)
      BY <1>1, <1>5, <3>1
    <3>. QED
      BY <1>1, <3>2
  <2>6. CASE done = 0
    <3>1. ev[1].phase # "Bound"
      BY <1>1, <1>5, <2>6
    <3>2. v \notin DOMAIN pvCache /\ v \notin DOMAIN pvCache'
      BY <1>1, <1>5, <2>1, <2>6, <3>1
    <3>3. BoundInv(v)'
      BY <2>3, <2>4, <2>5, <3>2 DEF BoundInv
    <3>. QED
      BY <1>2, <1>7, <3>2, <3>3 DEF PVInv
  <2>7. CASE done > 0
    <3>1. ev[1].phase = "Bound"
      BY <1>1, <1>5, <2>1, <2>7
    <3>2. \A i \in DOMAIN ev : ev[i].phase = "Bound"
      BY <1>1, <1>5, <2>1, <3>1
    <3>3. done = n
      <4>1. done # n => done + 1 \in DOMAIN ev
        BY <1>1, <1>5
      <4>. QED
        BY <1>1, <3>2, <4>1
    <3>4. v \in DOMAIN pvCache' /\ pvCache'[v] = ev[n].bindNode
      BY <1>1, <1>5, <2>1, <2>7, <3>3
    <3>5. \A i \in DOMAIN events'[v] : events'[v][i].phase = "Bound"
      BY <1>1, <1>5, <3>2
    <3>6. events'[v] = <<>> => pvCache'[v] = pvs'[v].bindNode
      BY <1>1, <1>2, <2>1, <2>2, <3>4
    <3>7. BoundInv(v)'
      BY <2>3, <2>4, <2>5, <3>5, <3>6 DEF BoundInv
    <3>. QED
      BY <1>2, <1>7, <3>4, <3>7 DEF PVInv
  <2>. QED
    BY <1>5, <2>6, <2>7
<1>8. ASSUME pvs[v].phase \in {"Released", "gone"} PROVE PVInv(v)'
  BY <1>2, <1>8 DEF PVInv
<1>9. pvs[v].phase \in Phase
  BY DEF TypeOK
<1>10. \A w \in DOMAIN pvCache : pvs[w].phase = "Bound" => w \in DOMAIN pvCache'
  BY <1>1, <1>7 DEF TypeOK
<1>. QED
  BY <1>3, <1>4, <1>6, <1>7, <1>8, <1>9, <1>10 DEF CacheInv, Phase

\* After a relist a PV has some of the deltas it had, and, if it exists, one more
\* with its present state.
LEMMA RelistFacts ==
  ASSUME TypeOK, Relist
  PROVE  /\ events' \in [PV -> Seq(DeltaType)]
         /\ \A v \in PV : \E a \in 0 .. Len(events[v]) :
              LET ev == events[v] IN
              /\ Len(ev) \in Nat /\ DOMAIN ev = 1 .. Len(ev)
              /\ v \in Existing \/ v \notin DOMAIN pvCache =>
                   \A i \in 1 .. a : events'[v][i] = ev[i]
              /\ v \in Existing =>
                   /\ Len(events'[v]) = a + 1
                   /\ DOMAIN events'[v] = 1 .. (a + 1)
                   /\ events'[v][a + 1].type = "update"
                   /\ events'[v][a + 1].phase = pvs[v].phase
                   /\ events'[v][a + 1].bindNode = pvs[v].bindNode
              /\ v \notin Existing /\ v \notin DOMAIN pvCache =>
                   DOMAIN events'[v] = 1 .. a
         /\ \A v \in PV : \A i \in DOMAIN events'[v] :
              \/ events'[v][i].bindNode = pvs[v].bindNode
              \/ \E j \in DOMAIN events[v] : events'[v][i] = events[v][j]
<1>. DEFINE tail(v) == IF v \in Existing THEN <<Delta("update", pvs[v])>>
                       ELSE IF v \in DOMAIN pvCache
                         THEN <<Delta("deleteUnknown", pvs[v])>> ELSE <<>>
<1>. DEFINE most == Max({Len(events[v]) : v \in PV})
<1>1. PICK arrived \in [PV -> Nat] :
        /\ \A v \in PV : arrived[v] <= Len(events[v])
        /\ events' = [v \in PV |-> SubSeq(events[v], 1, arrived[v]) \o tail(v)]
  <2>1. PICK arrived \in [PV -> 0 .. most] :
          /\ \A v \in PV : arrived[v] <= Len(events[v])
          /\ events' = [v \in PV |-> SubSeq(events[v], 1, arrived[v]) \o tail(v)]
    BY DEF Relist
  <2>. HIDE DEF most, tail
  <2>2. arrived \in [PV -> Nat]
    BY <2>1
  <2>. QED
    BY <2>1, <2>2
<1>. DEFINE first(v) == SubSeq(events[v], 1, arrived[v])
<1>2. ASSUME NEW v \in PV
      PROVE  /\ first(v) \in Seq(DeltaType) /\ tail(v) \in Seq(DeltaType)
             /\ first(v) \o tail(v) \in Seq(DeltaType)
             /\ Len(events[v]) \in Nat /\ DOMAIN events[v] = 1 .. Len(events[v])
             /\ arrived[v] \in 0 .. Len(events[v])
             /\ Len(first(v) \o tail(v)) = arrived[v] + Len(tail(v))
             /\ \A i \in 1 .. arrived[v] : (first(v) \o tail(v))[i] = events[v][i]
             /\ Len(tail(v)) = 1 =>
                  (first(v) \o tail(v))[arrived[v] + 1] = tail(v)[1]
  <2>1. events[v] \in Seq(DeltaType) /\ pvs[v] \in PVState
    BY DEF TypeOK, PVState
  <2>2. Len(events[v]) \in Nat /\ DOMAIN events[v] = 1 .. Len(events[v])
    BY <2>1, LenProperties
  <2>3. arrived[v] \in 0 .. Len(events[v])
    BY <1>1, <2>2
  <2>4. /\ first(v) \in Seq(DeltaType) /\ Len(first(v)) = arrived[v]
        /\ \A i \in 1 .. arrived[v] : first(v)[i] = events[v][i]
    BY <2>1, <2>3, SplitFacts
  <2>5. tail(v) \in Seq(DeltaType) /\ Len(tail(v)) \in Nat
    <3>1. Delta("update", pvs[v]) \in DeltaType
      BY <2>1, DeltaFacts
    <3>2. Delta("deleteUnknown", pvs[v]) \in DeltaType
      BY <2>1, DeltaFacts
    <3>. HIDE DEF Delta
    <3>3. tail(v) \in Seq(DeltaType)
      BY <3>1, <3>2
    <3>. QED
      BY <3>3, LenProperties
  <2>. HIDE DEF first, tail
  <2>. DEFINE whole == first(v) \o tail(v)
              len1 == Len(first(v))
              len2 == Len(tail(v))
  <2>6. /\ whole \in Seq(DeltaType) /\ Len(whole) = len1 + len2
        /\ \A i \in 1 .. len1 + len2 :
             whole[i] = IF i <= len1 THEN first(v)[i] ELSE tail(v)[i - len1]
    BY <2>4, <2>5, ConcatProperties
  <2>. HIDE DEF whole, len1, len2
  <2>7. /\ len1 = arrived[v] /\ len1 \in Nat /\ len2 \in Nat
    BY <2>2, <2>3, <2>4, <2>5 DEF len1, len2
  <2>8. /\ \A i \in 1 .. arrived[v] : whole[i] = events[v][i]
        /\ len2 = 1 => whole[arrived[v] + 1] = tail(v)[1]
    BY <2>4, <2>6, <2>7
  <2>. QED
    BY <2>2, <2>3, <2>4, <2>5, <2>6, <2>7, <2>8 DEF whole, len2
<1>3. events' \in [PV -> Seq(DeltaType)]
  BY <1>1, <1>2
<1>4. ASSUME NEW v \in PV
      PROVE  \E a \in 0 .. Len(events[v]) :
              LET ev == events[v] IN
              /\ Len(ev) \in Nat /\ DOMAIN ev = 1 .. Len(ev)
              /\ v \in Existing \/ v \notin DOMAIN pvCache =>
                   \A i \in 1 .. a : events'[v][i] = ev[i]
              /\ v \in Existing =>
                   /\ Len(events'[v]) = a + 1
                   /\ DOMAIN events'[v] = 1 .. (a + 1)
                   /\ events'[v][a + 1].type = "update"
                   /\ events'[v][a + 1].phase = pvs[v].phase
                   /\ events'[v][a + 1].bindNode = pvs[v].bindNode
              /\ v \notin Existing /\ v \notin DOMAIN pvCache =>
                   DOMAIN events'[v] = 1 .. a
  <2>1. events'[v] = first(v) \o tail(v)
    BY <1>1
  <2>2. /\ Len(events[v]) \in Nat /\ DOMAIN events[v] = 1 .. Len(events[v])
        /\ arrived[v] \in 0 .. Len(events[v])
        /\ Len(events'[v]) = arrived[v] + Len(tail(v))
        /\ \A i \in 1 .. arrived[v] : events'[v][i] = events[v][i]
        /\ Len(tail(v)) = 1 => events'[v][arrived[v] + 1] = tail(v)[1]
    BY <1>2, <2>1
  <2>3. DOMAIN events'[v] = 1 .. Len(events'[v])
    BY <1>3, LenProperties
  <2>4. ASSUME v \in Existing
        PROVE  /\ Len(events'[v]) = arrived[v] + 1
               /\ DOMAIN events'[v] = 1 .. (arrived[v] + 1)
               /\ events'[v][arrived[v] + 1].type = "update"
               /\ events'[v][arrived[v] + 1].phase = pvs[v].phase
               /\ events'[v][arrived[v] + 1].bindNode = pvs[v].bindNode
    <3>1. tail(v) = <<Delta("update", pvs[v])>>
      BY <2>4
    <3>2. Len(tail(v)) = 1 /\ tail(v)[1] = Delta("update", pvs[v])
      BY <3>1
    <3>3. pvs[v] \in PVState
      BY DEF TypeOK, PVState
    <3>4. /\ Delta("update", pvs[v]).type = "update"
          /\ Delta("update", pvs[v]).phase = pvs[v].phase
          /\ Delta("update", pvs[v]).bindNode = pvs[v].bindNode
      BY <3>3, DeltaFacts
    <3>. HIDE DEF tail, Delta
    <3>. QED
      BY <2>2, <2>3, <3>2, <3>4
  <2>5. ASSUME v \notin Existing, v \notin DOMAIN pvCache
        PROVE  DOMAIN events'[v] = 1 .. arrived[v]
    <3>1. Len(tail(v)) = 0
      BY <2>5
    <3>. QED
      BY <2>2, <2>3, <3>1
  <2>. QED
    BY <2>2, <2>4, <2>5
<1>5. ASSUME NEW v \in PV, NEW i \in DOMAIN events'[v]
      PROVE  \/ events'[v][i].bindNode = pvs[v].bindNode
             \/ \E j \in DOMAIN events[v] : events'[v][i] = events[v][j]
  <2>1. events'[v] = first(v) \o tail(v)
    BY <1>1
  <2>2. /\ DOMAIN events[v] = 1 .. Len(events[v]) /\ Len(events[v]) \in Nat
        /\ arrived[v] \in 0 .. Len(events[v])
        /\ Len(events'[v]) = arrived[v] + Len(tail(v))
        /\ \A j \in 1 .. arrived[v] : events'[v][j] = events[v][j]
        /\ Len(tail(v)) = 1 => events'[v][arrived[v] + 1] = tail(v)[1]
    BY <1>2, <2>1
  <2>3. i \in 1 .. Len(events'[v])
    BY <1>3, <1>5, LenProperties
  <2>4. \/ Len(tail(v)) = 0
        \/ Len(tail(v)) = 1 /\ tail(v)[1].bindNode = pvs[v].bindNode
    BY DEF Delta
  <2>. HIDE DEF first, tail
  <2>5. CASE i \in 1 .. arrived[v]
    <3>1. i \in DOMAIN events[v]
      BY <2>2, <2>5
    <3>. QED
      BY <2>2, <2>5, <3>1
  <2>6. CASE i \notin 1 .. arrived[v]
    <3>1. /\ i \in 1 .. (arrived[v] + Len(tail(v))) /\ arrived[v] \in Nat
          /\ Len(tail(v)) \in {0, 1}
      BY <2>2, <2>3, <2>4
    <3>2. Len(tail(v)) = 1 /\ i = arrived[v] + 1
      <4>1. CASE Len(tail(v)) = 0
        BY <2>6, <3>1, <4>1
      <4>2. CASE Len(tail(v)) = 1
        <5>1. i \in 1 .. (arrived[v] + 1)
          BY <3>1, <4>2
        <5>. QED
          BY <2>6, <3>1, <4>2, <5>1
      <4>. QED
        BY <3>1, <4>1, <4>2
    <3>. QED
      BY <2>2, <2>4, <3>2
  <2>. QED
    BY <2>5, <2>6
<1>. QED
  BY <1>3, <1>4, <1>5

\* Listing anew after a broken watch keeps the invariant.
LEMMA RelistKeepsInv ==
  ASSUME TypeOK, CacheInv, Relist
  PROVE  TypeOK' /\ CacheInv'
<1>1. UNCHANGED <<pvs, pvCache, podNode, attempt>> /\ faults' = faults + 1
  BY DEF Relist, Fault
<1>2. TypeOK'
  BY <1>1, RelistFacts DEF TypeOK
<1>3. ASSUME NEW v \in PV PROVE PVInv(v)'
  <2>. DEFINE ev == events[v]
  <2>1. PICK a \in 0 .. Len(ev) :
              /\ Len(ev) \in Nat /\ DOMAIN ev = 1 .. Len(ev)
              /\ v \in Existing \/ v \notin DOMAIN pvCache =>
                   \A i \in 1 .. a : events'[v][i] = ev[i]
              /\ v \in Existing =>
                   /\ Len(events'[v]) = a + 1
                   /\ DOMAIN events'[v] = 1 .. (a + 1)
                   /\ events'[v][a + 1].type = "update"
                   /\ events'[v][a + 1].phase = pvs[v].phase
                   /\ events'[v][a + 1].bindNode = pvs[v].bindNode
              /\ v \notin Existing /\ v \notin DOMAIN pvCache =>
                   DOMAIN events'[v] = 1 .. a
    BY RelistFacts
  <2>2. /\ a \in Nat /\ \A i \in 1 .. a : i \in DOMAIN ev
        /\ \A i \in 1 .. (a + 1) : i \in 1 .. a \/ i = a + 1
    BY <2>1
  <2>. HIDE DEF ev
  <2>3. ASSUME pvs[v].phase \in {"none", "Pending"} PROVE PVInv(v)'
    <3>1. /\ v \notin DOMAIN pvCache
          /\ \A i \in DOMAIN ev : ev[i].type = "update" /\ ev[i].phase = "Pending"
      BY <2>3 DEF CacheInv, PVInv, UnboundInv, ev
    <3>2. \A i \in 1 .. a : /\ events'[v][i].type = "update"
                            /\ events'[v][i].phase = "Pending"
      BY <2>1, <2>2, <3>1
    <3>3. CASE pvs[v].phase = "none"
      <4>1. DOMAIN events'[v] = 1 .. a
        BY <2>1, <3>1, <3>3 DEF Existing
      <4>. QED
        BY <1>1, <3>1, <3>2, <3>3, <4>1 DEF PVInv, UnboundInv
    <3>4. CASE pvs[v].phase = "Pending"
      <4>1. v \in Existing
        BY <3>4 DEF Existing
      <4>. QED
        BY <1>1, <2>1, <2>2, <3>1, <3>2, <3>4, <4>1 DEF PVInv, UnboundInv
    <3>. QED
      BY <2>3, <3>3, <3>4
  <2>4. ASSUME pvs[v].phase = "Bound" PROVE PVInv(v)'
    <3>1. /\ \A i \in DOMAIN ev : /\ ev[i].type = "update"
                                  /\ ev[i].phase \in {"Pending", "Bound"}
          /\ \A i, j \in DOMAIN ev :
               i <= j /\ ev[i].phase = "Bound" => ev[j].phase = "Bound"
          /\ v \in DOMAIN pvCache => \A i \in DOMAIN ev : ev[i].phase = "Bound"
      BY <2>4 DEF CacheInv, PVInv, BoundInv, ev
    <3>2. v \in Existing
      BY <2>4 DEF Existing
    <3>3. /\ Len(events'[v]) = a + 1 /\ DOMAIN events'[v] = 1 .. (a + 1)
          /\ \A i \in 1 .. a : events'[v][i] = ev[i]
          /\ events'[v][a + 1].type = "update"
          /\ events'[v][a + 1].phase = "Bound"
          /\ events'[v][a + 1].bindNode = pvs'[v].bindNode
      BY <1>1, <2>1, <2>4, <3>2
    <3>4. /\ \A i \in DOMAIN events'[v] :
               /\ events'[v][i].type = "update"
               /\ events'[v][i].phase \in {"Pending", "Bound"}
          /\ v \in DOMAIN pvCache' =>
               \A i \in DOMAIN events'[v] : events'[v][i].phase = "Bound"
      BY <1>1, <2>2, <3>1, <3>3
    <3>5. ASSUME NEW i \in DOMAIN events'[v], NEW j \in DOMAIN events'[v],
                 i <= j, events'[v][i].phase = "Bound"
          PROVE  events'[v][j].phase = "Bound"
      <4>1. CASE j = a + 1
        BY <3>3, <4>1
      <4>2. CASE j \in 1 .. a
        <5>1. i \in 1 .. a
          BY <2>2, <3>3, <3>5, <4>2
        <5>. QED
          BY <2>2, <3>1, <3>3, <3>5, <4>2, <5>1
      <4>. QED
        BY <2>2, <3>3, <4>1, <4>2
    <3>6. events'[v] # <<>>
      BY <2>2, <3>3
    <3>7. BoundInv(v)'
      BY <3>3, <3>4, <3>5, <3>6 DEF BoundInv
    <3>. QED
      BY <1>1, <2>4, <3>7 DEF PVInv
  <2>5. ASSUME pvs[v].phase \in {"Released", "gone"} PROVE PVInv(v)'
    BY <1>1, <2>5 DEF PVInv
  <2>6. pvs[v].phase \in Phase
    BY DEF TypeOK
  <2>. QED
    BY <2>3, <2>4, <2>5, <2>6 DEF Phase
<1>. QED
  BY <1>2, <1>3 DEF CacheInv

\* A Bind under way has a node and claims.
LEMMA BindingFacts ==
  ASSUME TypeOK, NEW p \in Pod, Binding(p)
  PROVE  /\ attempt[p] \in Attempt
         /\ attempt[p].node \in Node
         /\ attempt[p].todo \in Seq(Claim)
         /\ PatchSent(p) => attempt[p].patch \in PV
  BY DEF TypeOK, Binding, Attempt, PatchSent

\* The PV that Bind looks at is in the cache.
LEMMA AtHeadFacts ==
  ASSUME NEW p \in Pod, NEW v \in PV, AtHead(p, v)
  PROVE  /\ Binding(p) /\ attempt[p].todo # <<>>
         /\ v \in DOMAIN pvCache
         /\ ClaimOf[v] = Head(attempt[p].todo)
<1>1. v # Nil
  BY NilAssumption
<1>. QED
  BY <1>1 DEF AtHead, GetPersistentVolumeByClaim

\* The loop of Bind goes on to the next claim.
LEMMA GoOnFacts ==
  ASSUME TypeOK, NEW p \in Pod, Binding(p), attempt[p].todo # <<>>, GoOn(p)
  PROVE  /\ attempt' \in [Pod -> Attempt \cup {Nil}]
         /\ \A q \in Pod \ {p} : attempt'[q] = attempt[q]
         /\ attempt'[p] # Nil
         /\ attempt'[p].node = attempt[p].node
         /\ attempt'[p].todo = Tail(attempt[p].todo)
         /\ attempt'[p].patch = Nil
<1>. DEFINE next == [attempt[p] EXCEPT !.todo = Tail(attempt[p].todo), !.patch = Nil]
<1>1. /\ attempt[p] \in Attempt /\ attempt[p].node \in Node
      /\ attempt[p].todo \in Seq(Claim)
  BY BindingFacts
<1>2. Tail(attempt[p].todo) \in Seq(Claim)
  BY <1>1, HeadTailProperties
<1>3. /\ attempt \in [Pod -> Attempt \cup {Nil}]
      /\ attempt' = [attempt EXCEPT ![p] = next]
  BY DEF TypeOK, GoOn
<1>4. /\ next \in Attempt /\ next.node = attempt[p].node
      /\ next.todo = Tail(attempt[p].todo) /\ next.patch = Nil
  BY <1>1, <1>2 DEF Attempt
<1>. HIDE DEF next
<1>5. next # Nil
  BY <1>4, NilAssumption
<1>. QED
  BY <1>3, <1>4, <1>5

\* A patch is sent.
LEMMA SendFacts ==
  ASSUME TypeOK, NEW p \in Pod, NEW v \in PV, BindHostPathPV(p, v)
  PROVE  /\ attempt' \in [Pod -> Attempt \cup {Nil}]
         /\ \A q \in Pod \ {p} : attempt'[q] = attempt[q]
         /\ attempt[p] # Nil /\ attempt'[p] # Nil
         /\ attempt'[p].node = attempt[p].node
         /\ attempt'[p].todo = attempt[p].todo
         /\ attempt'[p].patch = v
<1>. DEFINE next == [attempt[p] EXCEPT !.patch = v]
<1>1. attempt[p] \in Attempt /\ attempt[p] # Nil
  BY BindingFacts DEF BindHostPathPV, AtHead, Binding
<1>2. /\ attempt \in [Pod -> Attempt \cup {Nil}]
      /\ attempt' = [attempt EXCEPT ![p] = next]
  BY DEF TypeOK, BindHostPathPV
<1>3. /\ next \in Attempt /\ next.node = attempt[p].node
      /\ next.todo = attempt[p].todo /\ next.patch = v
  BY <1>1 DEF Attempt
<1>. HIDE DEF next
<1>4. next # Nil
  BY <1>3, NilAssumption
<1>. QED
  BY <1>1, <1>2, <1>3, <1>4

\* An answer to kube-scheduler ends the Bind of its pod.
LEMMA AnswerFacts ==
  ASSUME TypeOK, NEW p \in Pod, Answer(p)
  PROVE  /\ attempt' \in [Pod -> Attempt \cup {Nil}]
         /\ \A q \in Pod \ {p} : attempt'[q] = attempt[q]
         /\ attempt'[p] = Nil
  BY DEF TypeOK, Answer

\* The annotation is written.
LEMMA WriteKeepsInv ==
  ASSUME TypeOK, CacheInv, NEW v \in PV, NEW n \in Node, v \in Existing,
         Change(v, WithBindNode(v, n), "update"), UNCHANGED pvCache
  PROVE  /\ CacheInv'
         /\ pvs' \in [PV -> PVState]
         /\ events' \in [PV -> Seq(DeltaType)]
         /\ pvs'[v].phase = pvs[v].phase
         /\ pvs'[v].bindNode = n
         /\ \A w \in PV \ {v} : pvs'[w] = pvs[w] /\ events'[w] = events[w]
<1>1. /\ pvs[v] \in PVState
      /\ pvs[v].phase \in {"Pending", "Bound", "Released"}
  BY DEF TypeOK, PVState, Existing
<1>. DEFINE x == WithBindNode(v, n)
<1>2. x \in PVState /\ x.phase = pvs[v].phase /\ x.bindNode = n
  BY <1>1 DEF WithBindNode, PVState
<1>. HIDE DEF x
<1>3. Change(v, x, "update")
  BY DEF x
<1>4. /\ CacheInv' /\ pvs' \in [PV -> PVState]
      /\ events' \in [PV -> Seq(DeltaType)]
  BY <1>1, <1>2, <1>3, ChangeKeepsPVInv
<1>5. /\ pvs'[v] = x
      /\ \A w \in PV \ {v} : pvs'[w] = pvs[w] /\ events'[w] = events[w]
  BY <1>2, <1>3, ChangeFacts
<1>. QED
  BY <1>2, <1>4, <1>5

\* A step that leaves the PVs, their deltas and the cache alone.
LEMMA CacheInvFrame ==
  ASSUME CacheInv, UNCHANGED <<pvs, events, pvCache>>
  PROVE  CacheInv'
  BY PVInvFrame DEF CacheInv

\* The cache is listed before the extender serves.
LEMMA InitInv == Init => TypeOK /\ CacheInv /\ PatchInv
<1>. SUFFICES ASSUME Init PROVE TypeOK /\ CacheInv /\ PatchInv
  OBVIOUS
<1>1. TypeOK
  BY ModelAssumption, EmptySeq DEF Init, TypeOK, Phase
<1>2. CacheInv
  BY ModelAssumption DEF Init, CacheInv, PVInv, UnboundInv, BoundInv
<1>3. PatchInv
  BY DEF Init, PatchInv, PatchSent, Binding
<1>. QED
  BY <1>1, <1>2, <1>3

\* A step keeps PatchInv if it sends no patch, and the claims of a Bind that has
\* sent one stay.
LEMMA PatchInvFrame ==
  ASSUME PatchInv,
         \A p \in Pod : \/ attempt'[p] = attempt[p]
                        \/ attempt'[p] = Nil \/ attempt'[p].patch = Nil
  PROVE  PatchInv'
  BY DEF PatchInv, PatchSent, Binding

\* Bind sends a patch for the claim it looks at, and waits for its answer.
LEMMA NextPatch ==
  ASSUME TypeOK, PatchInv, [Next]_vars
  PROVE  PatchInv'
<1>1. ASSUME NEW p \in Pod, Schedule(p) PROVE PatchInv'
  <2>1. \A q \in Pod : attempt'[q] = attempt[q] \/ attempt'[q].patch = Nil
    BY <1>1 DEF Schedule, TypeOK
  <2>. QED
    BY <2>1, PatchInvFrame
<1>2. ASSUME NEW p \in Pod, Bind(p) PROVE PatchInv'
  <2>1. ASSUME NEW v \in PV \cup {Nil}, SkipClaim(p, v) PROVE PatchInv'
    BY <2>1, GoOnFacts, PatchInvFrame DEF SkipClaim, AtHead
  <2>2. ASSUME NEW v \in PV, BindConflict(p, v) PROVE PatchInv'
    BY <2>2, AnswerFacts, PatchInvFrame DEF BindConflict
  <2>3. ASSUME NEW v \in PV, BindHostPathPV(p, v) PROVE PatchInv'
    <3>1. attempt[p].todo # <<>> /\ ClaimOf[v] = Head(attempt[p].todo)
      BY <2>3, AtHeadFacts DEF BindHostPathPV
    <3>2. /\ \A q \in Pod \ {p} : attempt'[q] = attempt[q]
          /\ attempt'[p].todo = attempt[p].todo /\ attempt'[p].patch = v
      BY <2>3, SendFacts
    <3>. QED
      BY <3>1, <3>2 DEF PatchInv, PatchSent, Binding
  <2>4. CASE PatchArrives(p)
    <3>1. Binding(p) /\ attempt[p].todo # <<>> /\ GoOn(p)
      BY <2>4 DEF PatchArrives, PatchInv, PatchSent
    <3>. QED
      BY <3>1, GoOnFacts, PatchInvFrame
  <2>5. CASE PatchFails(p)
    BY <2>5, AnswerFacts, PatchInvFrame DEF PatchFails, AfterError
  <2>6. CASE BindPod(p)
    BY <2>6, AnswerFacts, PatchInvFrame DEF BindPod
  <2>7. CASE BindPodFails(p)
    BY <2>7, AnswerFacts, PatchInvFrame DEF BindPodFails
  <2>. QED
    BY <1>2, <2>1, <2>2, <2>3, <2>4, <2>5, <2>6, <2>7 DEF Bind
<1>3. CASE UNCHANGED attempt
  BY <1>3, PatchInvFrame
<1>. QED
  BY <1>1, <1>2, <1>3 DEF Next, vars, CreatePV, BindClaimToPV, ReleasePV,
    DeletePV, DeletePod, Process, Relist

\* TypeOK and CacheInv are inductive, with PatchInv, for a cache at any pace.
LEMMA NextInv ==
  TypeOK /\ CacheInv /\ PatchInv /\ [Next]_vars => TypeOK' /\ CacheInv'
<1>. SUFFICES ASSUME TypeOK, CacheInv, PatchInv, [Next]_vars
     PROVE  TypeOK' /\ CacheInv'
  OBVIOUS
<1>1. ASSUME NEW v \in PV, CreatePV(v) PROVE TypeOK' /\ CacheInv'
  <2>. DEFINE x == [pvs[v] EXCEPT !.phase = "Pending"]
  <2>1. x \in PVState /\ x.phase = "Pending"
    BY DEF TypeOK, PVState, Phase
  <2>2. Change(v, x, "update") /\ pvs[v].phase = "none"
    BY <1>1 DEF CreatePV
  <2>. HIDE DEF x
  <2>3. /\ CacheInv' /\ pvs' \in [PV -> PVState]
        /\ events' \in [PV -> Seq(DeltaType)]
    BY <1>1, <2>1, <2>2, ChangeKeepsPVInv DEF CreatePV
  <2>. QED
    BY <1>1, <2>3 DEF CreatePV, TypeOK, PVState
<1>2. ASSUME NEW v \in PV, BindClaimToPV(v) PROVE TypeOK' /\ CacheInv'
  <2>. DEFINE x == [pvs[v] EXCEPT !.phase = "Bound"]
  <2>1. x \in PVState /\ x.phase = "Bound"
    BY DEF TypeOK, PVState, Phase
  <2>2. Change(v, x, "update") /\ pvs[v].phase = "Pending"
    BY <1>2 DEF BindClaimToPV
  <2>. HIDE DEF x
  <2>3. /\ CacheInv' /\ pvs' \in [PV -> PVState]
        /\ events' \in [PV -> Seq(DeltaType)]
    BY <1>2, <2>1, <2>2, ChangeKeepsPVInv DEF BindClaimToPV
  <2>. QED
    BY <1>2, <2>3 DEF BindClaimToPV, TypeOK, PVState
<1>3. ASSUME NEW v \in PV, ReleasePV(v) PROVE TypeOK' /\ CacheInv'
  <2>. DEFINE x == [pvs[v] EXCEPT !.phase = "Released"]
  <2>1. x \in PVState /\ x.phase = "Released"
    BY DEF TypeOK, PVState, Phase
  <2>2. Change(v, x, "update")
    BY <1>3 DEF ReleasePV
  <2>. HIDE DEF x
  <2>3. /\ CacheInv' /\ pvs' \in [PV -> PVState]
        /\ events' \in [PV -> Seq(DeltaType)]
    BY <1>3, <2>1, <2>2, ChangeKeepsPVInv DEF ReleasePV
  <2>. QED
    BY <1>3, <2>3 DEF ReleasePV, Fault, TypeOK, PVState
<1>4. ASSUME NEW v \in PV, DeletePV(v) PROVE TypeOK' /\ CacheInv'
  <2>. DEFINE delta == Delta("delete", pvs[v])
  <2>1. delta \in DeltaType
    BY DeltaFacts DEF TypeOK, PVState
  <2>2. events' = [events EXCEPT ![v] = Append(@, delta)]
    BY <1>4 DEF DeletePV
  <2>. HIDE DEF delta
  <2>3. /\ events' \in [PV -> Seq(DeltaType)]
        /\ \A w \in PV \ {v} : events'[w] = events[w]
    BY <2>1, <2>2, AppendFacts
  <2>4. /\ pvs' \in [PV -> PVState] /\ pvs'[v].phase = "gone"
        /\ \A w \in PV \ {v} : pvs'[w] = pvs[w]
    BY <1>4 DEF DeletePV, TypeOK, PVState, Phase
  <2>5. TypeOK'
    BY <1>4, <2>3, <2>4 DEF DeletePV, TypeOK, PVState
  <2>6. \A w \in PV \ {v} : PVInv(w)'
    BY <1>4, <2>3, <2>4, PVInvFrame DEF DeletePV, CacheInv
  <2>7. PVInv(v)'
    BY <2>4 DEF PVInv
  <2>. QED
    BY <2>5, <2>6, <2>7 DEF CacheInv
<1>5. ASSUME NEW p \in Pod, DeletePod(p) PROVE TypeOK' /\ CacheInv'
  BY <1>5, CacheInvFrame DEF DeletePod, Fault, TypeOK
<1>6. ASSUME NEW v \in PV, Process(v) PROVE TypeOK' /\ CacheInv'
  BY <1>6, ProcessKeepsInv
<1>7. CASE Relist
  BY <1>7, RelistKeepsInv
<1>8. ASSUME NEW p \in Pod, Schedule(p) PROVE TypeOK' /\ CacheInv'
  <2>. PICK n \in CanSchedule(p) :
         attempt' = [attempt EXCEPT ![p] = [node |-> n, todo |-> ClaimsOf[p],
                                            patch |-> Nil]]
    BY <1>8 DEF Schedule
  <2>1. n \in Node
    BY DEF CanSchedule
  <2>2. [node |-> n, todo |-> ClaimsOf[p], patch |-> Nil] \in Attempt
    BY <2>1, ModelAssumption DEF Attempt
  <2>. HIDE DEF Attempt
  <2>3. TypeOK'
    BY <1>8, <2>2 DEF Schedule, TypeOK
  <2>. QED
    BY <1>8, <2>3, CacheInvFrame DEF Schedule
<1>9. ASSUME NEW p \in Pod, Bind(p) PROVE TypeOK' /\ CacheInv'
  <2>1. ASSUME NEW v \in PV \cup {Nil}, SkipClaim(p, v) PROVE TypeOK' /\ CacheInv'
    <3>1. attempt' \in [Pod -> Attempt \cup {Nil}]
      BY <2>1, GoOnFacts DEF SkipClaim, AtHead
    <3>. QED
      BY <2>1, <3>1, CacheInvFrame DEF SkipClaim, TypeOK
  <2>2. ASSUME NEW v \in PV, BindConflict(p, v) PROVE TypeOK' /\ CacheInv'
    <3>1. attempt' \in [Pod -> Attempt \cup {Nil}]
      BY <2>2, AnswerFacts DEF BindConflict
    <3>. QED
      BY <2>2, <3>1, CacheInvFrame DEF BindConflict, TypeOK
  <2>3. ASSUME NEW v \in PV, BindHostPathPV(p, v) PROVE TypeOK' /\ CacheInv'
    BY <2>3, SendFacts, CacheInvFrame DEF BindHostPathPV, TypeOK
  <2>4. CASE PatchArrives(p)
    <3>. DEFINE v == attempt[p].patch
    <3>1. /\ Binding(p) /\ attempt[p].todo # <<>> /\ GoOn(p)
          /\ v \in PV /\ attempt[p].node \in Node
      BY <2>4, BindingFacts DEF PatchArrives, PatchInv, PatchSent
    <3>2. attempt' \in [Pod -> Attempt \cup {Nil}]
      BY <3>1, GoOnFacts
    <3>3. /\ v \in Existing /\ UNCHANGED pvCache
          /\ Change(v, WithBindNode(v, attempt[p].node), "update")
      BY <2>4 DEF PatchArrives
    <3>4. /\ CacheInv' /\ pvs' \in [PV -> PVState]
          /\ events' \in [PV -> Seq(DeltaType)]
      BY <3>1, <3>3, WriteKeepsInv
    <3>. QED
      BY <2>4, <3>2, <3>4 DEF PatchArrives, TypeOK, PVState
  <2>7. CASE PatchFails(p)
    <3>. DEFINE v == attempt[p].patch
    <3>1. /\ v \in PV /\ attempt[p].node \in Node /\ UNCHANGED <<pvCache, podNode>>
      BY <2>7, BindingFacts DEF PatchFails, PatchSent
    <3>2. attempt' \in [Pod -> Attempt \cup {Nil}] /\ faults' \in Nat
      BY <2>7, AnswerFacts DEF PatchFails, AfterError, Fault, TypeOK
    <3>3. /\ CacheInv' /\ pvs' \in [PV -> PVState]
          /\ events' \in [PV -> Seq(DeltaType)]
      <4>1. CASE UNCHANGED <<pvs, events>>
        BY <3>1, <4>1, CacheInvFrame DEF TypeOK, PVState
      <4>2. CASE /\ v \in Existing
                 /\ Change(v, WithBindNode(v, attempt[p].node), "update")
        BY <3>1, <4>2, WriteKeepsInv
      <4>. QED
        BY <2>7, <4>1, <4>2 DEF PatchFails
    <3>. QED
      BY <3>1, <3>2, <3>3 DEF TypeOK, PVState
  <2>5. CASE BindPod(p)
    <3>1. attempt' \in [Pod -> Attempt \cup {Nil}] /\ attempt[p].node \in Node
      BY <2>5, AnswerFacts, BindingFacts DEF BindPod
    <3>. QED
      BY <2>5, <3>1, CacheInvFrame DEF BindPod, TypeOK
  <2>6. CASE BindPodFails(p)
    <3>1. attempt' \in [Pod -> Attempt \cup {Nil}] /\ attempt[p].node \in Node
      BY <2>6, AnswerFacts, BindingFacts DEF BindPodFails
    <3>2. podNode' \in [Pod -> Node \cup {Nil, "gone"}]
      BY <2>6, <3>1 DEF BindPodFails, TypeOK
    <3>. QED
      BY <2>6, <3>1, <3>2, CacheInvFrame DEF BindPodFails, Fault, TypeOK
  <2>. QED
    BY <1>9, <2>1, <2>2, <2>3, <2>4, <2>5, <2>6, <2>7 DEF Bind
<1>10. CASE UNCHANGED vars
  BY <1>10, CacheInvFrame DEF vars, TypeOK
<1>. QED
  BY <1>1, <1>2, <1>3, <1>4, <1>5, <1>6, <1>7, <1>8, <1>9, <1>10 DEF Next

\* What the cache holds has been converted from a PV of the API server (the
\* processor of persistentVolume.go), and a Bind under way has a node and a
\* list of claims of its own (bind.go).
THEOREM TypeCorrect == Spec => []TypeOK
<1>. QED
  BY InitInv, NextInv, NextPatch, PTL DEF Spec

\* When every event is applied, a bound PV that is in the cache is there with
\* its bind node: for any PVs, however their deltas are batched, dropped by
\* DefaultProcessor or lost with the watch, and however Binds write meanwhile.
THEOREM CacheFollowsAPI == Spec => []CacheFollows
<1>1. TypeOK /\ CacheInv => CacheFollows
  BY DEF TypeOK, CacheInv, PVInv, BoundInv, CacheFollows, Drained
<1>. QED
  BY <1>1, InitInv, NextInv, NextPatch, PTL DEF Spec

-----------------------------------------------------------------------------
(* BindInv. *)

\* The nodes a PV was pinned to only grow, by its bind node.
PinnedStep ==
  \A v \in PV : pinnedTo'[v] = pinnedTo[v] \cup ({pvs'[v].bindNode} \ {Nil})

\* That is so in a stuttering step as well, for the bind node is one of them.
LEMMA HistoryFacts ==
  ASSUME BindInv, [HistoryNext]_historyVars
  PROVE  PinnedStep /\ [Next]_vars
<1>1. CASE HistoryNext
  BY <1>1 DEF HistoryNext, PinnedStep
<1>2. CASE UNCHANGED historyVars
  <2>1. pinnedTo' = pinnedTo /\ pvs' = pvs /\ UNCHANGED vars
    BY <1>2 DEF historyVars, vars
  <2>2. \A v \in PV : pvs[v].bindNode \in pinnedTo[v] \cup {Nil}
    BY DEF BindInv, KnownInv
  <2>. QED
    BY <2>1, <2>2 DEF PinnedStep
<1>. QED
  BY <1>1, <1>2

\* A PV of which nothing becomes known but what was known, and its bind node,
\* which is never taken away.
LEMMA KnownStep ==
  ASSUME NEW v \in PV, KnownInv(v), PinnedStep,
         pvs'[v].bindNode = pvs[v].bindNode \/ pvs'[v].bindNode # Nil,
         v \in DOMAIN pvCache' => pvCache'[v] \in pinnedTo[v] \cup {Nil},
         \A i \in DOMAIN events'[v] :
           events'[v][i].bindNode \in pinnedTo[v] \cup {Nil, pvs'[v].bindNode}
  PROVE  KnownInv(v)'
<1>1. pinnedTo'[v] = pinnedTo[v] \cup ({pvs'[v].bindNode} \ {Nil})
  BY DEF PinnedStep
<1>. QED
  BY <1>1 DEF KnownInv

\* A step that changes nothing of a PV.
LEMMA KnownFrame ==
  ASSUME NEW v \in PV, KnownInv(v), PinnedStep,
         pvs'[v] = pvs[v], events'[v] = events[v],
         v \in DOMAIN pvCache' <=> v \in DOMAIN pvCache,
         v \in DOMAIN pvCache => pvCache'[v] = pvCache[v]
  PROVE  KnownInv(v)'
<1>1. /\ v \in DOMAIN pvCache' => pvCache'[v] \in pinnedTo[v] \cup {Nil}
      /\ \A i \in DOMAIN events'[v] :
           events'[v][i].bindNode \in pinnedTo[v] \cup {Nil}
  BY DEF KnownInv
<1>. QED
  BY <1>1, KnownStep

\* The PV changes, and keeps its bind node or gets one.
LEMMA ChangeKnown ==
  ASSUME TypeOK, BindInv, PinnedStep, NEW v \in PV, NEW x \in PVState,
         Change(v, x, "update"), UNCHANGED pvCache,
         x.bindNode = pvs[v].bindNode \/ x.bindNode # Nil
  PROVE  \A w \in PV : KnownInv(w)'
<1>1. /\ pvs'[v] = x
      /\ \A w \in PV \ {v} : pvs'[w] = pvs[w] /\ events'[w] = events[w]
      /\ DOMAIN events[v] = 1 .. Len(events[v]) /\ Len(events[v]) \in Nat
      /\ DOMAIN events'[v] = 1 .. (Len(events[v]) + 1)
      /\ \A i \in DOMAIN events[v] : events'[v][i] = events[v][i]
      /\ events'[v][Len(events[v]) + 1].bindNode = x.bindNode
  BY ChangeFacts
<1>2. \A w \in PV : KnownInv(w)
  BY DEF BindInv
<1>3. \A w \in PV \ {v} : KnownInv(w)'
  BY <1>1, <1>2, KnownFrame
<1>4. ASSUME NEW i \in DOMAIN events'[v]
      PROVE  events'[v][i].bindNode \in pinnedTo[v] \cup {Nil, x.bindNode}
  <2>1. i \in DOMAIN events[v] \/ i = Len(events[v]) + 1
    BY <1>1, <1>4
  <2>. QED
    BY <1>1, <1>2, <2>1 DEF KnownInv
<1>5. v \in DOMAIN pvCache' => pvCache'[v] \in pinnedTo[v] \cup {Nil}
  BY <1>2 DEF KnownInv
<1>6. KnownInv(v)'
  BY <1>1, <1>2, <1>4, <1>5, KnownStep
<1>. QED
  BY <1>3, <1>6

\* The annotation is written.
LEMMA WriteKnown ==
  ASSUME TypeOK, BindInv, PinnedStep, NEW v \in PV, NEW n \in Node,
         Change(v, WithBindNode(v, n), "update"), UNCHANGED pvCache
  PROVE  \A w \in PV : KnownInv(w)'
<1>. DEFINE x == WithBindNode(v, n)
<1>1. x \in PVState /\ x.bindNode # Nil
  BY NilAssumption DEF TypeOK, PVState, WithBindNode
<1>. HIDE DEF x
<1>2. Change(v, x, "update")
  BY DEF x
<1>. QED
  BY <1>1, <1>2, ChangeKnown

\* KnownInv is inductive: what the cache and the deltas know of a PV comes from
\* the API server.
LEMMA NextKnown ==
  ASSUME TypeOK, BindInv, PinnedStep, [Next]_vars
  PROVE  \A w \in PV : KnownInv(w)'
<1>. DEFINE Known == \A w \in PV : KnownInv(w)'
<1>1. ASSUME NEW v \in PV, CreatePV(v) PROVE Known
  <2>. DEFINE x == [pvs[v] EXCEPT !.phase = "Pending"]
  <2>1. x \in PVState /\ x.bindNode = pvs[v].bindNode
    BY DEF TypeOK, PVState, Phase
  <2>2. Change(v, x, "update") /\ UNCHANGED pvCache
    BY <1>1 DEF CreatePV
  <2>. HIDE DEF x
  <2>. QED
    BY <2>1, <2>2, ChangeKnown
<1>2. ASSUME NEW v \in PV, BindClaimToPV(v) PROVE Known
  <2>. DEFINE x == [pvs[v] EXCEPT !.phase = "Bound"]
  <2>1. x \in PVState /\ x.bindNode = pvs[v].bindNode
    BY DEF TypeOK, PVState, Phase
  <2>2. Change(v, x, "update") /\ UNCHANGED pvCache
    BY <1>2 DEF BindClaimToPV
  <2>. HIDE DEF x
  <2>. QED
    BY <2>1, <2>2, ChangeKnown
<1>3. ASSUME NEW v \in PV, ReleasePV(v) PROVE Known
  <2>. DEFINE x == [pvs[v] EXCEPT !.phase = "Released"]
  <2>1. x \in PVState /\ x.bindNode = pvs[v].bindNode
    BY DEF TypeOK, PVState, Phase
  <2>2. Change(v, x, "update") /\ UNCHANGED pvCache
    BY <1>3 DEF ReleasePV
  <2>. HIDE DEF x
  <2>. QED
    BY <2>1, <2>2, ChangeKnown
<1>4. ASSUME NEW v \in PV, DeletePV(v) PROVE Known
  <2>. DEFINE delta == Delta("delete", pvs[v])
  <2>1. delta \in DeltaType /\ delta.bindNode = pvs[v].bindNode
    BY DeltaFacts DEF TypeOK, PVState
  <2>2. /\ events' = [events EXCEPT ![v] = Append(@, delta)]
        /\ pvs'[v].bindNode = pvs[v].bindNode
        /\ \A w \in PV \ {v} : pvs'[w] = pvs[w]
        /\ UNCHANGED pvCache
    BY <1>4 DEF DeletePV, TypeOK
  <2>. HIDE DEF delta
  <2>3. /\ \A w \in PV \ {v} : events'[w] = events[w]
        /\ DOMAIN events[v] = 1 .. Len(events[v]) /\ Len(events[v]) \in Nat
        /\ DOMAIN events'[v] = 1 .. (Len(events[v]) + 1)
        /\ \A i \in DOMAIN events[v] : events'[v][i] = events[v][i]
        /\ events'[v][Len(events[v]) + 1] = delta
    BY <2>1, <2>2, AppendFacts
  <2>4. \A w \in PV : KnownInv(w)
    BY DEF BindInv
  <2>5. \A w \in PV \ {v} : KnownInv(w)'
    BY <2>2, <2>3, <2>4, KnownFrame
  <2>6. ASSUME NEW i \in DOMAIN events'[v]
        PROVE  events'[v][i].bindNode \in pinnedTo[v] \cup {Nil}
    <3>1. i \in DOMAIN events[v] \/ i = Len(events[v]) + 1
      BY <2>3, <2>6
    <3>. QED
      BY <2>1, <2>3, <2>4, <3>1 DEF KnownInv
  <2>7. v \in DOMAIN pvCache' => pvCache'[v] \in pinnedTo[v] \cup {Nil}
    BY <2>2, <2>4 DEF KnownInv
  <2>8. KnownInv(v)'
    BY <2>2, <2>4, <2>6, <2>7, KnownStep
  <2>. QED
    BY <2>5, <2>8
<1>5. ASSUME NEW v \in PV, Process(v) PROVE Known
  <2>1. PICK n \in 1 .. Len(events[v]) :
          /\ Len(events[v]) \in Nat /\ DOMAIN events[v] = 1 .. Len(events[v])
          /\ \A w \in PV \ {v} : events'[w] = events[w]
          /\ DOMAIN events'[v] = 1 .. (Len(events[v]) - n)
          /\ \A i \in 1 .. (Len(events[v]) - n) : events'[v][i] = events[v][n + i]
          /\ \A w \in PV \ {v} : /\ w \in DOMAIN pvCache' <=> w \in DOMAIN pvCache
                                 /\ w \in DOMAIN pvCache => pvCache'[w] = pvCache[w]
          /\ v \in DOMAIN pvCache' =>
               \/ v \in DOMAIN pvCache /\ pvCache'[v] = pvCache[v]
               \/ \E i \in DOMAIN events[v] : pvCache'[v] = events[v][i].bindNode
    BY <1>5, ProcessFacts
  <2>2. UNCHANGED pvs
    BY <1>5 DEF Process
  <2>3. \A w \in PV : KnownInv(w)
    BY DEF BindInv
  <2>4. \A w \in PV \ {v} : KnownInv(w)'
    BY <2>1, <2>2, <2>3, KnownFrame
  <2>5. ASSUME NEW i \in DOMAIN events'[v]
        PROVE  events'[v][i].bindNode \in pinnedTo[v] \cup {Nil}
    <3>1. n + i \in DOMAIN events[v] /\ events'[v][i] = events[v][n + i]
      BY <2>1, <2>5
    <3>. QED
      BY <2>3, <3>1 DEF KnownInv
  <2>6. v \in DOMAIN pvCache' => pvCache'[v] \in pinnedTo[v] \cup {Nil}
    BY <2>1, <2>3 DEF KnownInv
  <2>7. KnownInv(v)'
    BY <2>2, <2>3, <2>5, <2>6, KnownStep
  <2>. QED
    BY <2>4, <2>7
<1>6. CASE Relist
  <2>1. UNCHANGED <<pvs, pvCache>>
    BY <1>6 DEF Relist
  <2>2. ASSUME NEW w \in PV PROVE KnownInv(w)'
    <3>1. KnownInv(w)
      BY DEF BindInv
    <3>2. \A i \in DOMAIN events'[w] :
            \/ events'[w][i].bindNode = pvs[w].bindNode
            \/ \E j \in DOMAIN events[w] : events'[w][i] = events[w][j]
      BY <1>6, RelistFacts
    <3>3. /\ \A i \in DOMAIN events'[w] :
               events'[w][i].bindNode \in pinnedTo[w] \cup {Nil}
          /\ w \in DOMAIN pvCache' => pvCache'[w] \in pinnedTo[w] \cup {Nil}
      BY <2>1, <3>1, <3>2 DEF KnownInv
    <3>. QED
      BY <2>1, <3>1, <3>3, KnownStep
  <2>. QED
    BY <2>2
<1>7. ASSUME NEW p \in Pod, PatchArrives(p) \/ PatchFails(p) PROVE Known
  <2>. DEFINE v == attempt[p].patch
  <2>1. /\ v \in PV /\ attempt[p].node \in Node /\ UNCHANGED pvCache
    BY <1>7, BindingFacts DEF PatchArrives, PatchFails, PatchSent
  <2>2. CASE Change(v, WithBindNode(v, attempt[p].node), "update")
    BY <2>1, <2>2, WriteKnown
  <2>3. CASE UNCHANGED <<pvs, events>>
    BY <2>1, <2>3, KnownFrame DEF BindInv
  <2>. QED
    BY <1>7, <2>2, <2>3 DEF PatchArrives, PatchFails
<1>8. CASE UNCHANGED <<pvs, events, pvCache>>
  BY <1>8, KnownFrame DEF BindInv
<1>9. ASSUME NEW p \in Pod, Bind(p) PROVE Known
  BY <1>7, <1>8, <1>9 DEF Bind, SkipClaim, BindConflict, BindHostPathPV, BindPod,
    BindPodFails
<1>10. ASSUME NEW p \in Pod, DeletePod(p) \/ Schedule(p) PROVE Known
  BY <1>8, <1>10 DEF DeletePod, Schedule
<1>11. CASE UNCHANGED vars
  BY <1>8, <1>11 DEF vars
<1>. QED
  BY <1>1, <1>2, <1>3, <1>4, <1>5, <1>6, <1>9, <1>10, <1>11 DEF Next

\* A step in which the Bind of a pod does not get on and the pod is not bound,
\* and in which a PV does not go back in its phases, nor leave the cache while
\* it is bound.
LEMMA PlacedFrame ==
  ASSUME NEW p \in Pod, NEW v \in PV, PlacedInv(p, v), PinnedStep,
         \/ attempt'[p] = Nil
         \/ /\ attempt[p] # Nil
            /\ attempt'[p].node = attempt[p].node
            /\ attempt'[p].todo = attempt[p].todo,
         podNode'[p] = podNode[p] \/ podNode'[p] \notin Node,
         \/ pvs'[v].phase = pvs[v].phase
         \/ pvs[v].phase \in {"none", "Pending"}
         \/ pvs'[v].phase \in {"Released", "gone"},
         v \in DOMAIN pvCache /\ pvs[v].phase = "Bound" => v \in DOMAIN pvCache'
  PROVE  PlacedInv(p, v)'
<1>1. pinnedTo[v] \subseteq pinnedTo'[v]
  BY DEF PinnedStep
<1>. QED
  BY <1>1 DEF PlacedInv

\* A claim of the loop is the one at its head, or it comes later.
LEMMA TodoFacts ==
  ASSUME NEW todo \in Seq(Claim), todo # <<>>, NEW c,
         c \in ToSet(todo), c # Head(todo)
  PROVE  c \in ToSet(Tail(todo))
<1>1. PICK i \in DOMAIN todo : c = todo[i]
  BY DEF ToSet
<1>2. Len(todo) \in Nat /\ DOMAIN todo = 1 .. Len(todo)
  BY LenProperties
<1>3. /\ Tail(todo) \in Seq(Claim) /\ Len(Tail(todo)) = Len(todo) - 1
      /\ \A j \in 1 .. Len(Tail(todo)) : Tail(todo)[j] = todo[j + 1]
  BY HeadTailProperties
<1>4. i # 1
  BY <1>1
<1>5. i - 1 \in 1 .. Len(Tail(todo)) /\ (i - 1) + 1 = i
  BY <1>1, <1>2, <1>3, <1>4
<1>6. DOMAIN Tail(todo) = 1 .. Len(Tail(todo))
  BY <1>3, LenProperties
<1>7. Tail(todo)[i - 1] = c
  BY <1>1, <1>3, <1>5
<1>. QED
  BY <1>5, <1>6, <1>7 DEF ToSet

\* The filter has found every PV of the pod in the cache.
LEMMA ScheduleFacts ==
  ASSUME TypeOK, OnePVPerClaim, NEW p \in Pod, CanSchedule(p) # {},
         NEW v \in PV, Uses(p, v)
  PROVE  v \in DOMAIN pvCache /\ ClaimOf[v] \in ToSet(ClaimsOf[p])
<1>1. PICK pv \in Found(p) : TRUE
  BY DEF CanSchedule
<1>2. PICK i \in DOMAIN ClaimsOf[p] : ClaimsOf[p][i] = ClaimOf[v]
  BY DEF Uses
<1>3. pv[i] \in DOMAIN pvCache /\ ClaimOf[pv[i]] = ClaimOf[v]
  BY <1>2 DEF Found
<1>4. pv[i] = v
  BY <1>3 DEF OnePVPerClaim, TypeOK
<1>. QED
  BY <1>2, <1>3, <1>4 DEF ToSet

\* Bind is done with the claim at the head of its loop, and the PV of the claim
\* has been pinned to the node if it is one to pin.
LEMMA GoOnKeepsPlaced ==
  ASSUME TypeOK, PinnedStep, NEW p \in Pod, Binding(p), attempt[p].todo # <<>>,
         GoOn(p), UNCHANGED <<pvCache, podNode>>, NEW w \in PV, PlacedInv(p, w),
         pvs'[w].phase = pvs[w].phase,
         pvs[w].phase = "Bound" /\ Pinned(w) /\ ClaimOf[w] = Head(attempt[p].todo)
           => attempt[p].node \in pinnedTo'[w]
  PROVE  PlacedInv(p, w)'
<1>1. /\ attempt[p] # Nil
      /\ attempt'[p].node = attempt[p].node
      /\ attempt'[p].todo = Tail(attempt[p].todo)
      /\ attempt[p].todo \in Seq(Claim)
  BY GoOnFacts, BindingFacts DEF Binding
<1>2. pinnedTo[w] \subseteq pinnedTo'[w]
  BY DEF PinnedStep
<1>3. ASSUME pvs[w].phase = "Bound", Pinned(w),
             ClaimOf[w] \notin ToSet(attempt'[p].todo)
      PROVE  attempt[p].node \in pinnedTo'[w]
  <2>1. CASE ClaimOf[w] # Head(attempt[p].todo)
    <3>1. ClaimOf[w] \notin ToSet(attempt[p].todo)
      BY <1>1, <1>3, <2>1, TodoFacts
    <3>. QED
      BY <1>1, <1>2, <1>3, <3>1 DEF PlacedInv
  <2>. QED
    BY <1>3, <2>1
<1>. QED
  BY <1>1, <1>2, <1>3 DEF PlacedInv

\* Bind skips a claim: a PV that is in the cache with the node of the attempt has
\* been pinned to it.
LEMMA SkipKeepsPlaced ==
  ASSUME TypeOK, BindInv, PinnedStep, OnePVPerClaim, NEW p \in Pod,
         NEW v \in PV \cup {Nil}, SkipClaim(p, v),
         NEW w \in PV, Uses(p, w)
  PROVE  PlacedInv(p, w)'
<1>1. /\ Binding(p) /\ attempt[p].todo # <<>> /\ GoOn(p)
      /\ v \in GetPersistentVolumeByClaim(Head(attempt[p].todo))
      /\ NothingToBind(p, v)
      /\ UNCHANGED <<pvs, pvCache, podNode>>
  BY DEF SkipClaim, AtHead
<1>2. PlacedInv(p, w) /\ KnownInv(w)
  BY DEF BindInv
<1>3. ASSUME pvs[w].phase = "Bound", Pinned(w), ClaimOf[w] = Head(attempt[p].todo)
      PROVE  attempt[p].node \in pinnedTo'[w]
  <2>1. w \in DOMAIN pvCache
    BY <1>1, <1>2, <1>3 DEF PlacedInv, Binding
  <2>2. v \in DOMAIN pvCache /\ ClaimOf[v] = Head(attempt[p].todo)
    BY <1>1, <1>3, <2>1 DEF GetPersistentVolumeByClaim
  <2>3. v = w
    BY <1>3, <2>2 DEF OnePVPerClaim, TypeOK
  <2>4. pvCache[w] = attempt[p].node /\ attempt[p].node \in Node
    BY <1>1, <1>3, <2>3, BindingFacts DEF NothingToBind
  <2>5. attempt[p].node \in pinnedTo[w]
    BY <1>2, <2>1, <2>4, NilAssumption DEF KnownInv
  <2>. QED
    BY <2>5 DEF PinnedStep
<1>. QED
  BY <1>1, <1>2, <1>3, GoOnKeepsPlaced

\* The patch of a PV arrives, and Bind goes on.
LEMMA ArrivalKeepsPlaced ==
  ASSUME TypeOK, CacheInv, PatchInv, BindInv, PinnedStep, OnePVPerClaim,
         NEW p \in Pod, PatchArrives(p), NEW w \in PV, Uses(p, w)
  PROVE  PlacedInv(p, w)'
<1>. DEFINE v == attempt[p].patch
<1>1. /\ Binding(p) /\ attempt[p].todo # <<>> /\ GoOn(p)
      /\ v \in PV /\ attempt[p].node \in Node
      /\ ClaimOf[v] = Head(attempt[p].todo)
      /\ UNCHANGED <<pvCache, podNode>>
  BY BindingFacts DEF PatchArrives, PatchInv, PatchSent
<1>2. /\ v \in Existing
      /\ Change(v, WithBindNode(v, attempt[p].node), "update")
  BY DEF PatchArrives
<1>. HIDE DEF v
<1>3. /\ pvs'[v].phase = pvs[v].phase
      /\ pvs'[v].bindNode = attempt[p].node
      /\ \A u \in PV \ {v} : pvs'[u] = pvs[u]
  BY <1>1, <1>2, WriteKeepsInv
<1>4. PlacedInv(p, w)
  BY DEF BindInv
<1>5. ClaimOf[w] = Head(attempt[p].todo) => attempt[p].node \in pinnedTo'[w]
  <2>1. attempt[p].node \in pinnedTo'[v]
    BY <1>1, <1>3, NilAssumption DEF PinnedStep
  <2>. QED
    BY <1>1, <2>1 DEF OnePVPerClaim
<1>6. pvs'[w].phase = pvs[w].phase
  BY <1>3
<1>. QED
  BY <1>1, <1>4, <1>5, <1>6, GoOnKeepsPlaced

\* No pod is placed at the start, and no PV is pinned.
LEMMA InitBind == HistoryInit => BindInv
<1>. SUFFICES ASSUME HistoryInit PROVE BindInv
  OBVIOUS
<1>1. \A v \in PV : KnownInv(v)
  BY ModelAssumption DEF HistoryInit, Init, KnownInv
<1>2. \A p \in Pod, v \in PV : PlacedInv(p, v)
  BY NilAssumption DEF HistoryInit, Init, PlacedInv
<1>. QED
  BY <1>1, <1>2 DEF BindInv

\* PlacedInv is inductive relative to the rest.
LEMMA NextPlaced ==
  ASSUME OnePVPerClaim, TypeOK, CacheInv, PatchInv, BindInv, PinnedStep,
         [Next]_vars, NEW q \in Pod, NEW w \in PV, Uses(q, w)
  PROVE  PlacedInv(q, w)'
<1>0. PlacedInv(q, w)
  BY DEF BindInv
<1>1. ASSUME NEW v \in PV,
             CreatePV(v) \/ BindClaimToPV(v) \/ ReleasePV(v) \/ DeletePV(v)
      PROVE  PlacedInv(q, w)'
  <2>1. UNCHANGED <<pvCache, podNode, attempt>>
    BY <1>1 DEF CreatePV, BindClaimToPV, ReleasePV, DeletePV
  <2>2. w # v => pvs'[w] = pvs[w]
    BY <1>1 DEF CreatePV, BindClaimToPV, ReleasePV, DeletePV, Change, TypeOK
  <2>3. CreatePV(v) \/ BindClaimToPV(v) => pvs[v].phase \in {"none", "Pending"}
    BY DEF CreatePV, BindClaimToPV
  <2>4. ReleasePV(v) => pvs'[v].phase = "Released"
    BY DEF ReleasePV, Change, TypeOK
  <2>5. DeletePV(v) => pvs'[v].phase = "gone"
    BY DEF DeletePV, TypeOK
  <2>6. \/ pvs'[w].phase = pvs[w].phase
        \/ pvs[w].phase \in {"none", "Pending"}
        \/ pvs'[w].phase \in {"Released", "gone"}
    BY <1>1, <2>2, <2>3, <2>4, <2>5
  <2>. QED
    BY <1>0, <2>1, <2>6, PlacedFrame
<1>2. ASSUME NEW p \in Pod, DeletePod(p) PROVE PlacedInv(q, w)'
  <2>1. /\ podNode'[q] = podNode[q] \/ podNode'[q] \notin Node
        /\ UNCHANGED <<pvs, pvCache, attempt>>
    BY <1>2, NilAssumption DEF DeletePod, TypeOK
  <2>. QED
    BY <1>0, <2>1, PlacedFrame
<1>3. ASSUME NEW v \in PV, Process(v) PROVE PlacedInv(q, w)'
  <2>1. UNCHANGED <<pvs, podNode, attempt>>
    BY <1>3 DEF Process
  <2>2. w \in DOMAIN pvCache /\ pvs[w].phase = "Bound" => w \in DOMAIN pvCache'
    BY <1>3, ProcessKeepsInv
  <2>. QED
    BY <1>0, <2>1, <2>2, PlacedFrame
<1>4. CASE UNCHANGED <<pvs, pvCache, podNode, attempt>>
  BY <1>0, <1>4, PlacedFrame
<1>5. ASSUME NEW p \in Pod, Schedule(p) PROVE PlacedInv(q, w)'
  <2>. PICK n \in CanSchedule(p) :
         attempt' = [attempt EXCEPT ![p] = [node |-> n, todo |-> ClaimsOf[p],
                                            patch |-> Nil]]
    BY <1>5 DEF Schedule
  <2>1. /\ podNode[p] \notin Node
        /\ attempt'[p].todo = ClaimsOf[p]
        /\ \A r \in Pod \ {p} : attempt'[r] = attempt[r]
        /\ UNCHANGED <<pvs, pvCache, podNode>>
    BY <1>5, NilAssumption DEF Schedule, TypeOK
  <2>2. CASE q = p
    <3>1. w \in DOMAIN pvCache /\ ClaimOf[w] \in ToSet(ClaimsOf[p])
      BY <2>2, ScheduleFacts
    <3>2. pvs[w].phase \notin {"none", "Pending"}
      BY <3>1 DEF CacheInv, PVInv, UnboundInv
    <3>. QED
      BY <2>1, <2>2, <3>1, <3>2 DEF PlacedInv
  <2>3. CASE q # p
    BY <1>0, <2>1, <2>3, PlacedFrame
  <2>. QED
    BY <2>2, <2>3
<1>6. ASSUME NEW p \in Pod, Bind(p) PROVE PlacedInv(q, w)'
  <2>1. ASSUME NEW v \in PV \cup {Nil}, SkipClaim(p, v) PROVE PlacedInv(q, w)'
    <3>1. CASE q = p
      BY <2>1, <3>1, SkipKeepsPlaced
    <3>2. CASE q # p
      <4>1. /\ attempt'[q] = attempt[q] /\ UNCHANGED <<pvs, pvCache, podNode>>
        BY <2>1, <3>2, GoOnFacts DEF SkipClaim, AtHead
      <4>. QED
        BY <1>0, <4>1, PlacedFrame
    <3>. QED
      BY <3>1, <3>2
  <2>2. ASSUME NEW v \in PV, BindConflict(p, v) PROVE PlacedInv(q, w)'
    BY <1>0, <2>2, AnswerFacts, PlacedFrame DEF BindConflict
  <2>3. ASSUME NEW v \in PV, BindHostPathPV(p, v) PROVE PlacedInv(q, w)'
    <3>1. \/ attempt'[q] = attempt[q]
          \/ /\ attempt[q] # Nil
             /\ attempt'[q].node = attempt[q].node
             /\ attempt'[q].todo = attempt[q].todo
      BY <2>3, SendFacts
    <3>2. UNCHANGED <<pvs, pvCache, podNode>>
      BY <2>3 DEF BindHostPathPV
    <3>. QED
      BY <1>0, <3>1, <3>2, PlacedFrame
  <2>4. ASSUME PatchArrives(p) \/ PatchFails(p)
        PROVE  pvs'[w].phase = pvs[w].phase /\ UNCHANGED <<pvCache, podNode>>
    <3>. DEFINE v == attempt[p].patch
    <3>1. v \in PV /\ attempt[p].node \in Node /\ UNCHANGED <<pvCache, podNode>>
      BY <2>4, BindingFacts DEF PatchArrives, PatchFails, PatchSent
    <3>2. CASE v \in Existing /\ Change(v, WithBindNode(v, attempt[p].node), "update")
      BY <3>1, <3>2, WriteKeepsInv
    <3>3. CASE UNCHANGED <<pvs, events>>
      BY <3>1, <3>3
    <3>. QED
      BY <2>4, <3>2, <3>3 DEF PatchArrives, PatchFails
  <2>5. CASE PatchArrives(p)
    <3>1. CASE q = p
      BY <2>5, <3>1, ArrivalKeepsPlaced
    <3>2. CASE q # p
      <4>1. attempt'[q] = attempt[q]
        BY <2>5, <3>2, GoOnFacts DEF PatchArrives, PatchInv, PatchSent
      <4>. QED
        BY <1>0, <2>4, <2>5, <4>1, PlacedFrame
    <3>. QED
      BY <3>1, <3>2
  <2>6. CASE PatchFails(p)
    <3>1. attempt'[q] = attempt[q] \/ attempt'[q] = Nil
      BY <2>6, AnswerFacts DEF PatchFails, AfterError
    <3>. QED
      BY <1>0, <2>4, <2>6, <3>1, PlacedFrame
  <2>7. CASE BindPod(p) \/ BindPodFails(p)
    <3>1. /\ attempt[p] # Nil /\ attempt[p].node \in Node
          /\ ToSet(attempt[p].todo) = {}
      BY <2>7, BindingFacts DEF BindPod, BindPodFails, Binding, ToSet
    <3>2. /\ attempt'[p] = Nil
          /\ \A r \in Pod \ {p} : attempt'[r] = attempt[r]
          /\ UNCHANGED <<pvs, pvCache>>
      BY <2>7, AnswerFacts DEF BindPod, BindPodFails
    <3>3. /\ podNode'[p] = podNode[p] \/ podNode'[p] = attempt[p].node
          /\ \A r \in Pod \ {p} : podNode'[r] = podNode[r]
      BY <2>7 DEF BindPod, BindPodFails, TypeOK
    <3>4. CASE q = p
      <4>1. pinnedTo[w] \subseteq pinnedTo'[w]
        BY DEF PinnedStep
      <4>. QED
        BY <1>0, <3>1, <3>2, <3>3, <3>4, <4>1 DEF PlacedInv
    <3>5. CASE q # p
      BY <1>0, <3>2, <3>3, <3>5, PlacedFrame
    <3>. QED
      BY <3>4, <3>5
  <2>. QED
    BY <1>6, <2>1, <2>2, <2>3, <2>5, <2>6, <2>7 DEF Bind
<1>7. CASE Relist
  BY <1>4, <1>7 DEF Relist
<1>. QED
  BY <1>1, <1>2, <1>3, <1>4, <1>5, <1>6, <1>7 DEF Next, vars

\* A scheduled pod is on a node that each of its persistent hostPath volumes was
\* pinned to, and on the bind node if that is the only one: for any pods, claims
\* and interleaving of the reads, patches and answers of their Binds, a cache at
\* any pace and any calls failing, as long as a claim has one PV in its life
\* (Bind, BindHostPathPV and DefaultProcessor).
THEOREM PodsFollowVolumes ==
  ASSUME OnePVPerClaim
  PROVE  HistorySpec => []PodFollowsVolume
<1>1. TypeOK /\ BindInv => PodFollowsVolume
  <2>. SUFFICES ASSUME TypeOK, BindInv, NEW p \in Pod, podNode[p] \in Node,
                       NEW v \in PV, Pinned(v), pvs[v].phase = "Bound", Uses(p, v)
       PROVE  /\ podNode[p] \in pinnedTo[v]
              /\ pinnedTo[v] = {podNode[p]} => pvs[v].bindNode = podNode[p]
    BY DEF PodFollowsVolume
  <2>1. PlacedInv(p, v) /\ KnownInv(v)
    BY DEF BindInv
  <2>. QED
    BY <2>1 DEF PlacedInv, KnownInv
<1>2. HistoryInit => TypeOK /\ CacheInv /\ PatchInv /\ BindInv
  BY InitInv, InitBind DEF HistoryInit
<1>3. TypeOK /\ CacheInv /\ PatchInv /\ BindInv /\ [HistoryNext]_historyVars =>
        TypeOK' /\ CacheInv' /\ PatchInv' /\ BindInv'
  <2>. SUFFICES ASSUME TypeOK, CacheInv, PatchInv, BindInv,
                       [HistoryNext]_historyVars
       PROVE  TypeOK' /\ CacheInv' /\ PatchInv' /\ BindInv'
    OBVIOUS
  <2>1. PinnedStep /\ [Next]_vars
    BY HistoryFacts
  <2>2. TypeOK' /\ CacheInv' /\ PatchInv'
    BY <2>1, NextInv, NextPatch
  <2>3. \A v \in PV : KnownInv(v)'
    BY <2>1, NextKnown
  <2>4. \A p \in Pod, v \in PV : Uses(p, v) => PlacedInv(p, v)'
    BY <2>1, NextPlaced
  <2>5. BindInv'
    BY <2>3, <2>4 DEF BindInv, Uses
  <2>. QED
    BY <2>2, <2>5
<1>. QED
  BY <1>1, <1>2, <1>3, PTL DEF HistorySpec
=============================================================================
