----------------------- MODULE SchedulePreparerProofs -----------------------
(***************************************************************************)
(* Proofs about the schedule pump, the preparer and the pool.              *)
(***************************************************************************)
EXTENDS SchedulePreparer, TLAPS

(* The first chunks are counted in Nat, everything else starts empty.      *)
LEMMA InitType == Init => TypeOK
<1> SUFFICES ASSUME Init PROVE TypeOK
  OBVIOUS
<1>1. Preseed \in Nat
  BY PreparerAssumption DEF Preseed
<1>2. schedule_rx \in Seq(Slot) /\ Len(schedule_rx) <= ChannelCapacity
  BY PreparerAssumption DEF Init
<1>3. ready \in 0 .. NumNonces
  BY PreparerAssumption DEF Init
<1>4. /\ next_slot \in 1 .. MaxSlot + 1 /\ chunk_left \in Nat
      /\ slept_at \in Slot /\ tip \in Slot /\ current_slot \in Slot
  BY <1>1, PreparerAssumption DEF Init, Slot
<1> QED BY <1>2, <1>3, <1>4 DEF Init, TypeOK, None

(* Every action keeps the types and the channel's capacity.                *)
LEMMA StepType == TypeOK /\ [Next]_vars => TypeOK'
<1> SUFFICES ASSUME TypeOK, [Next]_vars PROVE TypeOK'
  OBVIOUS
<1>1. ASSUME PumpEntry PROVE TypeOK'
  <2>1. next_slot \in Slot /\ next_slot' \in 1 .. MaxSlot + 1
    BY <1>1, PreparerAssumption DEF PumpEntry, TypeOK, Slot
  <2>2. schedule_rx' \in Seq(Slot) /\ Len(schedule_rx') <= ChannelCapacity
    <3>1. schedule_rx \in Seq(Slot) /\ Len(schedule_rx) <= ChannelCapacity
      BY DEF TypeOK
    <3>2. schedule_rx' = TrySend(schedule_rx, next_slot)
      BY <1>1 DEF PumpEntry
    <3>3. CASE Len(schedule_rx) < ChannelCapacity
      <4>1. schedule_rx' = Append(schedule_rx, next_slot)
        BY <3>2, <3>3 DEF TrySend
      <4> QED BY <3>1, <3>3, <4>1, <2>1, PreparerAssumption
    <3>4. CASE ~(Len(schedule_rx) < ChannelCapacity)
      BY <3>1, <3>2, <3>4 DEF TrySend
    <3> QED BY <3>3, <3>4
  <2>3. chunk_left' \in Nat
    BY <1>1 DEF PumpEntry, TypeOK
  <2>4. published' \subseteq Slot /\ slept_at' \in Slot /\ gone' \subseteq Slot
    <3>1. 1 .. next_slot \subseteq Slot
      BY <2>1, PreparerAssumption DEF Slot
    <3> QED BY <1>1, <2>1, <3>1 DEF PumpEntry, TypeOK
  <2> QED BY <1>1, <2>1, <2>2, <2>3, <2>4 DEF PumpEntry, TypeOK, chain
<1>2. ASSUME PumpWakes PROVE TypeOK'
  BY <1>2, PreparerAssumption DEF PumpWakes, TypeOK, chain
<1>3. ASSUME Prepare PROVE TypeOK'
  <2>1. ASSUME NEW s \in Slot, Process(s)
        PROVE  /\ pending' \in Slot \cup {None} /\ signing' \in Slot \cup {None}
               /\ ready' \in 0 .. NumNonces /\ gone' \subseteq Slot
    <3>1. ready' \in 0 .. NumNonces
      BY <2>1, PreparerAssumption DEF Process, TypeOK
    <3> QED BY <2>1, <3>1 DEF Process, TypeOK
  <2>2. PICK s \in Slot : Process(s)
    <3>1. CASE pending # None
      BY <1>3, <3>1 DEF Prepare, TypeOK
    <3>2. CASE pending = None
      <4>1. schedule_rx \in Seq(Slot) /\ schedule_rx # <<>>
        BY <1>3, <3>2 DEF Prepare, TypeOK
      <4>2. Head(schedule_rx) \in Slot
        BY <4>1
      <4> QED BY <1>3, <3>2, <4>2 DEF Prepare
    <3> QED BY <3>1, <3>2
  <2>3. schedule_rx' \in Seq(Slot) /\ Len(schedule_rx') <= ChannelCapacity
    <3>1. schedule_rx \in Seq(Slot) /\ Len(schedule_rx) <= ChannelCapacity
      BY DEF TypeOK
    <3>2. \/ schedule_rx' = schedule_rx
          \/ schedule_rx # <<>> /\ schedule_rx' = Tail(schedule_rx)
      BY <1>3 DEF Prepare
    <3> QED BY <3>1, <3>2, PreparerAssumption
  <2>4. pending' \in Slot \cup {None} /\ signing' \in Slot \cup {None}
        /\ ready' \in 0 .. NumNonces /\ gone' \subseteq Slot
    BY <2>1, <2>2
  <2> QED BY <1>3, <2>3, <2>4 DEF Prepare, TypeOK, pump, chain
<1>4. ASSUME Insert PROVE TypeOK'
  BY <1>4 DEF None, Insert, maybe_evict, TypeOK, pump, chain
<1>5. ASSUME Idle PROVE TypeOK'
  BY <1>5 DEF Idle, maybe_evict, TypeOK, pump, chain
<1>6. ASSUME EvictTimer PROVE TypeOK'
  BY <1>6 DEF EvictTimer, TypeOK, pump, chain
<1>7. ASSUME Replenish PROVE TypeOK'
  BY <1>7, PreparerAssumption DEF Replenish, TypeOK, pump, chain
<1>8. ASSUME ChainAdvances PROVE TypeOK'
  BY <1>8, PreparerAssumption DEF Slot, ChainAdvances, TypeOK, pump
<1>9. ASSUME RefreshSlot PROVE TypeOK'
  BY <1>9, PreparerAssumption DEF Slot, RefreshSlot, TypeOK, pump
<1>10. ASSUME NEW s \in Slot, Fire(s) PROVE TypeOK'
  BY <1>10 DEF Fire, TypeOK, pump
<1>11. ASSUME Stop PROVE TypeOK'
  BY <1>11 DEF Stop, TypeOK, pump, chain
<1>12. ASSUME UNCHANGED vars PROVE TypeOK'
  BY <1>12 DEF vars, TypeOK
<1> QED
  BY <1>1, <1>2, <1>3, <1>4, <1>5, <1>6, <1>7, <1>8, <1>9, <1>10, <1>11, <1>12 DEF Next

(* Every variable of the pump, the preparer and the pool keeps its type,   *)
(* and the schedule channel its capacity.                                  *)
THEOREM TypeCorrect == Spec => []TypeOK
BY InitType, StepType, PTL DEF Spec

-----------------------------------------------------------------------------
(* A slot is in the channel once: Places alone would allow a second copy,  *)
(* which would stay behind when the first is taken.                        *)
QueueDistinct ==
  \A j, k \in 1 .. Len(schedule_rx) : j # k => schedule_rx[j] # schedule_rx[k]

(* EntryConserved, place by place.                                         *)
InOnePlace(s) ==
  /\ s < next_slot <=> \/ s \in ToSet(schedule_rx) \/ pending = s \/ signing = s
                       \/ s \in pool \/ s \in gone
  /\ s \in ToSet(schedule_rx) => pending # s /\ signing # s /\ s \notin pool /\ s \notin gone
  /\ pending = s => signing # s /\ s \notin pool /\ s \notin gone
  /\ signing = s => s \notin pool /\ s \notin gone
  /\ s \in pool => s \notin gone

Inv == QueueDistinct /\ \A s \in Slot : InOnePlace(s)

(* The set of places is a single one exactly when the slot is in one.      *)
LEMMA OnePlace == (\A s \in Slot : InOnePlace(s)) => EntryConserved
<1> SUFFICES ASSUME NEW s \in Slot, InOnePlace(s)
             PROVE  IF s < next_slot THEN \E p \in Place : Places(s) = {p} ELSE Places(s) = {}
  BY DEF EntryConserved
<1>1. /\ "queue" \in Places(s) <=> s \in ToSet(schedule_rx)
      /\ "pending" \in Places(s) <=> pending = s
      /\ "signing" \in Places(s) <=> signing = s
      /\ "pool" \in Places(s) <=> s \in pool
      /\ "gone" \in Places(s) <=> s \in gone
  BY DEF Places, Place
<1>2. Places(s) \subseteq Place
  BY DEF Places
<1>3. CASE s < next_slot
  <2>1. PICK p \in Place : p \in Places(s)
    BY <1>1, <1>3 DEF InOnePlace, Place
  <2>2. ASSUME NEW q \in Places(s) PROVE q = p
    BY <1>1, <1>2, <2>1 DEF InOnePlace, Place
  <2>3. Places(s) = {p}
    BY <2>1, <2>2
  <2> QED BY <1>3, <2>3
<1>4. CASE ~(s < next_slot)
  <2>1. ASSUME NEW q \in Places(s) PROVE FALSE
    BY <1>1, <1>2, <1>4 DEF InOnePlace, Place
  <2> QED BY <1>4, <2>1
<1> QED BY <1>3, <1>4

(* The elements of a channel, by position.                                 *)
LEMMA Elements ==
  ASSUME NEW q \in Seq(Slot), NEW y
  PROVE  y \in ToSet(q) <=> \E k \in 1 .. Len(q) : q[k] = y
BY DEF ToSet

(* What the two ends of a channel do to its elements.                      *)
LEMMA AppendNew ==
  ASSUME NEW q \in Seq(Slot), NEW x \in Slot, x \notin ToSet(q),
         \A j, k \in 1 .. Len(q) : j # k => q[j] # q[k]
  PROVE  /\ ToSet(Append(q, x)) = ToSet(q) \cup {x}
         /\ \A j, k \in 1 .. Len(Append(q, x)) :
              j # k => Append(q, x)[j] # Append(q, x)[k]
<1> DEFINE r == Append(q, x)
<1>1. /\ r \in Seq(Slot) /\ Len(r) = Len(q) + 1 /\ r[Len(q) + 1] = x /\ Len(q) \in Nat
      /\ \A k \in 1 .. Len(q) : r[k] = q[k]
  OBVIOUS
<1> HIDE DEF r
<1>2. \A k \in 1 .. Len(q) : q[k] # x
  BY Elements
<1>3. ASSUME NEW j \in 1 .. Len(r), NEW k \in 1 .. Len(r), j # k PROVE r[j] # r[k]
  <2>1. (j \in 1 .. Len(q) \/ j = Len(q) + 1) /\ (k \in 1 .. Len(q) \/ k = Len(q) + 1)
    BY <1>1
  <2> QED BY <1>1, <1>2, <1>3, <2>1
<1>4. ASSUME NEW y PROVE y \in ToSet(r) <=> y \in ToSet(q) \cup {x}
  <2>1. y \in ToSet(r) <=> \E k \in 1 .. Len(r) : r[k] = y
    BY <1>1, Elements
  <2>2. y \in ToSet(q) <=> \E k \in 1 .. Len(q) : q[k] = y
    BY Elements
  <2>3. ASSUME NEW k \in 1 .. Len(r) PROVE k \in 1 .. Len(q) \/ k = Len(q) + 1
    BY <1>1
  <2>4. 1 .. Len(q) \subseteq 1 .. Len(r) /\ Len(q) + 1 \in 1 .. Len(r)
    BY <1>1
  <2> QED BY <1>1, <2>1, <2>2, <2>3, <2>4
<1>5. ToSet(r) = ToSet(q) \cup {x}
  BY <1>4
<1> QED BY <1>3, <1>5 DEF r

(* Taking the head of a channel without repetitions removes it.            *)
LEMMA TailOld ==
  ASSUME NEW q \in Seq(Slot), q # <<>>, \A j, k \in 1 .. Len(q) : j # k => q[j] # q[k]
  PROVE  /\ Head(q) \in ToSet(q) /\ ToSet(Tail(q)) = ToSet(q) \ {Head(q)}
         /\ \A j, k \in 1 .. Len(Tail(q)) : j # k => Tail(q)[j] # Tail(q)[k]
<1> DEFINE r == Tail(q)
<1>1. /\ r \in Seq(Slot) /\ Len(q) = Len(r) + 1 /\ Head(q) = q[1] /\ Len(r) \in Nat
      /\ \A k \in 1 .. Len(r) : r[k] = q[k + 1]
  OBVIOUS
<1> HIDE DEF r
<1>2. ASSUME NEW j \in 1 .. Len(r), NEW k \in 1 .. Len(r), j # k PROVE r[j] # r[k]
  <2>1. j + 1 \in 1 .. Len(q) /\ k + 1 \in 1 .. Len(q) /\ j + 1 # k + 1
    BY <1>1, <1>2
  <2> QED BY <1>1, <2>1
<1>3. 1 \in 1 .. Len(q)
  BY <1>1
<1>4. ASSUME NEW y PROVE y \in ToSet(r) <=> y \in ToSet(q) \ {Head(q)}
  <2>1. y \in ToSet(r) <=> \E k \in 1 .. Len(r) : r[k] = y
    BY <1>1, Elements
  <2>2. y \in ToSet(q) <=> \E k \in 1 .. Len(q) : q[k] = y
    BY Elements
  <2>3. ASSUME NEW k \in 1 .. Len(r) PROVE r[k] \in ToSet(q) /\ r[k] # Head(q)
    <3>1. k + 1 \in 1 .. Len(q) /\ k + 1 # 1 /\ r[k] = q[k + 1]
      BY <1>1
    <3>2. q[k + 1] # q[1]
      BY <1>3, <3>1
    <3>3. q[k + 1] \in ToSet(q)
      BY <3>1, Elements
    <3> QED BY <1>1, <3>1, <3>2, <3>3
  <2>4. ASSUME NEW k \in 1 .. Len(q), q[k] # Head(q)
        PROVE  \E i \in 1 .. Len(r) : r[i] = q[k]
    <3>1. k # 1
      BY <1>1, <2>4
    <3>2. k - 1 \in 1 .. Len(r) /\ (k - 1) + 1 = k
      BY <1>1, <3>1
    <3>3. r[k - 1] = q[k]
      BY <1>1, <3>2
    <3> QED BY <3>2, <3>3
  <2> QED BY <2>1, <2>2, <2>3, <2>4
<1>5. ToSet(r) = ToSet(q) \ {Head(q)}
  BY <1>4
<1>6. Head(q) \in ToSet(q)
  BY <1>1, <1>3, Elements
<1> QED BY <1>2, <1>5, <1>6 DEF r

-----------------------------------------------------------------------------
(* At the start no slot was generated and every place is empty.            *)
LEMMA InitPlaces == Init => Inv
<1> SUFFICES ASSUME Init PROVE Inv
  OBVIOUS
<1>1. schedule_rx = <<>> /\ ToSet(schedule_rx) = {}
  BY DEF Init, ToSet
<1>2. QueueDistinct
  BY <1>1 DEF QueueDistinct
<1>3. ASSUME NEW s \in Slot PROVE InOnePlace(s)
  BY <1>1, PreparerAssumption DEF Init, InOnePlace, Slot, None
<1> QED BY <1>2, <1>3 DEF Inv

(* The pump's new entry was nowhere before; it is queued, or out.          *)
LEMMA StepPumpEntry == TypeOK /\ Inv /\ PumpEntry => Inv'
<1> SUFFICES ASSUME TypeOK, Inv, PumpEntry PROVE Inv'
  OBVIOUS
<1>1. /\ next_slot \in Slot /\ next_slot' = next_slot + 1
      /\ schedule_rx \in Seq(Slot) /\ QueueDistinct
      /\ pending' = pending /\ signing' = signing /\ pool' = pool
  BY PreparerAssumption DEF PumpEntry, TypeOK, Inv, Slot
<1>2. /\ next_slot \notin ToSet(schedule_rx) /\ pending # next_slot /\ signing # next_slot
      /\ next_slot \notin pool /\ next_slot \notin gone
  <2>1. InOnePlace(next_slot) /\ ~(next_slot < next_slot)
    BY <1>1 DEF Inv, Slot
  <2> QED BY <2>1 DEF InOnePlace
<1>3. ASSUME NEW s \in Slot PROVE s < next_slot' <=> s < next_slot \/ s = next_slot
  BY <1>1 DEF Slot
<1>4. CASE Len(schedule_rx) < ChannelCapacity
  <2>1. schedule_rx' = Append(schedule_rx, next_slot) /\ gone' = gone
    BY <1>4 DEF PumpEntry, TrySend
  <2>2. /\ ToSet(schedule_rx') = ToSet(schedule_rx) \cup {next_slot}
        /\ QueueDistinct'
    BY <1>1, <1>2, <2>1, AppendNew DEF QueueDistinct
  <2>3. ASSUME NEW s \in Slot PROVE InOnePlace(s)'
    <3>1. InOnePlace(s)
      BY DEF Inv
    <3>2. CASE s = next_slot
      BY <1>1, <1>2, <1>3, <2>1, <2>2, <3>2 DEF InOnePlace
    <3>3. CASE s # next_slot
      BY <1>1, <1>3, <2>1, <2>2, <3>1, <3>3 DEF InOnePlace
    <3> QED BY <3>2, <3>3
  <2> QED BY <2>2, <2>3 DEF Inv
<1>5. CASE ~(Len(schedule_rx) < ChannelCapacity)
  <2>1. schedule_rx' = schedule_rx /\ gone' = gone \cup {next_slot}
    BY <1>5 DEF PumpEntry, TrySend
  <2>2. QueueDistinct'
    BY <1>1, <2>1 DEF QueueDistinct
  <2>3. ASSUME NEW s \in Slot PROVE InOnePlace(s)'
    <3>1. InOnePlace(s)
      BY DEF Inv
    <3>2. CASE s = next_slot
      BY <1>1, <1>2, <1>3, <2>1, <3>2 DEF InOnePlace
    <3>3. CASE s # next_slot
      BY <1>1, <1>3, <2>1, <3>1, <3>3 DEF InOnePlace
    <3> QED BY <3>2, <3>3
  <2> QED BY <2>2, <2>3 DEF Inv
<1> QED BY <1>4, <1>5

(* The entry the preparer looks at comes from the stall or from the        *)
(* channel; it is given up, kept or signed.                                *)
LEMMA StepPrepare == TypeOK /\ Inv /\ Prepare => Inv'
<1> SUFFICES ASSUME TypeOK, Inv, Prepare PROVE Inv'
  OBVIOUS
<1>1. /\ schedule_rx \in Seq(Slot) /\ QueueDistinct /\ None \notin Slot
      /\ signing = None /\ next_slot' = next_slot /\ pool' = pool
  BY DEF Prepare, TypeOK, Inv, pump, Slot, None
<1>2. PICK t \in Slot :
        /\ Process(t)
        /\ \/ t = pending /\ schedule_rx' = schedule_rx
           \/ /\ pending = None /\ schedule_rx # <<>>
              /\ t = Head(schedule_rx) /\ schedule_rx' = Tail(schedule_rx)
  <2>1. CASE pending # None
    BY <2>1 DEF Prepare, TypeOK
  <2>2. CASE pending = None
    <3>1. schedule_rx # <<>>
      BY <2>2 DEF Prepare
    <3>2. Head(schedule_rx) \in Slot
      BY <1>1, <3>1
    <3> QED BY <2>2, <3>2 DEF Prepare
  <2> QED BY <2>1, <2>2
<1>3. \/ /\ gone' = gone \cup {t} /\ pending' = None /\ signing' = signing
      \/ /\ gone' = gone /\ pending' = t /\ signing' = signing
      \/ /\ gone' = gone /\ pending' = None /\ signing' = t
  BY <1>2 DEF Process
<1>4. CASE t = pending /\ schedule_rx' = schedule_rx
  <2>1. QueueDistinct'
    BY <1>1, <1>4 DEF QueueDistinct
  <2>2. ASSUME NEW s \in Slot PROVE InOnePlace(s)'
    <3>1. InOnePlace(s)
      BY DEF Inv
    <3> QED BY <1>1, <1>3, <1>4, <3>1 DEF InOnePlace
  <2> QED BY <2>1, <2>2 DEF Inv
<1>5. CASE /\ pending = None /\ schedule_rx # <<>>
           /\ t = Head(schedule_rx) /\ schedule_rx' = Tail(schedule_rx)
  <2>1. /\ t \in ToSet(schedule_rx) /\ ToSet(schedule_rx') = ToSet(schedule_rx) \ {t}
        /\ QueueDistinct'
    BY <1>1, <1>5, TailOld DEF QueueDistinct
  <2>2. ASSUME NEW s \in Slot PROVE InOnePlace(s)'
    <3>1. InOnePlace(s)
      BY DEF Inv
    <3> QED BY <1>1, <1>3, <1>5, <2>1, <3>1 DEF InOnePlace
  <2> QED BY <2>1, <2>2 DEF Inv
<1> QED BY <1>2, <1>4, <1>5

(* What the eviction takes from the pool is out.                           *)
LEMMA StepPool == TypeOK /\ Inv /\ (Insert \/ Idle \/ \E s \in Slot : Fire(s)) => Inv'
<1> SUFFICES ASSUME TypeOK, Inv, Insert \/ Idle \/ \E s \in Slot : Fire(s) PROVE Inv'
  OBVIOUS
<1>1. schedule_rx' = schedule_rx /\ next_slot' = next_slot /\ pending' = pending
  BY DEF Insert, Idle, Fire, pump
<1>2. QueueDistinct'
  BY <1>1 DEF Inv, QueueDistinct
<1>3. ASSUME NEW s \in Slot PROVE InOnePlace(s)'
  <2>1. InOnePlace(s)
    BY DEF Inv
  <2>2. CASE Insert
    <3>1. /\ signing' = None /\ None \notin Slot
          /\ (s \in pool' \/ s \in gone') <=> (s \in pool \/ signing = s \/ s \in gone)
          /\ s \in pool' => s \in pool \/ signing = s
          /\ s \in pool' /\ s \in gone' => s \in gone
      BY <2>2 DEF Insert, maybe_evict, Slot, None
    <3> QED BY <1>1, <2>1, <3>1 DEF InOnePlace
  <2>3. CASE Idle
    <3>1. /\ signing' = signing
          /\ (s \in pool' \/ s \in gone') <=> (s \in pool \/ s \in gone)
          /\ s \in pool' => s \in pool
          /\ s \in pool' /\ s \in gone' => s \in gone
      BY <2>3 DEF Idle, maybe_evict
    <3> QED BY <1>1, <2>1, <3>1 DEF InOnePlace
  <2>4. CASE \E t \in Slot : Fire(t)
    <3>1. /\ signing' = signing
          /\ (s \in pool' \/ s \in gone') <=> (s \in pool \/ s \in gone)
          /\ s \in pool' => s \in pool
          /\ s \in pool' /\ s \in gone' => s \in gone
      BY <2>4 DEF Fire
    <3> QED BY <1>1, <2>1, <3>1 DEF InOnePlace
  <2> QED BY <2>2, <2>3, <2>4
<1> QED BY <1>2, <1>3 DEF Inv

(* The other threads move no entry.                                        *)
LEMMA StepPlaces == TypeOK /\ Inv /\ [Next]_vars => Inv'
<1> SUFFICES ASSUME TypeOK, Inv, [Next]_vars PROVE Inv'
  OBVIOUS
<1>1. CASE PumpEntry \/ Prepare \/ Insert \/ Idle \/ \E s \in Slot : Fire(s)
  BY <1>1, StepPumpEntry, StepPrepare, StepPool
<1>2. CASE PumpWakes \/ EvictTimer \/ Replenish \/ ChainAdvances \/ RefreshSlot \/ Stop
           \/ UNCHANGED vars
  <2>1. UNCHANGED <<schedule_rx, next_slot, pending, signing, pool, gone>>
    BY <1>2 DEF PumpWakes, EvictTimer, Replenish, ChainAdvances, RefreshSlot, Stop, vars,
                pump, chain
  <2> QED BY <2>1 DEF Inv, QueueDistinct, InOnePlace
<1> QED BY <1>1, <1>2 DEF Next

(* No schedule entry is lost or duplicated on its way from the pump to the *)
(* pool and out of it, for any channel, chunk, lag and number of nonces.   *)
THEOREM Conserved == Spec => []EntryConserved
<1>1. TypeOK /\ Inv => EntryConserved
  BY OnePlace DEF Inv
<1> QED BY <1>1, InitType, StepType, InitPlaces, StepPlaces, PTL DEF Spec

-----------------------------------------------------------------------------
(* The main loop's copy of the slot may lag behind the chain and never     *)
(* runs ahead of it.                                                       *)
SlotLags == current_slot <= tip

LEMMA InitLag == Init => SlotLags
BY DEF Init, SlotLags

LEMMA StepLag == TypeOK /\ SlotLags /\ [Next]_vars => SlotLags'
<1> SUFFICES ASSUME TypeOK, SlotLags, [Next]_vars PROVE SlotLags'
  OBVIOUS
<1>1. current_slot \in Int /\ tip \in Int
  BY PreparerAssumption DEF TypeOK, Slot
<1>2. CASE ChainAdvances
  BY <1>1, <1>2 DEF ChainAdvances, SlotLags
<1>3. CASE RefreshSlot
  BY <1>1, <1>3 DEF RefreshSlot, SlotLags
<1>4. CASE UNCHANGED <<tip, current_slot>>
  BY <1>4 DEF SlotLags
<1>5. ChainAdvances \/ RefreshSlot \/ UNCHANGED <<tip, current_slot>>
  BY DEF Next, vars, chain, PumpEntry, PumpWakes, Prepare, Insert, Idle, EvictTimer, Replenish,
         Fire, Stop
<1> QED BY <1>2, <1>3, <1>4, <1>5

(* What the past-slot check and the eviction give up.                      *)
LEMMA GivenUpIsPast ==
  ASSUME TypeOK, SlotLags, Prepare \/ Insert \/ Idle, NEW s \in gone' \ gone
  PROVE  s < tip
<1>1. /\ current_slot \in Int /\ tip \in Int /\ current_slot <= tip /\ EvictLag \in Nat
      /\ MaxSlot \in Nat /\ pool \subseteq Slot
  BY PreparerAssumption DEF TypeOK, Slot, SlotLags
<1>2. CASE Prepare
  <2>1. s \in Slot /\ Past(s)
    <3>1. PICK e \in Slot : Process(e)
      <4>1. CASE pending # None /\ Process(pending)
        BY <4>1 DEF TypeOK
      <4>2. CASE schedule_rx # <<>> /\ Process(Head(schedule_rx))
        BY <4>2 DEF TypeOK
      <4> QED BY <1>2, <4>1, <4>2 DEF Prepare
    <3>2. Past(e) /\ gone' = gone \cup {e}
      BY <3>1 DEF Process
    <3> QED BY <3>2
  <2>2. s \in Int
    BY <2>1 DEF Slot
  <2> QED BY <1>1, <2>1, <2>2 DEF Past
<1>3. ASSUME NEW entries \in SUBSET Slot, maybe_evict(entries)
      PROVE  s < tip
  <2>1. s \in entries /\ s < current_slot - EvictLag /\ s \in Int
    <3>1. s \in entries /\ ~(s >= current_slot - EvictLag)
      BY <1>3 DEF maybe_evict
    <3>2. s \in Int
      BY <3>1 DEF Slot
    <3> QED BY <1>1, <3>1, <3>2
  <2> QED BY <1>1, <2>1
<1>4. CASE Insert
  <2>1. signing \in Slot /\ maybe_evict(pool \cup {signing})
    BY <1>4 DEF Insert, TypeOK
  <2> QED BY <1>1, <1>3, <2>1
<1>5. CASE Idle
  <2>1. maybe_evict(pool)
    BY <1>5 DEF Idle
  <2> QED BY <1>1, <1>3, <2>1
<1> QED BY <1>2, <1>4, <1>5

(* However far current_slot lags behind the chain, and whatever the lag of *)
(* the eviction, the preparer gives up no entry before its slot is past.   *)
THEOREM GivesUpOnlyPast == Spec => NothingDroppedEarly
<1>1. TypeOK /\ SlotLags /\ [Next]_vars
        => [Prepare \/ Insert \/ Idle => \A s \in gone' \ gone : s < tip]_vars
  BY GivenUpIsPast
<1>2. Spec => [](TypeOK /\ SlotLags)
  BY InitType, StepType, InitLag, StepLag, PTL DEF Spec
<1> QED BY <1>1, <1>2, PTL DEF Spec, NothingDroppedEarly

=============================================================================
