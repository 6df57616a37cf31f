------------------------- MODULE TriggerEngineProofs -------------------------
(***************************************************************************)
(* Proofs about TriggerEngine, for any windows, any number of slots and    *)
(* any stream the supervisor may emit.                                     *)
(***************************************************************************)
EXTENDS TriggerEngine, WellFoundedInduction, TLAPS

(* A fired tick is forgotten only by a compaction far above it.            *)
ForgottenIsOld ==
  \A k \in Slot \X Tick :
    fires[k] >= 1 /\ k \notin fired => k[1] + FiredWindow < last_compact

Inv == TypeOK /\ ForgottenIsOld /\ FiresOnceInWindow /\ CacheSpan /\ CacheHoldsLast

(* Nothing has fired and nothing is cached at the start.                   *)
LEMMA InitInv == Init => Inv
<1> SUFFICES ASSUME Init PROVE Inv
  OBVIOUS
<1>1. TypeOK
  <2>1. /\ phase \in [Slot -> {"new", "open", "ended"}]
        /\ last \in [Slot -> Index \cup {None}]
        /\ ticks \in [Slot -> 0 .. MaxTick]
        /\ lost \in [Slot -> BOOLEAN]
        /\ cache \in [Slot -> Index \cup {None}]
    BY EngineAssumption DEF Init
  <2>2. /\ schedule \subseteq Slot \X Tick /\ fired \subseteq schedule
        /\ last_compact \in 0 .. MaxSlot
        /\ fires \in [Slot \X Tick -> Nat]
    BY EngineAssumption DEF Init
  <2>3. pending \in BOOLEAN /\ matched \in BOOLEAN /\ computed \in {<<>>} \cup (Slot \X Index)
    BY DEF Init
  <2> QED BY <2>1, <2>2, <2>3 DEF TypeOK
<1>2. ForgottenIsOld /\ FiresOnceInWindow
  BY DEF Init, ForgottenIsOld, FiresOnceInWindow
<1>3. CacheSpan /\ CacheHoldsLast
  BY DEF Init, CacheSpan, CacheHoldsLast, Recorded
<1> QED BY <1>1, <1>2, <1>3 DEF Inv

(* The highest of some slots exists: their distances from MaxSlot have a   *)
(* minimum.                                                                *)
LEMMA HighestSlot ==
  ASSUME NEW S \in SUBSET Slot, S # {}
  PROVE  Highest(S) \in S /\ \A s \in S : s <= Highest(S)
<1> DEFINE Less == {ss \in Nat \X Nat : ss[1] < ss[2]}
           Distances == {MaxSlot - s : s \in S}
<1>1. IsWellFoundedOn(Less, Nat)
  BY NatLessThanWellFounded DEF OpToRel
<1>2. Distances \subseteq Nat /\ Distances # {}
  <2>1. \A s \in S : MaxSlot - s \in Nat
    BY EngineAssumption DEF Slot
  <2> QED BY <2>1
<1> HIDE DEF Less
<1>3. PICK d \in Distances : \A e \in Distances : <<e, d>> \notin Less
  BY <1>1, <1>2, WFMin
<1>4. PICK m \in S : d = MaxSlot - m
  BY <1>3
<1>5. ASSUME NEW s \in S PROVE s <= m
  <2>1. MaxSlot - s \in Distances
    OBVIOUS
  <2>2. ~(MaxSlot - s < MaxSlot - m)
    BY <1>2, <1>3, <1>4, <2>1 DEF Less
  <2> QED BY <2>2, EngineAssumption DEF Slot
<1> QED BY <1>4, <1>5 DEF Highest

(* What the schedule check and the compaction do to any one key.           *)
LEMMA FireStep ==
  ASSUME TypeOK, ForgottenIsOld, FiresOnceInWindow, schedule' = schedule,
         NEW s \in Slot, NEW tick \in 0 .. MaxTick, CheckSchedule(s, tick)
  PROVE  /\ fired' \subseteq schedule' /\ last_compact' \in 0 .. MaxSlot
         /\ fires' \in [Slot \X Tick -> Nat]
         /\ ForgottenIsOld' /\ FiresOnceInWindow'
<1> DEFINE key == <<s, tick>>
           hit == tick > 0 /\ key \in schedule
<1>1. hit => key \in Slot \X Tick
  BY DEF Tick
<1>2. /\ fires' = IF hit /\ key \notin fired THEN [fires EXCEPT ![key] = @ + 1] ELSE fires
      /\ last_compact' = IF s > last_compact + FiredWindow THEN s ELSE last_compact
      /\ fired' = {k \in fired \cup (IF hit THEN {key} ELSE {}) :
                     last_compact' # last_compact => k[1] >= s - FiredWindow}
  BY DEF CheckSchedule
<1>3. hit => key \in schedule
  OBVIOUS
<1> HIDE DEF key, hit
<1>4. fires \in [Slot \X Tick -> Nat] /\ last_compact \in 0 .. MaxSlot /\ fired \subseteq schedule
  BY DEF TypeOK
<1>5. fired' \subseteq schedule'
  BY <1>2, <1>3, <1>4
<1>6. last_compact' \in 0 .. MaxSlot /\ last_compact' >= last_compact
  BY <1>2, <1>4, EngineAssumption DEF Slot
<1>7. fires' \in [Slot \X Tick -> Nat]
  <2>1. CASE hit /\ key \notin fired
    <3>1. fires[key] + 1 \in Nat
      BY <1>1, <1>4, <2>1
    <3> QED BY <1>2, <1>4, <2>1, <3>1
  <2>2. CASE ~(hit /\ key \notin fired)
    BY <1>2, <1>4, <2>2
  <2> QED BY <2>1, <2>2
<1>8. ASSUME NEW k \in Slot \X Tick
      PROVE  /\ fires'[k] >= 1 /\ k \notin fired' => k[1] + FiredWindow < last_compact'
             /\ fires'[k] > 1 => k[1] + FiredWindow < last_compact'
  <2>1. fires[k] \in Nat /\ k[1] \in Nat
    BY <1>4 DEF Slot
  <2>2. /\ fires[k] >= 1 /\ k \notin fired => k[1] + FiredWindow < last_compact
        /\ fires[k] > 1 => k[1] + FiredWindow < last_compact
    BY DEF ForgottenIsOld, FiresOnceInWindow
  <2>3. fires'[k] = IF hit /\ key \notin fired /\ k = key THEN fires[k] + 1 ELSE fires[k]
    BY <1>2, <1>4
  <2>4. k \notin fired' =>
          \/ k \notin fired /\ ~(hit /\ k = key)
          \/ k[1] + FiredWindow < last_compact'
    <3>1. last_compact' # last_compact => last_compact' = s
      BY <1>2
    <3>2. ~(k[1] >= s - FiredWindow) => k[1] + FiredWindow < s
      BY <2>1, EngineAssumption DEF Slot
    <3> QED BY <1>2, <3>1, <3>2
  <2>5. fires'[k] > 1 => fires[k] > 1 \/ (fires[k] >= 1 /\ k \notin fired)
    BY <2>1, <2>3
  <2>6. fires'[k] >= 1 /\ k \notin fired' =>
          \/ fires[k] >= 1 /\ k \notin fired
          \/ k[1] + FiredWindow < last_compact'
    BY <2>1, <2>3, <2>4
  <2>7. k[1] + FiredWindow < last_compact => k[1] + FiredWindow < last_compact'
    BY <1>4, <1>6, <2>1, EngineAssumption
  <2> QED BY <2>2, <2>5, <2>6, <2>7
<1> QED BY <1>5, <1>6, <1>7, <1>8 DEF ForgottenIsOld, FiresOnceInWindow

(* What recording an entry does to the cache.                              *)
LEMMA CacheStep ==
  ASSUME cache \in [Slot -> Index \cup {None}],
         NEW s \in Slot, NEW i \in Index, record_entry(s, i)
  PROVE  /\ cache' \in [Slot -> Index \cup {None}]
         /\ CacheSpan'
         /\ \A r \in Slot : cache'[r] # None => cache'[r] = IF r = s THEN i ELSE cache[r]
<1> DEFINE top == Highest(Recorded \cup {s})
<1>1. top \in Slot /\ \A r \in Recorded \cup {s} : r <= top
  BY HighestSlot DEF Recorded
<1>2. cache' = [r \in Slot |->
                  IF r < top - CacheWindow THEN None ELSE IF r = s THEN i ELSE cache[r]]
  BY DEF record_entry
<1> HIDE DEF top
<1>3. \A r \in Slot : cache'[r] = IF r < top - CacheWindow THEN None
                                  ELSE IF r = s THEN i ELSE cache[r]
  BY <1>2
<1>4. cache' \in [Slot -> Index \cup {None}]
  BY <1>2, <1>3
<1>5. ASSUME NEW r \in Recorded', NEW u \in Recorded' PROVE r - u <= CacheWindow
  <2>1. /\ r \in Slot /\ cache'[r] # None
        /\ u \in Slot /\ cache'[u] # None
    BY DEF Recorded
  <2>2. r \in Recorded \cup {s}
    BY <1>3, <2>1 DEF Recorded
  <2>3. ~(u < top - CacheWindow)
    BY <1>3, <2>1
  <2> QED BY <1>1, <2>1, <2>2, <2>3, EngineAssumption DEF Slot
<1>6. CacheSpan'
  BY <1>5 DEF CacheSpan
<1> QED BY <1>3, <1>4, <1>6

(* Invariants that read only variables a step leaves alone.                *)
LEMMA FireUnchanged ==
  ASSUME ForgottenIsOld, FiresOnceInWindow, UNCHANGED <<fired, last_compact, fires>>
  PROVE  ForgottenIsOld' /\ FiresOnceInWindow'
BY DEF ForgottenIsOld, FiresOnceInWindow

LEMMA CacheUnchanged ==
  ASSUME CacheSpan, UNCHANGED cache
  PROVE  CacheSpan' /\ Recorded' = Recorded
BY DEF CacheSpan, Recorded

(* Publishing a trigger leaves what was fired and recorded alone.          *)
LEMMA StepPublish ==
  ASSUME Inv, NEW key \in Slot \X Tick, Publish(key)
  PROVE  Inv'
<1> USE DEF Inv
<1>1. TypeOK'
  BY DEF Publish, TypeOK
<1>2. ForgottenIsOld' /\ FiresOnceInWindow'
  BY FireUnchanged DEF Publish
<1>3. CacheSpan' /\ CacheHoldsLast'
  BY CacheUnchanged DEF Publish, CacheHoldsLast
<1> QED BY <1>1, <1>2, <1>3

(* The event variables of one emitted entry, processed or lost.            *)
LEMMA StepEntryStream ==
  ASSUME TypeOK, NEW s \in Slot, NEW i \in Index, NEW tick \in 0 .. MaxTick, Entry(s, i, tick)
  PROVE  /\ phase' \in [Slot -> {"new", "open", "ended"}]
         /\ last' \in [Slot -> Index \cup {None}]
         /\ ticks' \in [Slot -> 0 .. MaxTick]
         /\ lost' \in [Slot -> BOOLEAN]
         /\ last'[s] = i
         /\ \A r \in Slot \ {s} :
              phase'[r] = phase[r] /\ last'[r] = last[r] /\ lost'[r] = lost[r]
<1>1. /\ phase \in [Slot -> {"new", "open", "ended"}]
      /\ last \in [Slot -> Index \cup {None}]
      /\ ticks \in [Slot -> 0 .. MaxTick]
      /\ lost \in [Slot -> BOOLEAN]
  BY DEF TypeOK
<1>2. /\ phase' = [phase EXCEPT ![s] = "open"]
      /\ last' = [last EXCEPT ![s] = i]
      /\ ticks' = [ticks EXCEPT ![s] = tick]
      /\ lost' = [lost EXCEPT ![s] = FALSE] \/ lost' = [lost EXCEPT ![s] = TRUE]
  BY DEF Entry
<1>3. lost' \in [Slot -> BOOLEAN] /\ \A r \in Slot \ {s} : lost'[r] = lost[r]
  BY <1>1, <1>2
<1> QED BY <1>1, <1>2, <1>3

(* One entry of the stream, processed or lost.                             *)
LEMMA StepEntry ==
  ASSUME Inv, NEW s \in Slot, NEW i \in Index, NEW tick \in 0 .. MaxTick, Entry(s, i, tick)
  PROVE  Inv'
<1> USE DEF Inv
<1>1. schedule' = schedule /\ computed' = computed
  BY DEF Entry
<1>2. CASE lost' = [lost EXCEPT ![s] = FALSE] /\ record_entry(s, i)
           /\ CheckSchedule(s, tick) /\ MatchSignature(s, i)
  <2>1. /\ fired' \subseteq schedule' /\ last_compact' \in 0 .. MaxSlot
        /\ fires' \in [Slot \X Tick -> Nat]
        /\ ForgottenIsOld' /\ FiresOnceInWindow'
    BY <1>1, <1>2, FireStep
  <2>2. cache \in [Slot -> Index \cup {None}]
    BY DEF TypeOK
  <2>3. /\ cache' \in [Slot -> Index \cup {None}]
        /\ CacheSpan'
        /\ \A r \in Slot : cache'[r] # None => cache'[r] = IF r = s THEN i ELSE cache[r]
    BY <1>2, <2>2, CacheStep
  <2>4. pending' \in BOOLEAN /\ matched' \in BOOLEAN
    BY <1>2 DEF MatchSignature
  <2>5. TypeOK'
    <3>1. schedule \subseteq Slot \X Tick /\ computed \in {<<>>} \cup (Slot \X Index)
      BY DEF TypeOK
    <3> QED BY <1>1, <2>1, <2>3, <2>4, <3>1, StepEntryStream DEF TypeOK
  <2>6. CacheHoldsLast'
    <3> SUFFICES ASSUME NEW r \in Slot, cache'[r] # None, phase'[r] # "new", ~lost'[r]
                 PROVE  cache'[r] = last'[r]
      BY DEF CacheHoldsLast, Recorded
    <3>1. CASE r = s
      BY <2>3, <3>1, StepEntryStream
    <3>2. CASE r # s
      <4>1. cache'[r] = cache[r] /\ cache[r] # None
        BY <2>3, <3>2
      <4>2. phase'[r] = phase[r] /\ last'[r] = last[r] /\ lost'[r] = lost[r]
        BY <3>2, StepEntryStream
      <4> QED BY <4>1, <4>2 DEF CacheHoldsLast, Recorded
    <3> QED BY <3>1, <3>2
  <2> QED BY <2>1, <2>3, <2>5, <2>6
<1>3. CASE lost' = [lost EXCEPT ![s] = TRUE]
           /\ UNCHANGED <<fired, last_compact, fires, cache, pending, matched>>
  <2>1. ForgottenIsOld' /\ FiresOnceInWindow' /\ CacheSpan' /\ Recorded' = Recorded
    BY <1>3, FireUnchanged, CacheUnchanged
  <2>2. TypeOK'
    <3>1. /\ schedule \subseteq Slot \X Tick /\ fired \subseteq schedule
          /\ last_compact \in 0 .. MaxSlot /\ fires \in [Slot \X Tick -> Nat]
          /\ cache \in [Slot -> Index \cup {None}]
          /\ pending \in BOOLEAN /\ matched \in BOOLEAN
          /\ computed \in {<<>>} \cup (Slot \X Index)
      BY DEF TypeOK
    <3> QED BY <1>1, <1>3, <3>1, StepEntryStream DEF TypeOK
  <2>3. lost'[s]
    BY <1>3 DEF TypeOK
  <2>4. CacheHoldsLast'
    <3> SUFFICES ASSUME NEW r \in Recorded, phase'[r] # "new", ~lost'[r]
                 PROVE  cache[r] = last'[r]
      BY <1>3, <2>1 DEF CacheHoldsLast
    <3>1. r \in Slot \ {s}
      BY <2>3 DEF Recorded
    <3> QED BY <3>1, StepEntryStream DEF CacheHoldsLast
  <2> QED BY <2>1, <2>2, <2>4
<1> QED BY <1>2, <1>3 DEF Entry

(* The end of a slot, processed or lost.                                   *)
LEMMA StepSlotEnd ==
  ASSUME Inv, NEW s \in Slot, SlotEnd(s), last[s] \in Index
  PROVE  Inv'
<1> USE DEF Inv
<1>1. /\ phase' = [phase EXCEPT ![s] = "ended"]
      /\ UNCHANGED <<last, ticks, schedule, fired, last_compact, fires, pending, matched,
                     computed>>
      /\ phase[s] = "open"
  BY DEF SlotEnd
<1>2. /\ phase \in [Slot -> {"new", "open", "ended"}]
      /\ lost \in [Slot -> BOOLEAN]
      /\ cache \in [Slot -> Index \cup {None}]
  BY DEF TypeOK
<1>3. ForgottenIsOld' /\ FiresOnceInWindow'
  BY <1>1, FireUnchanged
<1>4. CASE lost' = [lost EXCEPT ![s] = FALSE] /\ record_entry(s, last[s])
  <2>1. /\ cache' \in [Slot -> Index \cup {None}]
        /\ CacheSpan'
        /\ \A r \in Slot : cache'[r] # None => cache'[r] = IF r = s THEN last[s] ELSE cache[r]
    BY <1>2, <1>4, CacheStep
  <2>2. TypeOK'
    BY <1>1, <1>2, <1>4, <2>1 DEF TypeOK
  <2>3. CacheHoldsLast'
    <3> SUFFICES ASSUME NEW r \in Slot, cache'[r] # None, phase'[r] # "new", ~lost'[r]
                 PROVE  cache'[r] = last[r]
      BY <1>1 DEF CacheHoldsLast, Recorded
    <3>1. CASE r = s
      BY <2>1, <3>1
    <3>2. CASE r # s
      <4>1. cache'[r] = cache[r] /\ cache[r] # None
        BY <2>1, <3>2
      <4>2. phase'[r] = phase[r] /\ lost'[r] = lost[r]
        BY <1>1, <1>2, <1>4, <3>2
      <4> QED BY <4>1, <4>2 DEF CacheHoldsLast, Recorded
    <3> QED BY <3>1, <3>2
  <2> QED BY <1>3, <2>1, <2>2, <2>3
<1>5. CASE lost' = [lost EXCEPT ![s] = TRUE] /\ UNCHANGED cache
  <2>1. CacheSpan' /\ Recorded' = Recorded
    BY <1>5, CacheUnchanged
  <2>2. TypeOK'
    BY <1>1, <1>2, <1>5 DEF TypeOK
  <2>3. CacheHoldsLast'
    <3> SUFFICES ASSUME NEW r \in Recorded, phase'[r] # "new", ~lost'[r]
                 PROVE  cache[r] = last[r]
      BY <1>1, <1>5, <2>1 DEF CacheHoldsLast
    <3>1. r \in Slot /\ r # s
      BY <1>2, <1>5 DEF Recorded
    <3>2. phase'[r] = phase[r] /\ lost'[r] = lost[r]
      BY <1>1, <1>2, <1>5, <3>1
    <3> QED BY <3>2 DEF CacheHoldsLast
  <2> QED BY <1>3, <2>1, <2>2, <2>3
<1> QED BY <1>4, <1>5 DEF SlotEnd

(* A dropped slot that starts again.                                       *)
LEMMA StepRevive ==
  ASSUME Inv, NEW s \in Slot, Revive(s)
  PROVE  Inv'
<1> USE DEF Inv
<1>1. /\ phase' = [phase EXCEPT ![s] = "new"]
      /\ last' = [last EXCEPT ![s] = None]
      /\ ticks' = [ticks EXCEPT ![s] = 0]
      /\ UNCHANGED <<lost, schedule, fired, last_compact, fires, cache, pending, matched,
                     computed>>
  BY DEF Revive
<1>2. /\ phase \in [Slot -> {"new", "open", "ended"}]
      /\ last \in [Slot -> Index \cup {None}]
      /\ ticks \in [Slot -> 0 .. MaxTick]
  BY DEF TypeOK
<1>3. TypeOK'
  <2>1. ticks' \in [Slot -> 0 .. MaxTick]
    BY <1>1, <1>2, EngineAssumption
  <2> QED BY <1>1, <1>2, <2>1 DEF TypeOK
<1>4. ForgottenIsOld' /\ FiresOnceInWindow'
  BY <1>1, FireUnchanged
<1>5. CacheSpan' /\ Recorded' = Recorded
  BY <1>1, CacheUnchanged
<1>6. CacheHoldsLast'
  <2> SUFFICES ASSUME NEW r \in Recorded, phase'[r] # "new", ~lost[r]
               PROVE  cache[r] = last'[r]
    BY <1>1, <1>5 DEF CacheHoldsLast
  <2>1. r \in Slot /\ r # s
    BY <1>1, <1>2 DEF Recorded
  <2>2. phase'[r] = phase[r] /\ last'[r] = last[r]
    BY <1>1, <1>2, <2>1
  <2> QED BY <2>2 DEF CacheHoldsLast
<1> QED BY <1>3, <1>4, <1>5, <1>6

(* The recorder's lookup changes neither the engine nor the cache.         *)
LEMMA StepComputeNext == Inv /\ ComputeNext => Inv'
<1> SUFFICES ASSUME Inv, ComputeNext PROVE Inv'
  OBVIOUS
<1> USE DEF Inv
<1>1. /\ matched' = FALSE
      /\ computed' = IF Reachable = {} THEN computed
                     ELSE <<Highest(Reachable), cache[Highest(Reachable)]>>
      /\ UNCHANGED <<phase, last, ticks, lost, schedule, fired, last_compact, fires,
                     cache, pending>>
  BY DEF ComputeNext
<1>2. computed' \in {<<>>} \cup (Slot \X Index)
  <2>1. CASE Reachable = {}
    BY <1>1, <2>1 DEF TypeOK
  <2>2. CASE Reachable # {}
    <3>1. Reachable \subseteq Slot
      BY DEF Reachable, Recorded
    <3>2. Highest(Reachable) \in Reachable
      BY <2>2, <3>1, HighestSlot
    <3>3. Highest(Reachable) \in Slot /\ cache[Highest(Reachable)] \in Index
      BY <3>1, <3>2 DEF TypeOK, Reachable, Recorded
    <3> QED BY <1>1, <2>2, <3>3
  <2> QED BY <2>1, <2>2
<1>3. TypeOK'
  BY <1>1, <1>2 DEF TypeOK
<1>4. ForgottenIsOld' /\ FiresOnceInWindow'
  BY <1>1, FireUnchanged
<1>5. CacheSpan' /\ CacheHoldsLast'
  BY <1>1, CacheUnchanged DEF CacheHoldsLast
<1> QED BY <1>3, <1>4, <1>5

(* A slot that has started has emitted an entry.                           *)
OpenHasLast == \A s \in Slot : phase[s] = "open" => last[s] \in Index

(* A slot is open only after an entry.                                     *)
LEMMA StepOpenHasLast == TypeOK /\ OpenHasLast /\ [Next]_vars => OpenHasLast'
<1> SUFFICES ASSUME TypeOK, OpenHasLast, [Next]_vars PROVE OpenHasLast'
  OBVIOUS
<1>1. ASSUME NEW s \in Slot, NEW i \in Index, NEW tick \in 0 .. MaxTick, Entry(s, i, tick)
      PROVE  OpenHasLast'
  BY <1>1, StepEntryStream DEF OpenHasLast
<1>2. ASSUME NEW s \in Slot, SlotEnd(s) PROVE OpenHasLast'
  BY <1>2 DEF SlotEnd, OpenHasLast, TypeOK
<1>3. ASSUME NEW s \in Slot, Revive(s) PROVE OpenHasLast'
  BY <1>3 DEF Revive, OpenHasLast, TypeOK
<1>4. CASE UNCHANGED <<phase, last>>
  BY <1>4 DEF OpenHasLast
<1> QED BY <1>1, <1>2, <1>3, <1>4 DEF Next, Publish, ComputeNext, vars

(* Every action of the engine and of its input keeps the invariant.        *)
LEMMA StepInv == Inv /\ OpenHasLast /\ [Next]_vars => Inv' /\ OpenHasLast'
<1> SUFFICES ASSUME Inv, OpenHasLast, [Next]_vars PROVE Inv' /\ OpenHasLast'
  OBVIOUS
<1>1. OpenHasLast'
  BY StepOpenHasLast DEF Inv
<1>2. ASSUME NEW s \in Slot, SlotEnd(s) PROVE Inv'
  <2>1. last[s] \in Index
    BY <1>2 DEF SlotEnd, OpenHasLast
  <2> QED BY <1>2, <2>1, StepSlotEnd
<1>3. ASSUME NEW key \in Slot \X Tick, Publish(key) PROVE Inv'
  BY <1>3, StepPublish
<1>4. ASSUME NEW s \in Slot, NEW i \in Index, NEW tick \in 0 .. MaxTick, Entry(s, i, tick)
      PROVE  Inv'
  BY <1>4, StepEntry
<1>5. ASSUME NEW s \in Slot, Revive(s) PROVE Inv'
  BY <1>5, StepRevive
<1>6. ASSUME ComputeNext PROVE Inv'
  BY <1>6, StepComputeNext
<1>7. ASSUME UNCHANGED vars PROVE Inv'
  <2>1. /\ UNCHANGED <<phase, last, ticks, lost, schedule, fired>>
        /\ UNCHANGED <<last_compact, fires, cache, pending, matched, computed>>
    BY <1>7 DEF vars
  <2>2. TypeOK'
    BY <2>1 DEF Inv, TypeOK
  <2>3. ForgottenIsOld' /\ FiresOnceInWindow'
    BY <2>1, FireUnchanged DEF Inv
  <2>4. CacheSpan' /\ Recorded' = Recorded
    BY <2>1, CacheUnchanged DEF Inv
  <2>5. CacheHoldsLast'
    BY <2>1, <2>4 DEF Inv, CacheHoldsLast
  <2> QED BY <2>2, <2>3, <2>4, <2>5 DEF Inv
<1>8. Inv'
  <2>1. CASE Next
    BY <1>2, <1>3, <1>4, <1>5, <1>6, <2>1 DEF Next
  <2> QED BY <1>7, <2>1
<1> QED BY <1>1, <1>8

(* The engine's inductive invariant holds in every reachable state.        *)
THEOREM Invariant == Spec => [](Inv /\ OpenHasLast)
<1>1. Init => Inv /\ OpenHasLast
  BY InitInv DEF Init, OpenHasLast
<1> QED BY <1>1, StepInv, PTL DEF Spec

(* The engine's state, the cache and the computed value keep their types.  *)
THEOREM TypeCorrect == Spec => []TypeOK
<1>1. Inv => TypeOK
  BY DEF Inv
<1> QED BY <1>1, Invariant, PTL

(* No scheduled tick fires twice unless the engine has since compacted at  *)
(* a slot more than the window above it.                                   *)
THEOREM FiresOnce == Spec => []FiresOnceInWindow
<1>1. Inv => FiresOnceInWindow
  BY DEF Inv
<1> QED BY <1>1, Invariant, PTL

(* The slot-hash cache never spans more slots than its window.             *)
THEOREM CacheBounded == Spec => []CacheSpan
<1>1. Inv => CacheSpan
  BY DEF Inv
<1> QED BY <1>1, Invariant, PTL

(* A recorded hash is that of the last entry emitted for its slot, unless  *)
(* the very last event of the slot was lost.                               *)
THEOREM CacheLast == Spec => []CacheHoldsLast
<1>1. Inv => CacheHoldsLast
  BY DEF Inv
<1> QED BY <1>1, Invariant, PTL

=============================================================================
