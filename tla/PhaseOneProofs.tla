----------------------------- MODULE PhaseOneProofs -----------------------------
(***************************************************************************)
(* Proofs about the first phase of the bench.  First the entry merger, for *)
(* any window, channel capacity and set of hashes, and for streams of any  *)
(* length; then a source with its warm-up gate and its ordering tracker,   *)
(* for any slots and batches, any seal lag and eviction bound and any      *)
(* number of messages and reconnects.  The two share no variable.          *)
(***************************************************************************)
EXTENDS EntryMerger, Phase1Observe, FiniteSetTheorems, TLAPS

(* The dedup map forgets a key it has passed on only outside the window:   *)
(* what makes OnceInWindow inductive.                                      *)
ForgottenIsOld ==
  \A k \in Key :
    sent[k] >= 1 /\ state[k] = "Vacant" => k[1] + DEDUP_WINDOW_SLOTS < max_slot

Inv == TypeOK /\ IndexMatchesMap /\ ForgottenIsOld /\ OnceInWindow

(* Before the first observation the map, its index and the history agree.  *)
LEMMA InitInv == Init => Inv
<1> SUFFICES ASSUME Init PROVE Inv
  OBVIOUS
<1>1. TypeOK
  BY MergerAssumption DEF Init, TypeOK, Slot, DedupState
<1>2. IndexMatchesMap
  <2>1. \A k \in Key : k[1] \in Slot
    BY DEF Key
  <2> QED BY <2>1 DEF Init, IndexMatchesMap
<1>3. ForgottenIsOld /\ OnceInWindow
  BY DEF Init, ForgottenIsOld, OnceInWindow
<1> QED BY <1>1, <1>2, <1>3 DEF Inv

(* The slot and the hash of a key. *)
LEMMA KeyParts ==
  ASSUME NEW k \in Key
  PROVE  k[1] \in Slot /\ k[2] \in Hashes /\ k = <<k[1], k[2]>>
BY DEF Key

(* What is evicted is below the window of the new highest slot. *)
LEMMA ExpiredIsOld ==
  ASSUME NEW m \in Slot, NEW s \in Expired(m)
  PROVE  s \in Slot /\ s + DEDUP_WINDOW_SLOTS < m
BY MergerAssumption DEF Expired, Slot

(* The supervisor's end of the channel. *)
LEMMA StepConsume == TypeOK /\ Consume => TypeOK'
<1> SUFFICES ASSUME TypeOK, Consume PROVE TypeOK'
  OBVIOUS
<1>1. out' \in Seq(Observation) /\ Len(out') <= ChannelCapacity
  <2>1. out \in Seq(Observation) /\ out # <<>> /\ Len(out) <= ChannelCapacity
    BY DEF TypeOK, Consume
  <2>2. out' = Tail(out)
    BY DEF Consume
  <2> QED BY <2>1, <2>2, MergerAssumption
<1> QED BY <1>1 DEF TypeOK, Consume

(* process keeps the types, and keeps the channel within its capacity. *)
LEMMA StepReceiveType ==
  ASSUME TypeOK, NEW sender \in Source, NEW k \in Key, Receive(sender, k)
  PROVE  TypeOK'
<1> USE KeyParts
<1>1. max_slot' \in Slot
  BY DEF TypeOK, Receive, process
<1>2. state' \in [Key -> DedupState]
  <2>1. Mark(sender, k) \in DedupState
    BY DEF Mark, TypeOK, DedupState, Source
  <2>2. [state EXCEPT ![k] = Mark(sender, k)] \in [Key -> DedupState]
    BY <2>1 DEF TypeOK
  <2> QED BY <2>2 DEF Receive, process, Forget, DedupState
<1>3. slot_index' \in [Slot -> SUBSET Hashes]
  <2> DEFINE indexed == IF state[k] = "Vacant"
                        THEN [slot_index EXCEPT ![k[1]] = @ \cup {k[2]}]
                        ELSE slot_index
  <2>1. indexed \in [Slot -> SUBSET Hashes]
    BY DEF TypeOK
  <2>2. slot_index' = [s \in Slot |-> IF s \in Expired(max_slot') THEN {} ELSE indexed[s]]
    BY DEF Receive, process
  <2> HIDE DEF indexed
  <2> QED BY <2>1, <2>2
<1>4. sent' \in [Key -> Nat]
  <2>1. sent \in [Key -> Nat] /\ sent[k] + 1 \in Nat
    BY DEF TypeOK
  <2>2. sent' = [sent EXCEPT ![k] = sent[k] + 1] \/ sent' = sent
    BY DEF Receive, process
  <2> QED BY <2>1, <2>2
<1>5. out' \in Seq(Observation) /\ Len(out') <= ChannelCapacity
  <2> DEFINE seen == Sighting(sender, k)
  <2>1. seen \in Observation
    BY DEF Sighting, Observation
  <2>2. out \in Seq(Observation) /\ Len(out) <= ChannelCapacity
    BY DEF TypeOK
  <2>3. out' = out \/ (out' = Append(out, seen) /\ Len(out) < ChannelCapacity)
    BY DEF Receive, process, TrySend
  <2> HIDE DEF seen
  <2>4. CASE out' = out
    BY <2>2, <2>4
  <2>5. CASE out' = Append(out, seen) /\ Len(out) < ChannelCapacity
    <3>1. Append(out, seen) \in Seq(Observation) /\ Len(Append(out, seen)) = Len(out) + 1
      BY <2>1, <2>2
    <3> QED BY <2>2, <2>5, <3>1, MergerAssumption
  <2> QED BY <2>3, <2>4, <2>5
<1>6. received' \in Nat
  BY DEF TypeOK, Receive
<1>7. running' \in BOOLEAN
  BY DEF TypeOK, Receive
<1> QED BY <1>1, <1>2, <1>3, <1>4, <1>5, <1>6, <1>7 DEF TypeOK

(* One step of process seen from any one key j. *)
LEMMA StepKey ==
  ASSUME TypeOK, NEW sender \in Source, NEW k \in Key, Receive(sender, k), NEW j \in Key
  PROVE  /\ max_slot' >= max_slot
         /\ state'[j] = IF j[1] \in Expired(max_slot') THEN "Vacant"
                        ELSE IF j = k THEN Mark(sender, k) ELSE state[j]
         /\ slot_index'[j[1]] =
              IF j[1] \in Expired(max_slot') THEN {}
              ELSE IF j[1] = k[1] /\ state[k] = "Vacant" THEN slot_index[j[1]] \cup {k[2]}
              ELSE slot_index[j[1]]
         /\ sent'[j] = IF j = k /\ state[k] = "Vacant" THEN sent[j] + 1 ELSE sent[j]
<1> USE KeyParts
<1>1. max_slot' >= max_slot
  BY DEF TypeOK, Receive, process, Slot
<1>2. state'[j] = IF j[1] \in Expired(max_slot') THEN "Vacant"
                  ELSE IF j = k THEN Mark(sender, k) ELSE state[j]
  BY DEF TypeOK, Receive, process, Forget
<1>3. slot_index'[j[1]] =
        IF j[1] \in Expired(max_slot') THEN {}
        ELSE IF j[1] = k[1] /\ state[k] = "Vacant" THEN slot_index[j[1]] \cup {k[2]}
        ELSE slot_index[j[1]]
  BY DEF TypeOK, Receive, process
<1>4. sent'[j] = IF j = k /\ state[k] = "Vacant" THEN sent[j] + 1 ELSE sent[j]
  BY DEF TypeOK, Receive, process
<1> QED BY <1>1, <1>2, <1>3, <1>4

(* The map and its index move together. *)
LEMMA StepReceiveIndex ==
  ASSUME TypeOK, IndexMatchesMap, NEW sender \in Source, NEW k \in Key, Receive(sender, k)
  PROVE  IndexMatchesMap'
<1> SUFFICES ASSUME NEW j \in Key
             PROVE  j[2] \in slot_index'[j[1]] <=> state'[j] # "Vacant"
  BY DEF IndexMatchesMap
<1>1. j[2] \in slot_index[j[1]] <=> state[j] # "Vacant"
  BY DEF IndexMatchesMap
<1>2. Mark(sender, k) # "Vacant"
  BY DEF Mark, Source
<1>3. j[1] = k[1] /\ j[2] = k[2] <=> j = k
  BY KeyParts
<1>4. k[2] \in slot_index[k[1]] <=> state[k] # "Vacant"
  BY DEF IndexMatchesMap
<1> DEFINE expired == j[1] \in Expired(max_slot')
<1>7. /\ state'[j] = IF expired THEN "Vacant"
                      ELSE IF j = k THEN Mark(sender, k) ELSE state[j]
      /\ slot_index'[j[1]] =
           IF expired THEN {}
           ELSE IF j[1] = k[1] /\ state[k] = "Vacant" THEN slot_index[j[1]] \cup {k[2]}
           ELSE slot_index[j[1]]
  BY StepKey
<1> HIDE DEF expired
<1>5. CASE expired
  BY <1>5, <1>7
<1>6. CASE ~expired
  <2>1. state'[j] = IF j = k THEN Mark(sender, k) ELSE state[j]
    BY <1>6, <1>7
  <2>2. slot_index'[j[1]] = IF j[1] = k[1] /\ state[k] = "Vacant"
                            THEN slot_index[j[1]] \cup {k[2]} ELSE slot_index[j[1]]
    BY <1>6, <1>7
  <2>3. CASE j = k
    BY <1>2, <1>4, <2>1, <2>2, <2>3
  <2>4. CASE j # k
    BY <1>1, <1>3, <2>1, <2>2, <2>4
  <2> QED BY <2>3, <2>4
<1> QED BY <1>5, <1>6

(* A key is passed on again only after it was forgotten, and forgotten     *)
(* only outside the window.                                                *)
LEMMA StepReceiveOnce ==
  ASSUME TypeOK, ForgottenIsOld, OnceInWindow,
         NEW sender \in Source, NEW k \in Key, Receive(sender, k)
  PROVE  ForgottenIsOld' /\ OnceInWindow'
<1> SUFFICES ASSUME NEW j \in Key
             PROVE  /\ sent'[j] >= 1 /\ state'[j] = "Vacant"
                         => j[1] + DEDUP_WINDOW_SLOTS < max_slot'
                    /\ sent'[j] > 1 => j[1] + DEDUP_WINDOW_SLOTS < max_slot'
  BY DEF ForgottenIsOld, OnceInWindow
<1>8. /\ max_slot' >= max_slot
      /\ state'[j] = IF j[1] \in Expired(max_slot') THEN "Vacant"
                     ELSE IF j = k THEN Mark(sender, k) ELSE state[j]
      /\ slot_index'[j[1]] =
           IF j[1] \in Expired(max_slot') THEN {}
           ELSE IF j[1] = k[1] /\ state[k] = "Vacant" THEN slot_index[j[1]] \cup {k[2]}
           ELSE slot_index[j[1]]
      /\ sent'[j] = IF j = k /\ state[k] = "Vacant" THEN sent[j] + 1 ELSE sent[j]
  BY StepKey
<1>7. Mark(sender, k) # "Vacant"
  BY DEF Mark, Source
<1>1. /\ sent[j] >= 1 /\ state[j] = "Vacant" => j[1] + DEDUP_WINDOW_SLOTS < max_slot
      /\ sent[j] > 1 => j[1] + DEDUP_WINDOW_SLOTS < max_slot
  BY DEF ForgottenIsOld, OnceInWindow
<1>2. max_slot \in Nat /\ max_slot' \in Slot /\ max_slot' \in Nat /\ j[1] \in Nat /\ sent[j] \in Nat
  BY StepReceiveType, KeyParts DEF TypeOK, Slot
<1>3. max_slot' >= max_slot
  BY <1>8
<1>6. sent'[j] = IF j = k /\ state[k] = "Vacant" THEN sent[j] + 1 ELSE sent[j]
  BY <1>8
<1>4. ASSUME sent'[j] >= 1, state'[j] = "Vacant"
      PROVE  j[1] + DEDUP_WINDOW_SLOTS < max_slot'
  <2>1. CASE j[1] \in Expired(max_slot')
    BY <1>2, <2>1, ExpiredIsOld
  <2>2. CASE j[1] \notin Expired(max_slot')
    <3>1. state'[j] = IF j = k THEN Mark(sender, k) ELSE state[j]
      BY <1>8, <2>2
    <3>2. state[j] = "Vacant" /\ sent[j] >= 1
      BY <1>4, <1>6, <1>7, <3>1
    <3>3. j[1] + DEDUP_WINDOW_SLOTS < max_slot
      BY <1>1, <3>2
    <3> QED BY <1>2, <1>3, <3>3, MergerAssumption
  <2> QED BY <2>1, <2>2
<1>5. ASSUME sent'[j] > 1
      PROVE  j[1] + DEDUP_WINDOW_SLOTS < max_slot'
  <2>1. sent[j] > 1 \/ (state[j] = "Vacant" /\ sent[j] >= 1)
    BY <1>2, <1>5, <1>6
  <2> QED BY <1>1, <1>2, <1>3, <2>1, MergerAssumption
<1> QED BY <1>4, <1>5

(* Every action of the merger keeps the invariant.                         *)
LEMMA StepInv == Inv /\ [Next]_vars => Inv'
<1> SUFFICES ASSUME Inv, [Next]_vars PROVE Inv'
  OBVIOUS
<1> USE DEF Inv
<1>1. CASE Consume
  <2>1. TypeOK'
    BY <1>1, StepConsume
  <2>2. IndexMatchesMap' /\ ForgottenIsOld' /\ OnceInWindow'
    BY <1>1 DEF Consume, IndexMatchesMap, ForgottenIsOld, OnceInWindow
  <2> QED BY <2>1, <2>2
<1>2. ASSUME NEW sender \in Source, NEW k \in Key, Receive(sender, k) PROVE Inv'
  BY <1>2, StepReceiveType, StepReceiveIndex, StepReceiveOnce
<1>3. CASE Exit
  BY <1>3 DEF Exit, TypeOK, IndexMatchesMap, ForgottenIsOld, OnceInWindow
<1>4. CASE UNCHANGED vars
  BY <1>4 DEF vars, TypeOK, IndexMatchesMap, ForgottenIsOld, OnceInWindow
<1> QED BY <1>1, <1>2, <1>3, <1>4 DEF Next

(* Inv holds in every reachable state of the merger.                       *)
THEOREM Invariant == Spec => []Inv
BY InitInv, StepInv, PTL DEF Spec

(* Whatever the two sources send, the merger's state keeps its types and   *)
(* out_tx never exceeds its capacity.                                      *)
THEOREM TypeCorrect == Spec => []TypeOK
<1>1. Inv => TypeOK
  BY DEF Inv
<1> QED BY <1>1, Invariant, PTL

(* An entry reaches out_tx once, unless the merger has meanwhile seen a    *)
(* slot more than the dedup window ahead of it.                            *)
THEOREM SentOnceInWindow == Spec => []OnceInWindow
<1>1. Inv => OnceInWindow
  BY DEF Inv
<1> QED BY <1>1, Invariant, PTL

(* Every key of the dedup map is indexed under its slot and nothing else   *)
(* is: the map can always be evicted.                                      *)
THEOREM IndexAgrees == Spec => []IndexMatchesMap
<1>1. Inv => IndexMatchesMap
  BY DEF Inv
<1> QED BY <1>1, Invariant, PTL

-----------------------------------------------------------------------------
(***************************************************************************)
(* The source, the warm-up gate and the ordering tracker.                  *)
(***************************************************************************)

(* m is the highest of a set of naturals.                                  *)
Tops(m, S) == S \subseteq Nat /\ m \in S /\ \A y \in S : y <= m

LEMMA TopIsMax ==
  ASSUME NEW S, NEW m, Tops(m, S)
  PROVE  Max(S) = m /\ m \in Nat
<1>1. m \in S /\ \A y \in S : m >= y
  BY DEF Tops
<1>2. Max(S) \in S /\ \A y \in S : Max(S) >= y
  BY <1>1 DEF Max
<1>3. m \in Nat /\ Max(S) \in Nat
  BY <1>1, <1>2 DEF Tops
<1>4. m >= Max(S) /\ Max(S) >= m
  BY <1>1, <1>2
<1> QED BY <1>3, <1>4

LEMMA TopAdd ==
  ASSUME NEW S, NEW m, Tops(m, S), NEW x \in Nat
  PROVE  Tops(IF x > m THEN x ELSE m, S \cup {x})
BY DEF Tops

(* What TrueReport counts of a slot's observations.                        *)
Indices(arr, n) == {0} \cup {arr[i].entry_index : i \in 1 .. n}
Late(arr) == {i \in DOMAIN arr : arr[i].entry_index < Highest(arr, i)}
Gaps(arr) == {0} \cup {Highest(arr, i) - arr[i].entry_index : i \in Late(arr)}

SlotProgress ==
  [seen_indices : SUBSET Nat, max_index_at_arrival : Nat, out_of_order : Nat,
   max_backward_gap : Nat, last_entry : [index : Nat, tx_count : Nat]]

(* The last entry is that of the first observation of the highest index;   *)
(* none while that is zero.                                                *)
FirstWith(arr, i, top) ==
  /\ arr[i].entry_index = top
  /\ \A j \in DOMAIN arr : j < i => arr[j].entry_index # top
LastMatches(top, txs, arr) ==
  /\ top = 0 => txs = 0
  /\ top > 0 => \E i \in DOMAIN arr : FirstWith(arr, i, top) /\ txs = arr[i].tx_count

(* A slot's progress holds what is true of the slot's observations.        *)
Matches(p, arr) ==
  /\ p \in SlotProgress
  /\ p.seen_indices = {arr[i].entry_index : i \in DOMAIN arr}
  /\ Tops(p.max_index_at_arrival, Indices(arr, Len(arr)))
  /\ p.last_entry.index = p.max_index_at_arrival
  /\ LastMatches(p.max_index_at_arrival, p.last_entry.tx_count, arr)
  /\ p.out_of_order = Cardinality(Late(arr))
  /\ Tops(p.max_backward_gap, Gaps(arr))

LEMMA NewMatches == Matches(NewProgress, <<>>)
<1>1. DOMAIN <<>> = {} /\ Len(<<>>) = 0
  OBVIOUS
<1>2. Late(<<>>) = {}
  BY <1>1 DEF Late
<1>3. Indices(<<>>, 0) = {0} /\ Gaps(<<>>) = {0}
  BY <1>2 DEF Indices, Gaps
<1>4. Tops(0, {0})
  BY DEF Tops
<1>5. Cardinality({}) = 0
  BY FS_EmptySet
<1>6. {<<>>[i].entry_index : i \in DOMAIN <<>>} = {}
  BY <1>1
<1>7. NewProgress \in SlotProgress
  BY DEF NewProgress, SlotProgress
<1>8. LastMatches(0, 0, <<>>)
  BY DEF LastMatches
<1> QED BY <1>1, <1>2, <1>3, <1>4, <1>5, <1>6, <1>7, <1>8 DEF Matches, NewProgress

(* The observation of a new highest index is the first of it.              *)
LEMMA LastAppend ==
  ASSUME NEW arr \in Seq(EntryObservation), NEW obs \in EntryObservation,
         NEW top \in Nat, NEW txs, LastMatches(top, txs, arr),
         Tops(top, Indices(arr, Len(arr)))
  PROVE  LET x == obs.entry_index IN
         LastMatches(IF x > top THEN x ELSE top, IF x > top THEN obs.tx_count ELSE txs,
                     Append(arr, obs))
<1> DEFINE new == Append(arr, obs)
           n == Len(arr)
           x == obs.entry_index
<1>1. /\ n \in Nat /\ DOMAIN arr = 1 .. n /\ DOMAIN new = 1 .. n + 1
      /\ \A i \in 1 .. n : new[i] = arr[i]
      /\ new[n + 1] = obs
  OBVIOUS
<1>2. x \in Nat
  BY DEF EntryObservation
<1>3. \A i \in 1 .. n : arr[i].entry_index \in Nat /\ arr[i].entry_index <= top
  BY DEF Tops, Indices
<1> HIDE DEF new, n, x
<1>4. CASE x > top
  <2>1. FirstWith(new, n + 1, x)
    <3>1. \A j \in 1 .. n + 1 : j < n + 1 => j \in 1 .. n
      BY <1>1
    <3>2. \A j \in 1 .. n : new[j].entry_index # x
      BY <1>1, <1>2, <1>3, <1>4
    <3> QED BY <1>1, <3>1, <3>2 DEF FirstWith, x
  <2>2. n + 1 \in DOMAIN new /\ obs.tx_count = new[n + 1].tx_count /\ ~(x = 0)
    BY <1>1, <1>2, <1>4
  <2> QED BY <1>4, <2>1, <2>2 DEF LastMatches, new, x
<1>5. CASE ~(x > top)
  <2>1. ASSUME top > 0
        PROVE  \E i \in DOMAIN new : FirstWith(new, i, top) /\ txs = new[i].tx_count
    <3>1. PICK i \in 1 .. n : FirstWith(arr, i, top) /\ txs = arr[i].tx_count
      BY <1>1, <2>1 DEF LastMatches
    <3>2. i \in DOMAIN new /\ new[i] = arr[i]
      BY <1>1
    <3>3. \A j \in 1 .. n + 1 : j < i => j \in 1 .. n
      BY <1>1, <3>1
    <3>4. FirstWith(new, i, top)
      BY <1>1, <3>1, <3>2, <3>3 DEF FirstWith
    <3> QED BY <3>1, <3>2, <3>4
  <2> QED BY <1>5, <2>1 DEF LastMatches, new, x
<1> QED BY <1>4, <1>5

LEMMA ProgressMatches ==
  ASSUME NEW arr \in Seq(EntryObservation), NEW p, Matches(p, arr),
         NEW obs \in EntryObservation
  PROVE  Matches(Progress(p, obs), Append(arr, obs))
<1> DEFINE new == Append(arr, obs)
           n == Len(arr)
           x == obs.entry_index
           top == p.max_index_at_arrival
           q == Progress(p, obs)
<1>1. /\ n \in Nat /\ Len(new) = n + 1
      /\ DOMAIN arr = 1 .. n /\ DOMAIN new = 1 .. n + 1
      /\ \A i \in 1 .. n : new[i] = arr[i]
      /\ new[n + 1] = obs
  OBVIOUS
<1>2. /\ x \in Nat /\ obs.tx_count \in Nat
      /\ \A i \in 1 .. n : arr[i] \in EntryObservation /\ arr[i].entry_index \in Nat
  <2>1. \A i \in 1 .. n : arr[i] \in EntryObservation
    BY <1>1
  <2>2. \A o \in EntryObservation : o.entry_index \in Nat /\ o.tx_count \in Nat
    BY DEF EntryObservation
  <2> QED BY <2>1, <2>2
<1>3. p \in SlotProgress /\ top \in Nat /\ p.max_backward_gap \in Nat
  BY DEF Matches, SlotProgress
<1> HIDE DEF new, n, x
<1>4. ASSUME NEW i \in 1 .. n PROVE Highest(new, i) = Highest(arr, i)
  <2>1. \A j \in 1 .. i : new[j] = arr[j]
    BY <1>1
  <2>2. {new[j].entry_index : j \in 1 .. i} = {arr[j].entry_index : j \in 1 .. i}
    BY <2>1
  <2> QED BY <2>2 DEF Highest
<1>5. Indices(new, n + 1) = Indices(arr, n) \cup {x}
  <2>1. \A j \in 1 .. n : new[j].entry_index = arr[j].entry_index
    BY <1>1
  <2>2. new[n + 1].entry_index = x
    BY <1>1 DEF x
  <2>3. 1 .. n + 1 = (1 .. n) \cup {n + 1}
    BY <1>1
  <2> QED BY <2>1, <2>2, <2>3 DEF Indices
<1>6. Tops(top, Indices(arr, n))
  BY DEF Matches, n
<1>7. Tops(IF x > top THEN x ELSE top, Indices(new, n + 1))
  <2>1. Tops(IF x > top THEN x ELSE top, Indices(arr, n) \cup {x})
    <3> HIDE DEF top
    <3> QED BY <1>2, <1>6, TopAdd
  <2> QED BY <1>5, <2>1
<1>8. Highest(new, n + 1) = IF x > top THEN x ELSE top
  <2>1. Highest(new, n + 1) = Max(Indices(new, n + 1))
    BY DEF Highest, Indices
  <2> QED BY <1>7, <2>1, TopIsMax
<1>9. Late(new) = IF x < top THEN Late(arr) \cup {n + 1} ELSE Late(arr)
  <2>1. \A i \in 1 .. n : i \in Late(new) <=> i \in Late(arr)
    BY <1>1, <1>4 DEF Late
  <2>2. n + 1 \in Late(new) <=> x < top
    BY <1>1, <1>2, <1>3, <1>8 DEF Late, x
  <2>3. Late(new) \subseteq 1 .. n + 1 /\ Late(arr) \subseteq 1 .. n
    BY <1>1 DEF Late
  <2>4. n + 1 \notin 1 .. n /\ (1 .. n + 1) = (1 .. n) \cup {n + 1}
    BY <1>1
  <2> DEFINE A == Late(new)
             B == Late(arr)
  <2> HIDE DEF A, B
  <2>5. A = IF x < top THEN B \cup {n + 1} ELSE B
    <3>1. \A i : i \in A <=> (i \in B \/ (i = n + 1 /\ x < top))
      BY <2>1, <2>2, <2>3, <2>4 DEF A, B
    <3>2. CASE x < top
      BY <3>1, <3>2
    <3>3. CASE ~(x < top)
      BY <3>1, <3>3
    <3> QED BY <3>2, <3>3
  <2> QED BY <2>5 DEF A, B
<1>10. IsFiniteSet(Late(arr)) /\ n + 1 \notin Late(arr) /\ Late(arr) \subseteq 1 .. n
  <2>1. IsFiniteSet(1 .. n)
    BY <1>1, FS_Interval
  <2>2. Late(arr) \in SUBSET (1 .. n)
    BY <1>1 DEF Late
  <2> QED BY <1>1, <2>1, <2>2, FS_Subset
<1>11. Cardinality(Late(new)) = IF x < top THEN p.out_of_order + 1 ELSE p.out_of_order
  <2>1. p.out_of_order = Cardinality(Late(arr))
    BY DEF Matches
  <2> QED BY <1>9, <1>10, <2>1, FS_AddElement
<1>12. Gaps(new) = IF x < top THEN Gaps(arr) \cup {top - x} ELSE Gaps(arr)
  <2>1. \A i \in Late(arr) : /\ Highest(new, i) = Highest(arr, i)
                             /\ new[i].entry_index = arr[i].entry_index
    BY <1>1, <1>4, <1>10
  <2>2. {Highest(new, i) - new[i].entry_index : i \in Late(arr)}
          = {Highest(arr, i) - arr[i].entry_index : i \in Late(arr)}
    BY <2>1
  <2>3. CASE x < top
    <3>1. Highest(new, n + 1) - new[n + 1].entry_index = top - x
      BY <1>1, <1>2, <1>3, <1>8, <2>3 DEF x
    <3>2. Late(new) = Late(arr) \cup {n + 1}
      BY <1>9, <2>3
    <3> QED BY <2>2, <2>3, <3>1, <3>2 DEF Gaps
  <2>4. CASE ~(x < top)
    BY <1>9, <2>2, <2>4 DEF Gaps
  <2> QED BY <2>3, <2>4
<1>13. {new[i].entry_index : i \in DOMAIN new} = p.seen_indices \cup {x}
  <2>1. p.seen_indices = {arr[i].entry_index : i \in 1 .. n}
    BY <1>1 DEF Matches
  <2>2. \A j \in 1 .. n : new[j].entry_index = arr[j].entry_index
    BY <1>1
  <2>3. new[n + 1].entry_index = x
    BY <1>1 DEF x
  <2>4. DOMAIN new = (1 .. n) \cup {n + 1}
    BY <1>1
  <2> QED BY <2>1, <2>2, <2>3, <2>4
<1>14. Tops(p.max_backward_gap, Gaps(arr)) /\ p.last_entry.index = top
  BY DEF Matches
<1> DEFINE gap == top - x
<1>15. /\ q.seen_indices = p.seen_indices \cup {x}
       /\ q.max_index_at_arrival = IF gap < 0 THEN x ELSE top
       /\ q.out_of_order = IF gap > 0 THEN p.out_of_order + 1 ELSE p.out_of_order
       /\ q.max_backward_gap = IF gap > p.max_backward_gap THEN gap ELSE p.max_backward_gap
       /\ q.last_entry = IF gap < 0 THEN [index |-> x, tx_count |-> obs.tx_count]
                         ELSE p.last_entry
       /\ q \in SlotProgress
  <2>1. q = [seen_indices |-> p.seen_indices \cup {x},
             max_index_at_arrival |-> IF gap < 0 THEN x ELSE top,
             out_of_order |-> IF gap > 0 THEN p.out_of_order + 1 ELSE p.out_of_order,
             max_backward_gap |-> IF gap > p.max_backward_gap THEN gap ELSE p.max_backward_gap,
             last_entry |-> IF gap < 0 THEN [index |-> x, tx_count |-> obs.tx_count]
                            ELSE p.last_entry]
    BY DEF Progress, x
  <2>2. /\ p.seen_indices \in SUBSET Nat /\ p.out_of_order \in Nat
        /\ p.last_entry \in [index : Nat, tx_count : Nat]
    BY <1>3 DEF SlotProgress
  <2>3. p.seen_indices \cup {x} \in SUBSET Nat
    BY <1>2, <2>2
  <2>4. (IF gap > p.max_backward_gap THEN gap ELSE p.max_backward_gap) \in Nat
    BY <1>2, <1>3
  <2>5. (IF gap < 0 THEN [index |-> x, tx_count |-> obs.tx_count] ELSE p.last_entry)
          \in [index : Nat, tx_count : Nat]
    BY <1>2, <2>2
  <2> HIDE DEF gap, q
  <2> QED BY <1>2, <1>3, <2>1, <2>2, <2>3, <2>4, <2>5 DEF SlotProgress
<1> HIDE DEF q
<1>16. Tops(q.max_index_at_arrival, Indices(new, Len(new)))
  <2>1. q.max_index_at_arrival = IF x > top THEN x ELSE top
    BY <1>2, <1>3, <1>15
  <2> QED BY <1>1, <1>7, <2>1
<1>17. Tops(q.max_backward_gap, Gaps(new))
  <2>1. CASE x < top
    <3>1. top - x \in Nat
      BY <1>2, <1>3, <2>1
    <3>2. Tops(IF top - x > p.max_backward_gap THEN top - x ELSE p.max_backward_gap,
               Gaps(arr) \cup {top - x})
      BY <1>14, <3>1, TopAdd
    <3> QED BY <1>12, <1>15, <2>1, <3>2
  <2>2. CASE ~(x < top)
    <3>1. q.max_backward_gap = p.max_backward_gap
      BY <1>2, <1>3, <1>15, <2>2
    <3> QED BY <1>12, <1>14, <2>2, <3>1
  <2> QED BY <2>1, <2>2
<1>18. q.out_of_order = Cardinality(Late(new))
  BY <1>2, <1>3, <1>11, <1>15
<1>19. q.last_entry.index = q.max_index_at_arrival
  BY <1>2, <1>3, <1>14, <1>15
<1>20. q.seen_indices = {new[i].entry_index : i \in DOMAIN new}
  BY <1>13, <1>15
<1>21. LastMatches(q.max_index_at_arrival, q.last_entry.tx_count, new)
  <2>1. LastMatches(IF x > top THEN x ELSE top,
                    IF x > top THEN obs.tx_count ELSE p.last_entry.tx_count, new)
    <3>1. LastMatches(top, p.last_entry.tx_count, arr)
      BY DEF Matches
    <3> HIDE DEF top
    <3> QED BY <1>3, <1>6, <3>1, LastAppend DEF x, n, new
  <2>2. /\ q.max_index_at_arrival = IF x > top THEN x ELSE top
        /\ q.last_entry.tx_count = IF x > top THEN obs.tx_count ELSE p.last_entry.tx_count
    BY <1>2, <1>3, <1>15
  <2> QED BY <2>1, <2>2
<1> QED BY <1>15, <1>16, <1>17, <1>18, <1>19, <1>20, <1>21 DEF Matches, q, new

(* The observation TrueReport takes for the last entry is the one kept.    *)
LEMMA LastIsKept ==
  ASSUME NEW arr \in Seq(EntryObservation), NEW last \in Nat, last > 0, NEW txs,
         last = Highest(arr, Len(arr)), LastMatches(last, txs, arr)
  PROVE  arr[CHOOSE i \in DOMAIN arr : IsLast(arr, i)].tx_count = txs
<1> DEFINE chosen == CHOOSE i \in DOMAIN arr : IsLast(arr, i)
<1>1. PICK k \in DOMAIN arr : FirstWith(arr, k, last) /\ txs = arr[k].tx_count
  BY DEF LastMatches
<1>2. \A i : IsLast(arr, i) <=> FirstWith(arr, i, last)
  BY DEF IsLast, FirstWith
<1>3. chosen \in DOMAIN arr /\ FirstWith(arr, chosen, last)
  BY <1>1, <1>2
<1> HIDE DEF chosen
<1>4. ~(k < chosen) /\ ~(chosen < k)
  BY <1>1, <1>3 DEF FirstWith
<1>5. k \in Nat /\ chosen \in Nat
  BY <1>1, <1>3
<1>6. k = chosen
  BY <1>4, <1>5
<1> QED BY <1>1, <1>6 DEF chosen

(* A report says what is true of the observations it is built from.        *)
LEMMA ReportTrue ==
  ASSUME NEW arr \in Seq(EntryObservation), NEW p, Matches(p, arr), NEW slot
  PROVE  Says(build_report(slot, p), arr)
<1> DEFINE report == build_report(slot, p)
           last == Highest(arr, Len(arr))
           indices == {arr[i].entry_index : i \in DOMAIN arr}
           txs == arr[CHOOSE i \in DOMAIN arr : IsLast(arr, i)].tx_count
           truth == [slot |-> slot,
                     entries_seen |-> Cardinality(indices),
                     max_index |-> last,
                     out_of_order_count |-> Cardinality(Late(arr)),
                     max_backward_gap |-> Max(Gaps(arr)),
                     missing_indices |-> (0 .. last) \ indices,
                     last_entry_was_tick |-> txs = 0,
                     last_entry_tx_count |-> txs]
<1>1. TrueReport(report.slot, arr) = truth
  BY DEF TrueReport, build_report, Late, Gaps
<1>2. p.max_backward_gap = Max(Gaps(arr))
  BY TopIsMax DEF Matches
<1>3. last = Max(Indices(arr, Len(arr)))
  BY DEF Highest, Indices
<1>4. p.last_entry.index = last /\ p.max_index_at_arrival = last /\ last \in Nat
  BY <1>3, TopIsMax DEF Matches
<1>5. p.seen_indices = indices /\ p.out_of_order = Cardinality(Late(arr))
  BY DEF Matches
<1>6. last > 0 => p.last_entry.tx_count = txs
  <2>1. LastMatches(last, p.last_entry.tx_count, arr)
    BY <1>4 DEF Matches
  <2>2. last > 0 => txs = p.last_entry.tx_count
    BY <1>4, <2>1, LastIsKept
  <2> QED BY <2>2
<1>7. last = 0 => p.last_entry.tx_count = 0
  BY <1>4 DEF Matches, LastMatches
<1> HIDE DEF last, indices, txs
<1>8. /\ report.slot = slot
      /\ report.entries_seen = Cardinality(indices)
      /\ report.max_index = last
      /\ report.out_of_order_count = Cardinality(Late(arr))
      /\ report.max_backward_gap = Max(Gaps(arr))
      /\ report.missing_indices = (0 .. last) \ indices
      /\ report.last_entry_was_tick = (p.last_entry.tx_count = 0)
      /\ report.last_entry_tx_count = p.last_entry.tx_count
  BY <1>2, <1>4, <1>5 DEF build_report
<1> HIDE DEF report
<1>9. \A field \in DOMAIN truth :
        \/ report[field] = truth[field]
        \/ /\ field \in {"last_entry_was_tick", "last_entry_tx_count"} /\ truth.max_index = 0
           /\ report.last_entry_was_tick /\ report.last_entry_tx_count = 0
  <2>1. DOMAIN truth = {"slot", "entries_seen", "max_index", "out_of_order_count",
                        "max_backward_gap", "missing_indices", "last_entry_was_tick",
                        "last_entry_tx_count"}
    OBVIOUS
  <2>2. /\ truth.slot = slot
        /\ truth.entries_seen = Cardinality(indices)
        /\ truth.max_index = last
        /\ truth.out_of_order_count = Cardinality(Late(arr))
        /\ truth.max_backward_gap = Max(Gaps(arr))
        /\ truth.missing_indices = (0 .. last) \ indices
        /\ truth.last_entry_was_tick = (txs = 0)
        /\ truth.last_entry_tx_count = txs
    OBVIOUS
  <2> HIDE DEF truth
  <2>3. /\ report["slot"] = truth["slot"]
        /\ report["entries_seen"] = truth["entries_seen"]
        /\ report["max_index"] = truth["max_index"]
        /\ report["out_of_order_count"] = truth["out_of_order_count"]
        /\ report["max_backward_gap"] = truth["max_backward_gap"]
        /\ report["missing_indices"] = truth["missing_indices"]
    BY <1>8, <2>2
  <2>4. CASE last = 0
    <3>1. truth.max_index = 0
      BY <2>2, <2>4
    <3>2. report.last_entry_tx_count = 0
      BY <1>7, <1>8, <2>4
    <3>3. p.last_entry.tx_count = 0
      BY <1>7, <2>4
    <3>4. report.last_entry_was_tick
      BY <1>8, <3>3
    <3> QED BY <2>1, <2>3, <3>1, <3>2, <3>4
  <2>5. CASE last # 0
    <3>1. p.last_entry.tx_count = txs
      BY <1>4, <1>6, <2>5
    <3>2. /\ report["last_entry_was_tick"] = truth["last_entry_was_tick"]
          /\ report["last_entry_tx_count"] = truth["last_entry_tx_count"]
      BY <1>8, <2>2, <3>1
    <3> QED BY <2>1, <2>3, <3>2
  <2> QED BY <2>4, <2>5
<1> QED BY <1>1, <1>9 DEF Says, report

-----------------------------------------------------------------------------
(* Every place of 1 .. Cardinality(slots) has its slot.                    *)
LEMMA NthSlot ==
  ASSUME NEW slots, IsFiniteSet(slots), slots \subseteq Nat,
         NEW n \in 1 .. Cardinality(slots)
  PROVE  /\ nth(slots, n) \in slots
         /\ Cardinality({r \in slots : r < nth(slots, n)}) = n - 1
<1> DEFINE below(s) == {r \in slots : r < s}
           size == Cardinality(slots)
           rank == [s \in slots |-> Cardinality(below(s))]
           Rank == 0 .. size - 1
<1>1. size \in Nat
  BY FS_CardinalityType
<1>2. ASSUME NEW s \in slots
      PROVE  IsFiniteSet(below(s)) /\ Cardinality(below(s)) \in Rank
  <2>1. below(s) \in SUBSET (slots \ {s})
    OBVIOUS
  <2>2. IsFiniteSet(slots \ {s}) /\ Cardinality(slots \ {s}) = size - 1
    BY FS_RemoveElement
  <2>3. IsFiniteSet(below(s)) /\ Cardinality(below(s)) <= size - 1
    BY <2>1, <2>2, FS_Subset
  <2>4. Cardinality(below(s)) \in Nat
    BY <2>3, FS_CardinalityType
  <2> HIDE DEF below, size
  <2> QED BY <1>1, <2>3, <2>4
<1>3. ASSUME NEW s \in slots, NEW t \in slots, s < t
      PROVE  Cardinality(below(s)) < Cardinality(below(t))
  <2>1. below(s) \in SUBSET below(t) /\ s \in below(t) /\ s \notin below(s)
    <3>1. s \in Nat /\ t \in Nat /\ \A r \in slots : r \in Nat
      OBVIOUS
    <3>2. \A r \in slots : r < s => r < t
      BY <1>3, <3>1
    <3>3. ~(s < s)
      BY <3>1
    <3> QED BY <1>3, <3>2, <3>3
  <2>2. IsFiniteSet(below(t)) /\ Cardinality(below(t)) \in Nat /\ Cardinality(below(s)) \in Nat
    BY <1>2, FS_CardinalityType
  <2>3. /\ Cardinality(below(s)) <= Cardinality(below(t))
        /\ Cardinality(below(t)) = Cardinality(below(s)) => below(t) = below(s)
    <3> HIDE DEF below
    <3> QED BY <2>1, <2>2, FS_Subset
  <2> HIDE DEF below
  <2> QED BY <2>1, <2>2, <2>3
<1> HIDE DEF below
<1>4. rank \in [slots -> Rank]
  BY <1>2
<1>5. rank \in Injection(slots, Rank)
  <2>1. ASSUME NEW s \in slots, NEW t \in slots, rank[s] = rank[t]
        PROVE  s = t
    <3>1. rank[s] = Cardinality(below(s)) /\ rank[t] = Cardinality(below(t))
      OBVIOUS
    <3>2. Cardinality(below(s)) \in Nat /\ Cardinality(below(t)) \in Nat
      BY <1>2, FS_CardinalityType
    <3>3. ~(s < t) /\ ~(t < s)
      BY <1>3, <2>1, <3>1, <3>2
    <3> QED BY <3>3
  <2> HIDE DEF rank
  <2> QED BY <1>4, <2>1 DEF Injection, IsInjective
<1>6. IsFiniteSet(Rank) /\ Cardinality(Rank) = size
  <2>1. 0 \in Int /\ size - 1 \in Int
    BY <1>1
  <2> HIDE DEF size
  <2> QED BY <1>1, <2>1, FS_Interval
<1>7. rank \in Surjection(slots, Rank)
  <2> HIDE DEF rank, Rank
  <2> QED BY <1>5, <1>6, FS_Injection
<1>8. n - 1 \in Rank
  BY <1>1
<1>9. PICK s \in slots : rank[s] = n - 1
  <2> HIDE DEF rank, Rank
  <2> QED BY <1>7, <1>8 DEF Surjection
<1>10. Cardinality(below(s)) = n - 1
  BY <1>9
<1> QED BY <1>10 DEF nth, below

(* The slots that leave together do so in ascending order, each once.      *)
LEMMA NthAscends ==
  ASSUME NEW slots, IsFiniteSet(slots), slots \subseteq Nat,
         NEW m \in 1 .. Cardinality(slots), NEW n \in 1 .. Cardinality(slots), m < n
  PROVE  nth(slots, m) < nth(slots, n)
<1> DEFINE below(s) == {r \in slots : r < s}
           s == nth(slots, m)
           t == nth(slots, n)
<1>1. /\ s \in slots /\ Cardinality(below(s)) = m - 1
      /\ t \in slots /\ Cardinality(below(t)) = n - 1
  BY NthSlot
<1> HIDE DEF s, t
<1>2. SUFFICES ASSUME t <= s PROVE FALSE
  <2>1. s \in Nat /\ t \in Nat
    BY <1>1
  <2>2. s < t
    BY <1>2, <2>1
  <2> QED BY <2>2 DEF s, t
<1>3. below(t) \in SUBSET below(s)
  <2>1. s \in Nat /\ t \in Nat /\ \A r \in slots : r \in Nat
    BY <1>1
  <2>2. \A r \in slots : r < t => r < s
    BY <1>2, <2>1
  <2> QED BY <2>2
<1>4. below(s) \in SUBSET slots
  OBVIOUS
<1> HIDE DEF below
<1>5. IsFiniteSet(below(s))
  BY <1>4, FS_Subset
<1>6. Cardinality(below(t)) <= Cardinality(below(s))
  BY <1>3, <1>5, FS_Subset
<1> QED BY <1>1, <1>6

-----------------------------------------------------------------------------
(* Channels.                                                               *)

LEMMA ConcatFacts ==
  ASSUME NEW S, NEW a \in Seq(S), NEW b \in Seq(S), NEW c, c = a \o b
  PROVE  /\ c \in Seq(S) /\ Len(c) = Len(a) + Len(b)
         /\ Len(a) \in Nat /\ Len(b) \in Nat
         /\ \A i \in 1 .. Len(a) : c[i] = a[i]
         /\ \A i \in Len(a) + 1 .. Len(a) + Len(b) : c[i] = b[i - Len(a)]
OBVIOUS

LEMMA TailFacts ==
  ASSUME NEW q \in Seq(EntryObservation), q # <<>>
  PROVE  /\ Head(q) = q[1] /\ q[1] \in EntryObservation
         /\ Tail(q) \in Seq(EntryObservation)
         /\ DOMAIN q = 1 .. Len(q) /\ Len(q) \in Nat \ {0}
         /\ Len(Tail(q)) = Len(q) - 1 /\ DOMAIN Tail(q) = 1 .. Len(q) - 1
         /\ \A i \in 1 .. Len(q) - 1 : Tail(q)[i] = q[i + 1]
OBVIOUS

(* As many of the items as there is room for go behind what is there.      *)
LEMMA SendAllFacts ==
  ASSUME NEW channel \in Seq(EntryObservation), Len(channel) <= source_channel_capacity,
         NEW items \in Seq(EntryObservation)
  PROVE  LET r == SendAll(channel, items) IN
         /\ r \in Seq(EntryObservation) /\ Len(r) <= source_channel_capacity
         /\ Len(channel) \in Nat /\ Len(items) \in Nat
         /\ DOMAIN channel = 1 .. Len(channel) /\ DOMAIN r = 1 .. Len(r)
         /\ Len(r) \in Len(channel) .. Len(channel) + Len(items)
         /\ \A i \in 1 .. Len(channel) : r[i] = channel[i]
         /\ \A i \in Len(channel) + 1 .. Len(r) : r[i] = items[i - Len(channel)]
<1> DEFINE room == source_channel_capacity - Len(channel)
           k == IF Len(items) < room THEN Len(items) ELSE room
           part == SubSeq(items, 1, k)
           r == SendAll(channel, items)
<1>1. source_channel_capacity \in Nat /\ Len(channel) \in Nat /\ Len(items) \in Nat
  BY Phase1Assumption
<1>2. k \in Nat /\ k <= Len(items) /\ Len(channel) + k <= source_channel_capacity
  BY <1>1
<1> HIDE DEF k
<1>3. /\ part \in Seq(EntryObservation) /\ Len(part) = k
      /\ \A i \in 1 .. k : part[i] = items[i]
  BY <1>1, <1>2
<1>4. r = channel \o part
  BY DEF SendAll, k
<1> HIDE DEF part, r
<1>5. /\ r \in Seq(EntryObservation) /\ Len(r) = Len(channel) + k
      /\ \A i \in 1 .. Len(channel) : r[i] = channel[i]
      /\ \A i \in Len(channel) + 1 .. Len(r) : r[i] = part[i - Len(channel)]
  <2>1. /\ r \in Seq(EntryObservation)
        /\ Len(r) = Len(channel) + Len(part)
        /\ \A i \in 1 .. Len(channel) : r[i] = channel[i]
        /\ \A i \in Len(channel) + 1 .. Len(channel) + Len(part) :
             r[i] = part[i - Len(channel)]
    <3>1. channel \in Seq(EntryObservation) /\ part \in Seq(EntryObservation)
      BY <1>3
    <3> QED BY <1>4, <3>1, ConcatFacts
  <2>2. Len(part) = k
    BY <1>3
  <2> QED BY <1>4, <2>1, <2>2
<1>6. \A i \in Len(channel) + 1 .. Len(r) : r[i] = items[i - Len(channel)]
  BY <1>1, <1>2, <1>3, <1>5
<1> QED BY <1>1, <1>2, <1>5, <1>6 DEF r

LEMMA EntryType ==
  ASSUME NEW s \in LedgerSlot, NEW place \in Nat, NEW index \in Nat
  PROVE  /\ Entry(s, place, index) \in EntryObservation
         /\ Entry(s, place, index).slot = s /\ Entry(s, place, index).entry_index = index
BY DEF Entry, EntryObservation

LEMMA SlotsPositive == LedgerSlot \subseteq Nat \ {0}
BY Phase1Assumption DEF LedgerSlot

(* The items of a batch carry the indices from base on.                    *)
LEMMA BatchItems ==
  ASSUME NEW b \in Batch, NEW base \in Nat
  PROVE  LET items == [i \in 1 .. b.n |-> Entry(b.slot, b.first + i - 1, base + i - 1)] IN
         /\ items \in Seq(EntryObservation) /\ Len(items) = b.n
         /\ b.n \in Nat /\ b.slot \in LedgerSlot
         /\ \A i \in 1 .. b.n : items[i].slot = b.slot /\ items[i].entry_index = base + i - 1
<1> DEFINE items == [i \in 1 .. b.n |-> Entry(b.slot, b.first + i - 1, base + i - 1)]
<1>1. b.n \in Nat /\ b.first \in Nat /\ b.slot \in LedgerSlot
  BY Phase1Assumption DEF LedgerSlot
<1>2. ASSUME NEW i \in 1 .. b.n
      PROVE  /\ Entry(b.slot, b.first + i - 1, base + i - 1) \in EntryObservation
             /\ Entry(b.slot, b.first + i - 1, base + i - 1).slot = b.slot
             /\ Entry(b.slot, b.first + i - 1, base + i - 1).entry_index = base + i - 1
  <2>1. b.first + i - 1 \in Nat /\ base + i - 1 \in Nat
    BY <1>1
  <2> QED BY <1>1, <2>1, EntryType
<1>3. items \in [1 .. b.n -> EntryObservation]
  BY <1>2
<1>4. items \in Seq(EntryObservation) /\ Len(items) = b.n
  <2> DEFINE n == b.n
  <2>1. n \in Nat /\ items \in [1 .. n -> EntryObservation]
    BY <1>1, <1>3
  <2> HIDE DEF n, items
  <2>2. items \in Seq(EntryObservation) /\ Len(items) = n
    BY <2>1
  <2> QED BY <2>2 DEF n
<1> QED BY <1>1, <1>2, <1>4

-----------------------------------------------------------------------------
(* What is sealed is what was in progress.                                 *)
Report == {build_report(s, p) : s \in LedgerSlot, p \in SlotProgress}

(* The slots in progress with their observations, the reports with theirs. *)
Tracked ==
  /\ DOMAIN in_progress \subseteq LedgerSlot /\ IsFiniteSet(DOMAIN in_progress)
  /\ DOMAIN arrivals = DOMAIN in_progress
  /\ \A s \in DOMAIN in_progress :
       /\ arrivals[s] \in Seq(EntryObservation) /\ arrivals[s] # <<>>
       /\ Matches(in_progress[s], arrivals[s])
  /\ sealed_reports \in Seq(Report) /\ reported \in Seq(Seq(EntryObservation))
  /\ Len(reported) = Len(sealed_reports)
  /\ \A n \in DOMAIN sealed_reports : Says(sealed_reports[n], reported[n])

(* What a slot that did not come back is tracked with, or was reported     *)
(* with, is all that was ever observed of it.                              *)
Whole ==
  /\ observed \in [LedgerSlot -> Seq(EntryObservation)]
  /\ \A n \in DOMAIN sealed_reports : reported[n] # <<>>
  /\ \A s \in LedgerSlot \ returned :
       /\ s \in DOMAIN in_progress =>
            /\ arrivals[s] = observed[s]
            /\ \A n \in DOMAIN sealed_reports : sealed_reports[n].slot # s
       /\ \A n \in DOMAIN sealed_reports :
            sealed_reports[n].slot = s => reported[n] = observed[s]

LEMMA SealTracked ==
  ASSUME Tracked, NEW slots, slots \subseteq DOMAIN in_progress, SealSlots(slots)
  PROVE  /\ Tracked'
         /\ DOMAIN in_progress' = DOMAIN in_progress \ slots
         /\ \A s \in DOMAIN in_progress' : in_progress'[s] = in_progress[s]
                                           /\ arrivals'[s] = arrivals[s]
         /\ \A n \in DOMAIN sealed_reports' :
              \/ /\ n \in DOMAIN sealed_reports /\ sealed_reports'[n] = sealed_reports[n]
                 /\ reported'[n] = reported[n]
              \/ \E s \in slots : /\ sealed_reports'[n] = build_report(s, in_progress[s])
                                 /\ reported'[n] = arrivals[s]
<1> DEFINE reports == Reports(slots)
           m == Cardinality(slots)
           arrs == [n \in 1 .. m |-> arrivals[reports[n].slot]]
           L == Len(sealed_reports)
<1>1. IsFiniteSet(slots) /\ m \in Nat /\ slots \subseteq Nat
  <2>1. slots \in SUBSET DOMAIN in_progress /\ IsFiniteSet(DOMAIN in_progress)
    BY DEF Tracked
  <2>2. IsFiniteSet(slots)
    BY <2>1, FS_Subset
  <2>3. slots \subseteq Nat
    BY SlotsPositive DEF Tracked
  <2> QED BY <2>2, <2>3, FS_CardinalityType
<1>2. reports = [n \in 1 .. m |-> build_report(nth(slots, n), in_progress[nth(slots, n)])]
  BY DEF Reports
<1>3. ASSUME NEW n \in 1 .. m
      PROVE  /\ reports[n] \in Report /\ arrs[n] \in Seq(EntryObservation)
             /\ \E s \in slots : /\ reports[n] = build_report(s, in_progress[s])
                                /\ arrs[n] = arrivals[s]
             /\ Says(reports[n], arrs[n])
  <2> DEFINE s == nth(slots, n)
  <2>1. s \in slots
    BY <1>1, NthSlot
  <2>2. reports[n] = build_report(s, in_progress[s])
    BY <1>2
  <2> HIDE DEF s
  <2>3. reports[n].slot = s
    BY <2>2 DEF build_report
  <2>4. arrs[n] = arrivals[s]
    BY <2>3
  <2>5. s \in LedgerSlot /\ arrivals[s] \in Seq(EntryObservation)
        /\ Matches(in_progress[s], arrivals[s])
    BY <2>1 DEF Tracked
  <2>6. in_progress[s] \in SlotProgress
    BY <2>5 DEF Matches
  <2>7. Says(build_report(s, in_progress[s]), arrivals[s])
    BY <2>5, ReportTrue
  <2> HIDE DEF reports, arrs
  <2> QED BY <2>1, <2>2, <2>4, <2>5, <2>6, <2>7 DEF Report
<1>4. DOMAIN reports = 1 .. m
  BY <1>2
<1>5. /\ sealed_reports' = sealed_reports \o reports
      /\ reported' = reported \o arrs
      /\ in_progress' = OnlyOn(in_progress, LedgerSlot \ slots)
      /\ arrivals' = OnlyOn(arrivals, LedgerSlot \ slots)
  BY <1>4 DEF SealSlots
<1>6. reports \in Seq(Report) /\ Len(reports) = m
  <2>1. reports \in [1 .. m -> Report]
    BY <1>2, <1>3
  <2> HIDE DEF reports
  <2> QED BY <1>1, <2>1
<1>7. arrs \in Seq(Seq(EntryObservation)) /\ Len(arrs) = m
  <2>1. arrs \in [1 .. m -> Seq(EntryObservation)]
    BY <1>3
  <2> HIDE DEF arrs
  <2> QED BY <1>1, <2>1
<1> HIDE DEF reports, arrs, m
<1>8. /\ sealed_reports \in Seq(Report) /\ reported \in Seq(Seq(EntryObservation))
      /\ Len(reported) = L /\ L \in Nat
      /\ \A n \in 1 .. L : Says(sealed_reports[n], reported[n])
  <2>1. /\ sealed_reports \in Seq(Report) /\ reported \in Seq(Seq(EntryObservation))
        /\ Len(reported) = L
    BY DEF Tracked
  <2>2. L \in Nat /\ DOMAIN sealed_reports = 1 .. L
    BY <2>1
  <2>3. \A n \in DOMAIN sealed_reports : Says(sealed_reports[n], reported[n])
    BY DEF Tracked
  <2> QED BY <2>1, <2>2, <2>3
<1>9. /\ sealed_reports' \in Seq(Report) /\ Len(sealed_reports') = L + m
      /\ \A n \in 1 .. L : sealed_reports'[n] = sealed_reports[n]
      /\ \A n \in L + 1 .. L + m : sealed_reports'[n] = reports[n - L]
  <2>1. Len(sealed_reports) = L
    OBVIOUS
  <2> HIDE DEF L
  <2>2. /\ sealed_reports' \in Seq(Report)
        /\ Len(sealed_reports') = Len(sealed_reports) + Len(reports)
        /\ \A n \in 1 .. Len(sealed_reports) : sealed_reports'[n] = sealed_reports[n]
        /\ \A n \in Len(sealed_reports) + 1 .. Len(sealed_reports) + Len(reports) :
             sealed_reports'[n] = reports[n - Len(sealed_reports)]
    <3>1. sealed_reports \in Seq(Report) /\ reports \in Seq(Report)
          /\ sealed_reports' = sealed_reports \o reports
      BY <1>5, <1>6, <1>8
    <3> QED BY <3>1, ConcatFacts
  <2>3. Len(reports) = m
    BY <1>6
  <2> QED BY <2>1, <2>2, <2>3
<1>10. /\ reported' \in Seq(Seq(EntryObservation)) /\ Len(reported') = L + m
       /\ \A n \in 1 .. L : reported'[n] = reported[n]
       /\ \A n \in L + 1 .. L + m : reported'[n] = arrs[n - L]
  <2> DEFINE A == Seq(EntryObservation)
  <2>1. reported \in Seq(A) /\ arrs \in Seq(A)
    BY <1>7, <1>8
  <2> HIDE DEF A
  <2>2. /\ reported' \in Seq(A) /\ Len(reported') = L + m
        /\ \A n \in 1 .. L : reported'[n] = reported[n]
        /\ \A n \in L + 1 .. L + m : reported'[n] = arrs[n - L]
    <3> HIDE DEF L
    <3>1. /\ reported' \in Seq(A)
          /\ Len(reported') = Len(reported) + Len(arrs)
          /\ \A n \in 1 .. Len(reported) : reported'[n] = reported[n]
          /\ \A n \in Len(reported) + 1 .. Len(reported) + Len(arrs) :
               reported'[n] = arrs[n - Len(reported)]
      BY <1>5, <2>1, ConcatFacts
    <3>2. Len(reported) = L /\ Len(arrs) = m
      BY <1>7, <1>8
    <3> QED BY <1>5, <3>1, <3>2
  <2> QED BY <2>2 DEF A
<1>11. ASSUME NEW n \in 1 .. L + m
       PROVE  /\ Says(sealed_reports'[n], reported'[n])
              /\ \/ /\ n \in DOMAIN sealed_reports /\ sealed_reports'[n] = sealed_reports[n]
                    /\ reported'[n] = reported[n]
                 \/ \E s \in slots : /\ sealed_reports'[n] = build_report(s, in_progress[s])
                                    /\ reported'[n] = arrivals[s]
  <2>1. CASE n \in 1 .. L
    <3>1. DOMAIN sealed_reports = 1 .. L
      BY <1>8
    <3> QED BY <1>8, <1>9, <1>10, <2>1, <3>1
  <2>2. CASE n \notin 1 .. L
    <3>1. n \in L + 1 .. L + m /\ n - L \in 1 .. m
      BY <1>1, <1>8, <2>2
    <3>2. sealed_reports'[n] = reports[n - L] /\ reported'[n] = arrs[n - L]
      BY <1>9, <1>10, <3>1
    <3>3. Says(reports[n - L], arrs[n - L])
          /\ \E s \in slots : /\ reports[n - L] = build_report(s, in_progress[s])
                             /\ arrs[n - L] = arrivals[s]
      BY <1>3, <3>1
    <3> QED BY <3>2, <3>3
  <2> QED BY <2>1, <2>2
<1>12. DOMAIN sealed_reports' = 1 .. L + m
  BY <1>9
<1>13. /\ DOMAIN in_progress' = DOMAIN in_progress \ slots
       /\ DOMAIN arrivals' = DOMAIN in_progress \ slots
       /\ \A s \in DOMAIN in_progress' : in_progress'[s] = in_progress[s]
                                         /\ arrivals'[s] = arrivals[s]
  <2>1. DOMAIN in_progress \subseteq LedgerSlot /\ DOMAIN arrivals = DOMAIN in_progress
    BY DEF Tracked
  <2> QED BY <1>5, <2>1 DEF OnlyOn
<1>14. DOMAIN in_progress' \subseteq LedgerSlot /\ IsFiniteSet(DOMAIN in_progress')
  <2>1. DOMAIN in_progress' \in SUBSET DOMAIN in_progress
    BY <1>13
  <2> QED BY <2>1, FS_Subset DEF Tracked
<1>15. \A s \in DOMAIN in_progress' :
         /\ arrivals'[s] \in Seq(EntryObservation) /\ arrivals'[s] # <<>>
         /\ Matches(in_progress'[s], arrivals'[s])
  BY <1>13 DEF Tracked
<1>16. Tracked'
  <2>1. \A n \in DOMAIN sealed_reports' : Says(sealed_reports'[n], reported'[n])
    BY <1>11, <1>12
  <2>2. Len(reported') = Len(sealed_reports')
    BY <1>9, <1>10
  <2> QED BY <1>9, <1>10, <1>13, <1>14, <1>15, <2>1, <2>2 DEF Tracked
<1> QED BY <1>11, <1>12, <1>13, <1>16

(* A slot's report is of what it was tracked with.                         *)
LEMMA SealWhole ==
  ASSUME Tracked, Whole, NEW slots, slots \subseteq DOMAIN in_progress, SealSlots(slots),
         UNCHANGED seenVars
  PROVE  Whole'
<1>1. /\ DOMAIN in_progress' = DOMAIN in_progress \ slots
      /\ \A s \in DOMAIN in_progress' : arrivals'[s] = arrivals[s]
      /\ \A n \in DOMAIN sealed_reports' :
           \/ /\ n \in DOMAIN sealed_reports /\ sealed_reports'[n] = sealed_reports[n]
              /\ reported'[n] = reported[n]
           \/ \E s \in slots : /\ sealed_reports'[n] = build_report(s, in_progress[s])
                              /\ reported'[n] = arrivals[s]
  BY SealTracked
<1>2. observed' = observed /\ returned' = returned
  BY DEF seenVars
<1>3. ASSUME NEW n \in DOMAIN sealed_reports'
      PROVE  \/ /\ n \in DOMAIN sealed_reports /\ sealed_reports'[n] = sealed_reports[n]
                /\ reported'[n] = reported[n]
             \/ /\ sealed_reports'[n].slot \in slots
                /\ reported'[n] = arrivals[sealed_reports'[n].slot]
  <2>1. CASE \E s \in slots : /\ sealed_reports'[n] = build_report(s, in_progress[s])
                             /\ reported'[n] = arrivals[s]
    <3>1. PICK s \in slots : /\ sealed_reports'[n] = build_report(s, in_progress[s])
                             /\ reported'[n] = arrivals[s]
      BY <2>1
    <3>2. sealed_reports'[n].slot = s
      BY <3>1 DEF build_report
    <3> QED BY <3>1, <3>2
  <2> QED BY <1>1, <2>1
<1>4. \A n \in DOMAIN sealed_reports' : reported'[n] # <<>>
  BY <1>3 DEF Whole, Tracked
<1>5. ASSUME NEW s \in LedgerSlot \ returned
      PROVE  /\ s \in DOMAIN in_progress' =>
                  /\ arrivals'[s] = observed[s]
                  /\ \A n \in DOMAIN sealed_reports' : sealed_reports'[n].slot # s
             /\ \A n \in DOMAIN sealed_reports' :
                  sealed_reports'[n].slot = s => reported'[n] = observed[s]
  <2>1. /\ s \in DOMAIN in_progress =>
             /\ arrivals[s] = observed[s]
             /\ \A n \in DOMAIN sealed_reports : sealed_reports[n].slot # s
        /\ \A n \in DOMAIN sealed_reports : sealed_reports[n].slot = s => reported[n] = observed[s]
    BY DEF Whole
  <2>2. ASSUME s \in DOMAIN in_progress'
        PROVE  /\ arrivals'[s] = observed[s]
               /\ \A n \in DOMAIN sealed_reports' : sealed_reports'[n].slot # s
    BY <1>1, <1>3, <2>1, <2>2
  <2>3. ASSUME NEW n \in DOMAIN sealed_reports', sealed_reports'[n].slot = s
        PROVE  reported'[n] = observed[s]
    BY <1>3, <2>1, <2>3
  <2> QED BY <2>2, <2>3
<1> QED BY <1>2, <1>4, <1>5 DEF Whole

LEMMA ObserveTracked ==
  ASSUME Tracked, ord_rx \in Seq(EntryObservation), Observe
  PROVE  LET obs == Head(ord_rx)
             s == obs.slot
             p == IF s \in DOMAIN in_progress THEN in_progress[s] ELSE NewProgress
         IN /\ Tracked'
            /\ obs \in EntryObservation /\ s \in LedgerSlot
            /\ DOMAIN in_progress' = DOMAIN in_progress \cup {s}
            /\ in_progress'[s] = Progress(p, obs)
            /\ p \in SlotProgress
            /\ arrivals'[s] = Append(IF s \in DOMAIN in_progress THEN arrivals[s] ELSE <<>>, obs)
            /\ \A t \in DOMAIN in_progress \ {s} : in_progress'[t] = in_progress[t]
                                                   /\ arrivals'[t] = arrivals[t]
            /\ UNCHANGED <<sealed_reports, reported>>
<1> DEFINE obs == Head(ord_rx)
           s == obs.slot
           p == IF s \in DOMAIN in_progress THEN in_progress[s] ELSE NewProgress
           arr == IF s \in DOMAIN in_progress THEN arrivals[s] ELSE <<>>
<1>1. obs \in EntryObservation
  BY TailFacts DEF Observe
<1>2. s \in LedgerSlot
  BY <1>1 DEF EntryObservation
<1>3. arr \in Seq(EntryObservation) /\ Matches(p, arr)
  <2>1. CASE s \in DOMAIN in_progress
    BY <2>1 DEF Tracked
  <2>2. CASE s \notin DOMAIN in_progress
    BY <2>2, NewMatches
  <2> QED BY <2>1, <2>2
<1>4. /\ in_progress' = Put(in_progress, s, Progress(p, obs))
      /\ arrivals' = Put(arrivals, s, Append(arr, obs))
      /\ UNCHANGED <<sealed_reports, reported>>
  BY DEF Observe
<1> HIDE DEF obs, s, p, arr
<1>5. /\ Append(arr, obs) \in Seq(EntryObservation) /\ Append(arr, obs) # <<>>
      /\ Matches(Progress(p, obs), Append(arr, obs))
  <2>1. Append(arr, obs) \in Seq(EntryObservation) /\ Append(arr, obs) # <<>>
    BY <1>1, <1>3
  <2> QED BY <1>1, <1>3, <2>1, ProgressMatches
<1>6. DOMAIN in_progress \subseteq LedgerSlot /\ DOMAIN arrivals = DOMAIN in_progress
      /\ IsFiniteSet(DOMAIN in_progress)
  BY DEF Tracked
<1>7. /\ DOMAIN in_progress' = DOMAIN in_progress \cup {s}
      /\ DOMAIN arrivals' = DOMAIN in_progress \cup {s}
      /\ in_progress'[s] = Progress(p, obs) /\ arrivals'[s] = Append(arr, obs)
      /\ \A t \in DOMAIN in_progress \ {s} : in_progress'[t] = in_progress[t]
                                             /\ arrivals'[t] = arrivals[t]
  BY <1>4, <1>6 DEF Put
<1>8. IsFiniteSet(DOMAIN in_progress') /\ DOMAIN in_progress' \subseteq LedgerSlot
  BY <1>2, <1>6, <1>7, FS_AddElement
<1>9. ASSUME NEW t \in DOMAIN in_progress'
      PROVE  /\ arrivals'[t] \in Seq(EntryObservation) /\ arrivals'[t] # <<>>
             /\ Matches(in_progress'[t], arrivals'[t])
  <2>1. CASE t = s
    BY <1>5, <1>7, <2>1
  <2>2. CASE t # s
    BY <1>7, <2>2 DEF Tracked
  <2> QED BY <2>1, <2>2
<1>10. Tracked'
  BY <1>4, <1>7, <1>8, <1>9 DEF Tracked
<1>11. p \in SlotProgress
  BY <1>3 DEF Matches
<1> QED BY <1>1, <1>2, <1>4, <1>7, <1>10, <1>11 DEF obs, s, p, arr

(* A slot observed again counts as one that came back, unless it is still  *)
(* in progress.                                                            *)
LEMMA ObserveWhole ==
  ASSUME Tracked, Whole, ord_rx \in Seq(EntryObservation), Observe
  PROVE  Whole'
<1> DEFINE obs == Head(ord_rx)
           s == obs.slot
<1>1. /\ obs \in EntryObservation /\ s \in LedgerSlot
      /\ DOMAIN in_progress' = DOMAIN in_progress \cup {s}
      /\ arrivals'[s] = Append(IF s \in DOMAIN in_progress THEN arrivals[s] ELSE <<>>, obs)
      /\ \A t \in DOMAIN in_progress \ {s} : arrivals'[t] = arrivals[t]
      /\ UNCHANGED <<sealed_reports, reported>>
  BY ObserveTracked
<1>2. /\ observed' = [observed EXCEPT ![s] = Append(observed[s], obs)]
      /\ returned' = IF s \notin DOMAIN in_progress /\ observed[s] # <<>>
                     THEN returned \cup {s} ELSE returned
  BY DEF Observe
<1> HIDE DEF obs, s
<1>3. observed \in [LedgerSlot -> Seq(EntryObservation)]
  BY DEF Whole
<1>4. Append(observed[s], obs) \in Seq(EntryObservation)
  BY <1>1, <1>3
<1>5. observed' \in [LedgerSlot -> Seq(EntryObservation)]
  BY <1>1, <1>2, <1>3, <1>4
<1>6. ASSUME NEW t \in LedgerSlot \ returned'
      PROVE  /\ t \in DOMAIN in_progress' =>
                  /\ arrivals'[t] = observed'[t]
                  /\ \A n \in DOMAIN sealed_reports : sealed_reports[n].slot # t
             /\ \A n \in DOMAIN sealed_reports :
                  sealed_reports[n].slot = t => reported[n] = observed'[t]
  <2>1. t \in LedgerSlot \ returned
    BY <1>2, <1>6
  <2>2. CASE t # s
    <3>1. observed'[t] = observed[t]
      BY <1>2, <1>3, <2>2
    <3> QED BY <1>1, <2>1, <2>2, <3>1 DEF Whole
  <2>3. CASE t = s /\ s \in DOMAIN in_progress
    <3>1. /\ arrivals[s] = observed[s]
          /\ \A n \in DOMAIN sealed_reports : sealed_reports[n].slot # s
      BY <2>1, <2>3 DEF Whole
    <3>2. observed'[s] = Append(observed[s], obs)
      BY <1>1, <1>2, <1>3
    <3> QED BY <1>1, <2>3, <3>1, <3>2
  <2>4. CASE t = s /\ s \notin DOMAIN in_progress
    <3>1. observed[s] = <<>>
      BY <1>2, <1>6, <2>4
    <3>2. \A n \in DOMAIN sealed_reports : sealed_reports[n].slot # s
      BY <2>1, <2>4, <3>1 DEF Whole
    <3>3. observed'[s] = Append(<<>>, obs)
      BY <1>1, <1>2, <1>3, <3>1
    <3> QED BY <1>1, <2>4, <3>2, <3>3
  <2> QED BY <2>2, <2>3, <2>4
<1>7. \A n \in DOMAIN sealed_reports' : reported'[n] # <<>>
  BY <1>1 DEF Whole
<1> QED BY <1>1, <1>5, <1>6, <1>7 DEF Whole

-----------------------------------------------------------------------------
(* The types, with what a slot's offset is.                                *)
Counting ==
  /\ Phase1TypeOK
  /\ \A s \in DOMAIN slot_offset : slot_offset[s] \in Nat

LEMMA BaseType == Counting => \A s : Base(s) \in Nat
BY DEF Counting, Base

(* ReceiveBatch: what the channel and the offsets become.                  *)
LEMMA BatchStep ==
  ASSUME Counting, NEW b \in Batch, ReceiveBatch(b)
  PROVE  /\ Counting'
         /\ rx' \in Seq(EntryObservation) /\ Len(rx) \in Nat /\ Len(rx') \in Nat
         /\ DOMAIN rx = 1 .. Len(rx) /\ DOMAIN rx' = 1 .. Len(rx')
         /\ Len(rx) <= Len(rx')
         /\ \A i \in 1 .. Len(rx) : rx'[i] = rx[i]
         /\ \A i \in Len(rx) + 1 .. Len(rx') :
              /\ rx'[i].slot = b.slot
              /\ rx'[i].entry_index = Base(b.slot) + (i - Len(rx)) - 1
         /\ Len(rx') <= Len(rx) + b.n /\ b.n \in Nat /\ b.slot \in LedgerSlot
         /\ ~renumbered' =>
              \A s : Base(s)' = IF s = b.slot THEN Base(s) + b.n ELSE Base(s)
         /\ UNCHANGED <<source, gateVars, ord_rx, trackerVars, step, main>>
<1> DEFINE base == Base(b.slot)
           items == [i \in 1 .. b.n |-> Entry(b.slot, b.first + i - 1, base + i - 1)]
           counted == Put(slot_offset, b.slot, base + b.n)
           highest == IF b.slot > highest_slot THEN b.slot ELSE highest_slot
           kept == IF Cardinality(DOMAIN counted) > max_offsets
                   THEN OnlyOn(counted, {s \in LedgerSlot : s >= highest - offset_history})
                   ELSE counted
<1>1. base \in Nat
  BY BaseType
<1>2. /\ items \in Seq(EntryObservation) /\ Len(items) = b.n
      /\ b.n \in Nat /\ b.slot \in LedgerSlot
      /\ \A i \in 1 .. b.n : items[i].slot = b.slot /\ items[i].entry_index = base + i - 1
  BY <1>1, BatchItems
<1>3. /\ rx' = SendAll(rx, items)
      /\ slot_offset' = kept /\ highest_slot' = highest
      /\ renumbered' = (renumbered \/ kept # counted)
      /\ UNCHANGED <<source, gateVars, ord_rx, trackerVars, step, main>>
  BY DEF ReceiveBatch
<1> HIDE DEF base, items, highest, kept
<1>4. rx \in Seq(EntryObservation) /\ Len(rx) <= source_channel_capacity
  BY DEF Counting, Phase1TypeOK
<1>5. /\ rx' \in Seq(EntryObservation) /\ Len(rx') <= source_channel_capacity
      /\ Len(rx) \in Nat
      /\ DOMAIN rx = 1 .. Len(rx) /\ DOMAIN rx' = 1 .. Len(rx')
      /\ Len(rx') \in Len(rx) .. Len(rx) + Len(items)
      /\ \A i \in 1 .. Len(rx) : rx'[i] = rx[i]
      /\ \A i \in Len(rx) + 1 .. Len(rx') : rx'[i] = items[i - Len(rx)]
  BY <1>2, <1>3, <1>4, SendAllFacts
<1>6. ASSUME NEW i \in Len(rx) + 1 .. Len(rx')
      PROVE  rx'[i].slot = b.slot /\ rx'[i].entry_index = base + (i - Len(rx)) - 1
  <2>1. i - Len(rx) \in 1 .. b.n
    BY <1>2, <1>5
  <2>2. rx'[i] = items[i - Len(rx)]
    BY <1>5
  <2> QED BY <1>2, <2>1, <2>2
<1>7. /\ DOMAIN slot_offset \subseteq LedgerSlot
      /\ \A s \in DOMAIN slot_offset : slot_offset[s] \in Nat
  BY DEF Counting, Phase1TypeOK
<1>8. /\ DOMAIN counted = DOMAIN slot_offset \cup {b.slot}
      /\ DOMAIN counted \subseteq LedgerSlot
      /\ \A s \in DOMAIN counted : counted[s] = IF s = b.slot THEN base + b.n ELSE slot_offset[s]
  BY <1>2, <1>7 DEF Put
<1>9. \A s \in DOMAIN counted : counted[s] \in Nat
  BY <1>1, <1>2, <1>7, <1>8
<1> HIDE DEF counted
<1>10. DOMAIN kept \subseteq LedgerSlot /\ \A s \in DOMAIN kept : kept[s] \in Nat
  BY <1>8, <1>9 DEF kept, OnlyOn
<1>11. highest \in LedgerSlot \cup {0}
  BY <1>2 DEF highest, Counting, Phase1TypeOK
<1>12. UNCHANGED <<source, startup_slot, warm, gate, ord_rx, high_water, in_progress, step, main>>
  BY <1>3 DEF gateVars, trackerVars
<1>13. Counting'
  BY <1>3, <1>5, <1>10, <1>11, <1>12 DEF Counting, Phase1TypeOK
<1>14. ASSUME ~renumbered', NEW s
       PROVE  Base(s)' = IF s = b.slot THEN Base(s) + b.n ELSE Base(s)
  <2>1. slot_offset' = counted
    BY <1>3, <1>14
  <2> QED BY <1>8, <2>1 DEF Base, base
<1> QED BY <1>2, <1>3, <1>5, <1>6, <1>13, <1>14 DEF base

LEMMA EntryStep ==
  ASSUME Counting, NEW s \in LedgerSlot, NEW i \in 0 .. Length[s] - 1, ReceiveEntry(s, i)
  PROVE  Counting' /\ source = "Yellowstone" /\ source' = "Yellowstone"
         /\ UNCHANGED <<trackerVars, arrivals, main, step>>
<1>1. Length[s] \in Nat /\ i \in Nat
  BY Phase1Assumption DEF LedgerSlot
<1>2. Entry(s, i, i) \in EntryObservation
  BY <1>1, EntryType
<1>3. <<Entry(s, i, i)>> \in Seq(EntryObservation)
  BY <1>2
<1>4. rx \in Seq(EntryObservation) /\ Len(rx) <= source_channel_capacity
  BY DEF Counting, Phase1TypeOK
<1>5. rx' = SendAll(rx, <<Entry(s, i, i)>>)
  BY DEF ReceiveEntry
<1>6. rx' \in Seq(EntryObservation) /\ Len(rx') <= source_channel_capacity
  BY <1>3, <1>4, <1>5, SendAllFacts
<1>7. /\ source = "Yellowstone"
      /\ UNCHANGED <<source, slot_offset, highest_slot, gateVars, ord_rx, trackerVars, step, main>>
  BY DEF ReceiveEntry
<1> QED BY <1>6, <1>7 DEF Counting, Phase1TypeOK, gateVars, trackerVars

(* WarmUp: the head of the source's channel goes to the tracker's, or is   *)
(* dropped.                                                                *)
LEMMA WarmStep ==
  ASSUME Counting, WarmUp
  PROVE  /\ Counting'
         /\ rx # <<>> /\ rx' = Tail(rx)
         /\ ord_rx' \in Seq(EntryObservation)
         /\ Len(ord_rx) \in Nat /\ DOMAIN ord_rx = 1 .. Len(ord_rx)
         /\ DOMAIN ord_rx' = 1 .. Len(ord_rx')
         /\ Len(ord_rx') \in Len(ord_rx) .. Len(ord_rx) + 1
         /\ \A i \in 1 .. Len(ord_rx) : ord_rx'[i] = ord_rx[i]
         /\ \A i \in DOMAIN ord_rx' : i \notin 1 .. Len(ord_rx) =>
              i = Len(ord_rx) + 1 /\ ord_rx'[i] = rx[1]
         /\ UNCHANGED <<sourceVars, trackerVars, step, main>>
<1> DEFINE obs == Head(rx)
<1>1. /\ rx \in Seq(EntryObservation) /\ ord_rx \in Seq(EntryObservation)
      /\ Len(rx) <= source_channel_capacity /\ Len(ord_rx) <= source_channel_capacity
  BY DEF Counting, Phase1TypeOK
<1>2. rx # <<>> /\ rx' = Tail(rx)
  BY DEF WarmUp
<1>3. obs = rx[1] /\ obs \in EntryObservation /\ rx' \in Seq(EntryObservation)
      /\ Len(rx') <= source_channel_capacity
  BY <1>1, <1>2, TailFacts, Phase1Assumption
<1>4. obs.slot \in LedgerSlot
  BY <1>3 DEF EntryObservation
<1>5. /\ startup_slot' \in {startup_slot, obs.slot}
      /\ warm' = (warm \/ (startup_slot # 0 /\ obs.slot > startup_slot))
      /\ ord_rx' = ord_rx \/ ord_rx' = SendAll(ord_rx, <<obs>>)
      /\ gate' \in {"Run", "Exit"}
      /\ UNCHANGED <<sourceVars, trackerVars, step, main>>
  BY DEF WarmUp
<1> HIDE DEF obs
<1>6. /\ ord_rx' \in Seq(EntryObservation) /\ Len(ord_rx') <= source_channel_capacity
      /\ Len(ord_rx) \in Nat /\ DOMAIN ord_rx = 1 .. Len(ord_rx)
      /\ DOMAIN ord_rx' = 1 .. Len(ord_rx')
      /\ Len(ord_rx') \in Len(ord_rx) .. Len(ord_rx) + 1
      /\ \A i \in 1 .. Len(ord_rx) : ord_rx'[i] = ord_rx[i]
      /\ \A i \in DOMAIN ord_rx' : i \notin 1 .. Len(ord_rx) =>
           i = Len(ord_rx) + 1 /\ ord_rx'[i] = rx[1]
  <2>1. CASE ord_rx' = ord_rx
    BY <1>1, <2>1
  <2>2. CASE ord_rx' = SendAll(ord_rx, <<obs>>)
    <3> DEFINE items == <<obs>>
    <3>1. items \in Seq(EntryObservation) /\ Len(items) = 1 /\ items[1] = obs
      BY <1>3
    <3> HIDE DEF items
    <3>2. /\ ord_rx' \in Seq(EntryObservation) /\ Len(ord_rx') <= source_channel_capacity
          /\ Len(ord_rx) \in Nat
          /\ DOMAIN ord_rx = 1 .. Len(ord_rx) /\ DOMAIN ord_rx' = 1 .. Len(ord_rx')
          /\ Len(ord_rx') \in Len(ord_rx) .. Len(ord_rx) + Len(items)
          /\ \A i \in 1 .. Len(ord_rx) : ord_rx'[i] = ord_rx[i]
          /\ \A i \in Len(ord_rx) + 1 .. Len(ord_rx') : ord_rx'[i] = items[i - Len(ord_rx)]
      BY <1>1, <2>2, <3>1, SendAllFacts DEF items
    <3> QED BY <1>3, <3>1, <3>2
  <2> QED BY <1>5, <2>1, <2>2
<1>7. startup_slot' \in LedgerSlot \cup {0} /\ warm' \in BOOLEAN
  BY <1>4, <1>5 DEF Counting, Phase1TypeOK
<1>8. UNCHANGED <<source, slot_offset, highest_slot, high_water, in_progress, step, main>>
  BY <1>5 DEF sourceVars, trackerVars
<1>9. Counting'
  BY <1>3, <1>5, <1>6, <1>7, <1>8 DEF Counting, Phase1TypeOK
<1> QED BY <1>2, <1>5, <1>6, <1>9

LEMMA ObserveCounting == ASSUME Counting, Tracked, Observe PROVE Counting'
<1>1. /\ ord_rx \in Seq(EntryObservation) /\ ord_rx # <<>> /\ ord_rx' = Tail(ord_rx)
      /\ Len(ord_rx) <= source_channel_capacity
  BY DEF Counting, Phase1TypeOK, Observe
<1>2. ord_rx' \in Seq(EntryObservation) /\ Len(ord_rx') <= source_channel_capacity
  BY <1>1, TailFacts, Phase1Assumption
<1>3. Head(ord_rx).slot \in LedgerSlot
      /\ DOMAIN in_progress' = DOMAIN in_progress \cup {Head(ord_rx).slot}
  BY <1>1, ObserveTracked
<1>4. high_water' \in LedgerSlot \cup {0} /\ step' = "Seal"
      /\ UNCHANGED <<sourceVars, rx, gateVars, main>>
  BY <1>3 DEF Observe, Counting, Phase1TypeOK
<1> QED BY <1>2, <1>3, <1>4 DEF Counting, Phase1TypeOK, sourceVars, gateVars

LEMMA SealCounting == ASSUME Counting, Tracked, maybe_seal PROVE Counting'
<1> DEFINE slots == {s \in DOMAIN in_progress : high_water > seal_lag
                                                /\ s <= high_water - seal_lag}
<1>1. SealSlots(slots) /\ step' \in {"Recv", "Exit"}
      /\ UNCHANGED <<sourceVars, rx, gateVars, ord_rx, high_water, main>>
  BY DEF maybe_seal
<1>2. DOMAIN in_progress' = DOMAIN in_progress \ slots
  BY <1>1, SealTracked
<1>3. DOMAIN in_progress \subseteq LedgerSlot /\ high_water \in LedgerSlot \cup {0}
  BY DEF Counting, Phase1TypeOK
<1>4. seal_lag \in Nat /\ high_water \in Nat
  BY <1>3, SlotsPositive, Phase1Assumption
<1>5. \A s \in DOMAIN in_progress' : s > high_water - seal_lag
  <2> SUFFICES ASSUME NEW s \in DOMAIN in_progress' PROVE s > high_water - seal_lag
    OBVIOUS
  <2>1. s \in DOMAIN in_progress /\ s \notin slots
    BY <1>2
  <2>2. s \in Nat /\ s > 0
    <3>1. s \in LedgerSlot
      BY <1>3, <2>1
    <3>2. s \in Nat \ {0}
      BY <3>1, SlotsPositive
    <3> QED BY <3>2
  <2>3. ~(high_water > seal_lag /\ s <= high_water - seal_lag)
    BY <2>1
  <2> QED BY <1>4, <2>2, <2>3
<1> QED BY <1>1, <1>2, <1>3, <1>5 DEF Counting, Phase1TypeOK, sourceVars, gateVars

LEMMA FlushCounting ==
  ASSUME Counting, Tracked, flush_all
  PROVE  Counting' /\ DOMAIN in_progress' = {} /\ SealSlots(DOMAIN in_progress)
<1>1. SealSlots(DOMAIN in_progress) /\ main' = "Report"
      /\ UNCHANGED <<sourceVars, rx, gateVars, ord_rx, high_water, step>>
  BY DEF flush_all, Flushed
<1>2. DOMAIN in_progress' = {}
  BY <1>1, SealTracked
<1> QED BY <1>1, <1>2 DEF Counting, Phase1TypeOK, sourceVars, gateVars

LEMMA ReconnectStep ==
  ASSUME Counting, Reconnect
  PROVE  /\ Counting'
         /\ ~renumbered' => ~renumbered /\ \A s : Base(s)' = 0 /\ Base(s) = 0
         /\ UNCHANGED <<source, rx, gateVars, ord_rx, trackerVars, step, main>>
<1>1. slot_offset' = <<>> /\ highest_slot' = 0
      /\ renumbered' = (renumbered \/ DOMAIN slot_offset # {})
      /\ UNCHANGED <<source, rx, gateVars, ord_rx, trackerVars, step, main>>
  BY DEF Reconnect
<1>2. DOMAIN <<>> = {}
  OBVIOUS
<1>3. DOMAIN slot_offset' = {}
  BY <1>1, <1>2
<1>4. Counting'
  BY <1>1, <1>3 DEF Counting, Phase1TypeOK, gateVars, trackerVars
<1>5. \A s : Base(s)' = 0
  BY <1>3 DEF Base
<1>6. ~renumbered' => ~renumbered /\ \A s : Base(s) = 0
  BY <1>1 DEF Base
<1> QED BY <1>1, <1>4, <1>5, <1>6

(* The threads' steps that touch neither channels nor slots.               *)
LEMMA QuietStep ==
  ASSUME Counting, TrackerIdle \/ Stop \/ UNCHANGED phase1Vars
  PROVE  /\ Counting'
         /\ UNCHANGED <<sourceVars, rx, gateVars, ord_rx, trackerVars>>
         /\ step' = "Recv" => step = "Recv"
         /\ main' = "Report" => main = "Report"
<1>1. UNCHANGED <<sourceVars, rx, gateVars, ord_rx, trackerVars>>
      /\ step' \in {step, "Exit"} /\ main' \in {main, "Flush"}
  BY DEF TrackerIdle, Stop, phase1Vars
<1> QED BY <1>1 DEF Counting, Phase1TypeOK, sourceVars, gateVars, trackerVars

LEMMA SourceTracked ==
  ASSUME Tracked, Whole, UNCHANGED trackerVars
  PROVE  Tracked' /\ Whole'
BY DEF Tracked, Whole, trackerVars, seenVars

LEMMA Phase1Start == Phase1Init => Counting /\ Tracked /\ Whole
<1> SUFFICES ASSUME Phase1Init PROVE Counting /\ Tracked /\ Whole
  OBVIOUS
<1>1. DOMAIN <<>> = {} /\ Len(<<>>) = 0 /\ \A S : <<>> \in Seq(S)
  OBVIOUS
<1>2. source_channel_capacity \in Nat
  BY Phase1Assumption
<1>3. Counting
  <2>1. /\ source \in {"ShredStream", "Yellowstone"}
        /\ slot_offset = <<>> /\ highest_slot = 0 /\ rx = <<>> /\ ord_rx = <<>>
        /\ startup_slot = 0 /\ warm = FALSE /\ gate = "Run"
        /\ high_water = 0 /\ in_progress = <<>> /\ step = "Recv" /\ main = "Run"
    BY DEF Phase1Init
  <2>2. DOMAIN slot_offset = {} /\ DOMAIN in_progress = {}
    BY <1>1, <2>1
  <2>3. /\ rx \in Seq(EntryObservation) /\ ord_rx \in Seq(EntryObservation)
        /\ Len(rx) <= source_channel_capacity /\ Len(ord_rx) <= source_channel_capacity
    BY <1>2, <2>1
  <2> QED BY <2>1, <2>2, <2>3 DEF Counting, Phase1TypeOK
<1>4. Tracked
  <2>1. /\ in_progress = <<>> /\ arrivals = <<>>
        /\ sealed_reports = <<>> /\ reported = <<>>
    BY DEF Phase1Init
  <2>2. sealed_reports \in Seq(Report) /\ reported \in Seq(Seq(EntryObservation))
    BY <1>1, <2>1
  <2>3. DOMAIN in_progress = {} /\ DOMAIN arrivals = {} /\ DOMAIN sealed_reports = {}
    BY <1>1, <2>1
  <2>4. IsFiniteSet({})
    BY FS_EmptySet
  <2> QED BY <2>1, <2>2, <2>3, <2>4 DEF Tracked
<1>5. Whole
  <2>1. /\ in_progress = <<>> /\ sealed_reports = <<>>
        /\ observed = [s \in LedgerSlot |-> <<>>]
    BY DEF Phase1Init
  <2>2. DOMAIN in_progress = {} /\ DOMAIN sealed_reports = {}
    BY <1>1, <2>1
  <2>3. observed \in [LedgerSlot -> Seq(EntryObservation)]
    BY <1>1, <2>1
  <2> QED BY <2>2, <2>3 DEF Whole
<1> QED BY <1>3, <1>4, <1>5

LEMMA Phase1Step ==
  Counting /\ Tracked /\ Whole /\ [Phase1Next]_phase1Vars => Counting' /\ Tracked' /\ Whole'
<1> SUFFICES ASSUME Counting, Tracked, Whole, [Phase1Next]_phase1Vars
             PROVE  Counting' /\ Tracked' /\ Whole'
  OBVIOUS
<1>1. CASE \E b \in Batch : ReceiveBatch(b)
  BY <1>1, BatchStep, SourceTracked
<1>2. CASE \E s \in LedgerSlot : \E i \in 0 .. Length[s] - 1 : ReceiveEntry(s, i)
  BY <1>2, EntryStep, SourceTracked
<1>3. CASE Reconnect
  BY <1>3, ReconnectStep, SourceTracked
<1>4. CASE WarmUp
  BY <1>4, WarmStep, SourceTracked
<1>5. CASE Observe
  BY <1>5, ObserveCounting, ObserveTracked, ObserveWhole DEF Counting, Phase1TypeOK
<1>6. CASE maybe_seal
  <2>1. UNCHANGED seenVars /\ \E slots : slots \subseteq DOMAIN in_progress /\ SealSlots(slots)
    BY <1>6 DEF maybe_seal
  <2> QED BY <1>6, <2>1, SealCounting, SealTracked, SealWhole
<1>7. CASE flush_all
  <2>1. UNCHANGED seenVars
    BY <1>7 DEF flush_all
  <2> QED BY <1>7, <2>1, FlushCounting, SealTracked, SealWhole
<1>8. CASE TrackerIdle \/ Stop \/ UNCHANGED phase1Vars
  BY <1>8, QuietStep, SourceTracked
<1> QED BY <1>1, <1>2, <1>3, <1>4, <1>5, <1>6, <1>7, <1>8 DEF Phase1Next

LEMMA Phase1Invariant == Phase1Spec => [](Counting /\ Tracked /\ Whole)
BY Phase1Start, Phase1Step, PTL DEF Phase1Spec

(* Types; the channels are bounded, and once the tracker waits again it    *)
(* keeps only slots within the seal lag of the newest.                     *)
THEOREM Phase1TypeCorrect == Phase1Spec => []Phase1TypeOK
<1>1. Counting => Phase1TypeOK
  BY DEF Counting
<1> QED BY <1>1, Phase1Invariant, PTL

(* Every report, from the tracker or from the flush, is true of all that   *)
(* was ever observed of its slot, however many observations there were and *)
(* in whatever order, unless the slot came back after its seal.            *)
THEOREM ReportsTrue == Phase1Spec => []ReportsAreTrue
<1>1. Counting /\ Tracked /\ Whole => ReportsAreTrue
  <2> SUFFICES ASSUME Tracked, Whole, NEW n \in DOMAIN sealed_reports
               PROVE  LET slot == sealed_reports[n].slot IN
                      Says(sealed_reports[n],
                           IF slot \in returned THEN reported[n] ELSE observed[slot])
    BY DEF ReportsAreTrue
  <2> DEFINE slot == sealed_reports[n].slot
  <2>1. Says(sealed_reports[n], reported[n])
    BY DEF Tracked
  <2>2. slot \in LedgerSlot
    <3>1. sealed_reports[n] \in Report
      BY DEF Tracked
    <3> QED BY <3>1 DEF Report, build_report
  <2>3. slot \notin returned => reported[n] = observed[slot]
    BY <2>2 DEF Whole
  <2> QED BY <2>1, <2>3
<1> QED BY <1>1, Phase1Invariant, PTL

-----------------------------------------------------------------------------
(* After the flush the tracker finishes what it has in hand, and no more.  *)
Finishing ==
  main = "Report" =>
    /\ step = "Recv" => DOMAIN arrivals = {}
    /\ \E s : DOMAIN arrivals \subseteq {s}
    /\ \A s \in DOMAIN arrivals : Len(arrivals[s]) <= 1

LEMMA StepFinishing ==
  Counting /\ Tracked /\ Finishing /\ [Phase1Next]_phase1Vars => Finishing'
<1> SUFFICES ASSUME Counting, Tracked, Finishing, [Phase1Next]_phase1Vars PROVE Finishing'
  OBVIOUS
<1>1. ASSUME UNCHANGED arrivals, step' = "Recv" => step = "Recv",
             main' = "Report" => main = "Report"
      PROVE  Finishing'
  BY <1>1 DEF Finishing
<1>2. CASE \E b \in Batch : ReceiveBatch(b)
  BY <1>1, <1>2, BatchStep DEF trackerVars
<1>3. CASE \E s \in LedgerSlot : \E i \in 0 .. Length[s] - 1 : ReceiveEntry(s, i)
  BY <1>1, <1>3, EntryStep DEF trackerVars
<1>4. CASE Reconnect
  BY <1>1, <1>4, ReconnectStep DEF trackerVars
<1>5. CASE WarmUp
  BY <1>1, <1>5, WarmStep DEF trackerVars
<1>6. CASE Observe
  <2> SUFFICES ASSUME main' = "Report" PROVE Finishing'
    BY DEF Finishing
  <2>1. main = "Report" /\ step = "Recv" /\ step' = "Seal"
    BY <1>6 DEF Observe
  <2>2. DOMAIN arrivals = {} /\ DOMAIN in_progress = {}
    BY <2>1 DEF Finishing, Tracked
  <2>3. ord_rx \in Seq(EntryObservation)
    BY DEF Counting, Phase1TypeOK
  <2>4. PICK s : /\ DOMAIN in_progress' = {s} /\ Tracked'
                 /\ arrivals'[s] = Append(<<>>, Head(ord_rx))
    BY <1>6, <2>2, <2>3, ObserveTracked
  <2>5. DOMAIN arrivals' = {s}
    BY <2>4 DEF Tracked
  <2>6. Len(arrivals'[s]) <= 1
    <3>1. Len(Append(<<>>, Head(ord_rx))) <= 1
      OBVIOUS
    <3> QED BY <2>4, <3>1
  <2>7. \A t \in DOMAIN arrivals' : Len(arrivals'[t]) <= 1
    BY <2>5, <2>6
  <2>8. \E t : DOMAIN arrivals' \subseteq {t}
    BY <2>5
  <2>9. step' # "Recv"
    BY <2>1
  <2> QED BY <2>7, <2>8, <2>9 DEF Finishing
<1>7. CASE maybe_seal
  <2> SUFFICES ASSUME main' = "Report" PROVE Finishing'
    BY DEF Finishing
  <2>1. main = "Report" /\ step' = "Exit"
    BY <1>7 DEF maybe_seal, stop
  <2>2. PICK slots : slots \subseteq DOMAIN in_progress /\ SealSlots(slots)
    BY <1>7 DEF maybe_seal
  <2>3. /\ DOMAIN in_progress' = DOMAIN in_progress \ slots /\ Tracked'
        /\ \A s \in DOMAIN in_progress' : arrivals'[s] = arrivals[s]
    BY <2>2, SealTracked
  <2>4. DOMAIN arrivals' \subseteq DOMAIN arrivals
        /\ \A s \in DOMAIN arrivals' : arrivals'[s] = arrivals[s]
    BY <2>3 DEF Tracked
  <2> QED BY <2>1, <2>4 DEF Finishing
<1>8. CASE flush_all
  <2>1. DOMAIN in_progress' = {} /\ Tracked'
    BY <1>8, FlushCounting, SealTracked
  <2>2. DOMAIN arrivals' = {}
    BY <2>1 DEF Tracked
  <2> QED BY <2>2 DEF Finishing
<1>9. CASE TrackerIdle \/ Stop \/ UNCHANGED phase1Vars
  BY <1>1, <1>9, QuietStep DEF trackerVars
<1> QED BY <1>2, <1>3, <1>4, <1>5, <1>6, <1>7, <1>8, <1>9 DEF Phase1Next

(* However the flush falls between the tracker's two halves, at most the   *)
(* one observation it had in hand is in no report.                         *)
THEOREM FlushMissesAtMostOne == Phase1Spec => []FlushLeavesAtMostOne
<1>1. Phase1Init => Finishing
  BY DEF Phase1Init, Finishing
<1>2. Finishing => FlushLeavesAtMostOne
  <2> SUFFICES ASSUME Finishing, main = "Report"
               PROVE  /\ Cardinality(DOMAIN arrivals) <= 1
                      /\ \A s \in DOMAIN arrivals : Len(arrivals[s]) <= 1
    BY DEF FlushLeavesAtMostOne
  <2>1. PICK s : DOMAIN arrivals \subseteq {s}
    BY DEF Finishing
  <2>2. IsFiniteSet({s}) /\ Cardinality({s}) = 1
    BY FS_Singleton
  <2>3. DOMAIN arrivals \in SUBSET {s}
    BY <2>1
  <2>4. Cardinality(DOMAIN arrivals) <= 1
    BY <2>2, <2>3, FS_Subset
  <2> QED BY <2>4 DEF Finishing
<1> QED BY <1>1, <1>2, StepFinishing, Phase1Invariant, PTL DEF Phase1Spec

-----------------------------------------------------------------------------
(* While a connection knows its slots, the indices of a slot rise from its *)
(* progress through the tracker's channel and the source's to its offset.  *)
Rising(q) ==
  \A i, j \in DOMAIN q :
    i < j /\ q[i].slot = q[j].slot => q[i].entry_index < q[j].entry_index
Behind(q, r) ==
  \A i \in DOMAIN q, j \in DOMAIN r :
    q[i].slot = r[j].slot => q[i].entry_index < r[j].entry_index
OffsetOf(offsets, s) == IF s \in DOMAIN offsets THEN offsets[s] ELSE 0
Below(q, offsets) == \A i \in DOMAIN q : q[i].entry_index < OffsetOf(offsets, q[i].slot)
TopOf(progress, s) == progress[s].max_index_at_arrival
Ahead(q, progress) ==
  \A i \in DOMAIN q :
    q[i].slot \in DOMAIN progress => TopOf(progress, q[i].slot) <= q[i].entry_index
Calm(progress, offsets) ==
  \A s \in DOMAIN progress :
    TopOf(progress, s) <= OffsetOf(offsets, s) /\ progress[s].out_of_order = 0
CalmReports(reports) == \A n \in DOMAIN reports : reports[n].out_of_order_count = 0

InArrivalOrder ==
  /\ Rising(ord_rx) /\ Rising(rx) /\ Behind(ord_rx, rx)
  /\ Below(ord_rx, slot_offset) /\ Below(rx, slot_offset)
  /\ Ahead(ord_rx, in_progress) /\ Ahead(rx, in_progress)
  /\ Calm(in_progress, slot_offset) /\ CalmReports(sealed_reports)

Known == source = "ShredStream" /\ ~renumbered

LEMMA ObservationType ==
  ASSUME NEW q \in Seq(EntryObservation), NEW i \in DOMAIN q
  PROVE  q[i].entry_index \in Nat /\ q[i].slot \in LedgerSlot
<1>1. q[i] \in EntryObservation
  OBVIOUS
<1> QED BY <1>1 DEF EntryObservation

LEMMA ChannelTypes ==
  Counting => rx \in Seq(EntryObservation) /\ ord_rx \in Seq(EntryObservation)
BY DEF Counting, Phase1TypeOK

LEMMA TopType == ASSUME Tracked, NEW s \in DOMAIN in_progress PROVE TopOf(in_progress, s) \in Nat
BY DEF Tracked, Matches, SlotProgress, TopOf

LEMMA BatchInOrder ==
  ASSUME Counting, Tracked, Known => InArrivalOrder, NEW b \in Batch, ReceiveBatch(b), Known'
  PROVE  InArrivalOrder'
<1>1. /\ source = "ShredStream" /\ ~renumbered'
      /\ UNCHANGED <<ord_rx, in_progress, sealed_reports>>
  BY BatchStep DEF Known, trackerVars
<1>2. ~renumbered
  BY <1>1 DEF ReceiveBatch
<1>3. InArrivalOrder
  BY <1>1, <1>2 DEF Known
<1> DEFINE m == Len(rx)
           base == OffsetOf(slot_offset, b.slot)
<1>4. /\ m \in Nat /\ DOMAIN rx = 1 .. m /\ DOMAIN rx' = 1 .. Len(rx') /\ Len(rx') \in Nat
      /\ \A i \in 1 .. m : rx'[i] = rx[i]
      /\ \A i \in m + 1 .. Len(rx') : rx'[i].slot = b.slot
                                      /\ rx'[i].entry_index = base + (i - m) - 1
      /\ m <= Len(rx') /\ Len(rx') <= m + b.n /\ b.n \in Nat
      /\ \A s : OffsetOf(slot_offset', s) = IF s = b.slot THEN OffsetOf(slot_offset, s) + b.n ELSE OffsetOf(slot_offset, s)
  <2>1. \A s : Base(s) = OffsetOf(slot_offset, s) /\ Base(s)' = OffsetOf(slot_offset', s)
    BY DEF Base, OffsetOf
  <2> QED BY <1>1, <2>1, BatchStep
<1>5. base \in Nat /\ \A s : OffsetOf(slot_offset, s) \in Nat
  BY BaseType DEF Base, OffsetOf
<1> HIDE DEF m, base
<1>6. \A i \in DOMAIN rx : rx[i].entry_index \in Nat /\ rx[i].entry_index < OffsetOf(slot_offset, rx[i].slot)
  BY <1>3, ChannelTypes, ObservationType DEF InArrivalOrder, Below
<1>7. \A i \in DOMAIN ord_rx : ord_rx[i].entry_index \in Nat
                               /\ ord_rx[i].entry_index < OffsetOf(slot_offset, ord_rx[i].slot)
  BY <1>3, ChannelTypes, ObservationType DEF InArrivalOrder, Below
<1>8. \A s : OffsetOf(slot_offset, s) <= OffsetOf(slot_offset', s)
  BY <1>4, <1>5
<1>9. \A i \in DOMAIN rx' : i \in 1 .. m \/ i \in m + 1 .. Len(rx')
  BY <1>4
<1>10. Rising(rx')
  <2> SUFFICES ASSUME NEW i \in DOMAIN rx', NEW j \in DOMAIN rx', i < j,
                      rx'[i].slot = rx'[j].slot
               PROVE  rx'[i].entry_index < rx'[j].entry_index
    BY DEF Rising
  <2>1. i \in Nat /\ j \in Nat
    BY <1>4
  <2>2. CASE j \in 1 .. m
    <3>1. i \in 1 .. m
      BY <1>4, <2>1, <2>2
    <3>2. rx'[i] = rx[i] /\ rx'[j] = rx[j] /\ i \in DOMAIN rx /\ j \in DOMAIN rx
      BY <1>4, <2>2, <3>1
    <3> QED BY <1>3, <3>2 DEF InArrivalOrder, Rising
  <2>3. CASE j \in m + 1 .. Len(rx') /\ i \in 1 .. m
    <3>1. rx'[i] = rx[i] /\ i \in DOMAIN rx
      BY <1>4, <2>3
    <3>2. rx'[j].slot = b.slot /\ rx'[j].entry_index = base + (j - m) - 1 /\ j - m >= 1
      BY <1>4, <2>1, <2>3
    <3>3. rx[i].entry_index \in Nat /\ rx[i].entry_index < base
      BY <1>6, <3>1, <3>2 DEF base
    <3> QED BY <1>4, <1>5, <2>1, <3>1, <3>2, <3>3
  <2>4. CASE j \in m + 1 .. Len(rx') /\ i \in m + 1 .. Len(rx')
    <3>1. /\ rx'[j].entry_index = base + (j - m) - 1
          /\ rx'[i].entry_index = base + (i - m) - 1
      BY <1>4, <2>4
    <3> QED BY <1>4, <1>5, <2>1, <3>1
  <2> QED BY <1>9, <2>2, <2>3, <2>4
<1>11. Behind(ord_rx, rx')
  <2> SUFFICES ASSUME NEW i \in DOMAIN ord_rx, NEW j \in DOMAIN rx',
                      ord_rx[i].slot = rx'[j].slot
               PROVE  ord_rx[i].entry_index < rx'[j].entry_index
    BY DEF Behind
  <2>1. CASE j \in 1 .. m
    <3>1. rx'[j] = rx[j] /\ j \in DOMAIN rx
      BY <1>4, <2>1
    <3> QED BY <1>3, <3>1 DEF InArrivalOrder, Behind
  <2>2. CASE j \in m + 1 .. Len(rx')
    <3>1. rx'[j].slot = b.slot /\ rx'[j].entry_index = base + (j - m) - 1 /\ j - m >= 1
          /\ j - m \in Int
      BY <1>4, <2>2
    <3>2. ord_rx[i].entry_index \in Nat /\ ord_rx[i].entry_index < base
      BY <1>7, <3>1 DEF base
    <3> QED BY <1>5, <3>1, <3>2
  <2> QED BY <1>9, <2>1, <2>2
<1>12. \A i \in DOMAIN rx' : rx'[i].entry_index < OffsetOf(slot_offset', rx'[i].slot)
  <2> SUFFICES ASSUME NEW i \in DOMAIN rx' PROVE rx'[i].entry_index < OffsetOf(slot_offset', rx'[i].slot)
    OBVIOUS
  <2>1. CASE i \in 1 .. m
    <3>1. rx'[i] = rx[i] /\ i \in DOMAIN rx
      BY <1>4, <2>1
    <3>2. rx[i].entry_index \in Nat /\ rx[i].entry_index < OffsetOf(slot_offset, rx[i].slot)
      BY <1>6, <3>1
    <3>3. OffsetOf(slot_offset, rx'[i].slot) \in Nat /\ OffsetOf(slot_offset', rx'[i].slot) \in Nat
          /\ OffsetOf(slot_offset, rx'[i].slot) <= OffsetOf(slot_offset', rx'[i].slot)
      BY <1>4, <1>5, <1>8
    <3> QED BY <3>1, <3>2, <3>3
  <2>2. CASE i \in m + 1 .. Len(rx')
    <3>1. rx'[i].slot = b.slot /\ rx'[i].entry_index = base + (i - m) - 1
          /\ i - m <= b.n /\ i - m \in Int
      BY <1>4, <2>2
    <3>2. OffsetOf(slot_offset', rx'[i].slot) = base + b.n
      BY <1>4, <3>1 DEF base
    <3> QED BY <1>4, <1>5, <3>1, <3>2
  <2> QED BY <1>9, <2>1, <2>2
<1>13. \A i \in DOMAIN rx' : rx'[i].slot \in DOMAIN in_progress =>
         TopOf(in_progress, rx'[i].slot) <= rx'[i].entry_index
  <2> SUFFICES ASSUME NEW i \in DOMAIN rx', rx'[i].slot \in DOMAIN in_progress
               PROVE  TopOf(in_progress, rx'[i].slot) <= rx'[i].entry_index
    OBVIOUS
  <2>1. CASE i \in 1 .. m
    <3>1. rx'[i] = rx[i] /\ i \in DOMAIN rx
      BY <1>4, <2>1
    <3> QED BY <1>3, <3>1 DEF InArrivalOrder, Ahead
  <2>2. CASE i \in m + 1 .. Len(rx')
    <3>1. rx'[i].slot = b.slot /\ rx'[i].entry_index = base + (i - m) - 1
          /\ i - m >= 1 /\ i - m \in Int
      BY <1>4, <2>2
    <3>2. TopOf(in_progress, b.slot) <= base /\ TopOf(in_progress, b.slot) \in Nat
      BY <1>3, <3>1, TopType DEF InArrivalOrder, Calm, base
    <3> QED BY <1>5, <3>1, <3>2
  <2> QED BY <1>9, <2>1, <2>2
<1>14. \A i \in DOMAIN ord_rx : ord_rx[i].entry_index < OffsetOf(slot_offset', ord_rx[i].slot)
  <2> SUFFICES ASSUME NEW i \in DOMAIN ord_rx
               PROVE  ord_rx[i].entry_index < OffsetOf(slot_offset', ord_rx[i].slot)
    OBVIOUS
  <2>1. OffsetOf(slot_offset, ord_rx[i].slot) \in Nat /\ OffsetOf(slot_offset', ord_rx[i].slot) \in Nat
        /\ OffsetOf(slot_offset, ord_rx[i].slot) <= OffsetOf(slot_offset', ord_rx[i].slot)
    BY <1>4, <1>5, <1>8
  <2> QED BY <1>7, <2>1
<1>15. ASSUME NEW s \in DOMAIN in_progress
       PROVE  TopOf(in_progress, s) <= OffsetOf(slot_offset', s) /\ in_progress[s].out_of_order = 0
  <2>1. TopOf(in_progress, s) <= OffsetOf(slot_offset, s) /\ in_progress[s].out_of_order = 0
    BY <1>3 DEF InArrivalOrder, Calm
  <2>2. /\ OffsetOf(slot_offset, s) \in Nat /\ OffsetOf(slot_offset', s) \in Nat
        /\ OffsetOf(slot_offset, s) <= OffsetOf(slot_offset', s)
        /\ TopOf(in_progress, s) \in Nat
    BY <1>4, <1>5, <1>8, TopType
  <2> QED BY <2>1, <2>2
<1>16. Below(rx', slot_offset') /\ Below(ord_rx', slot_offset')
  BY <1>1, <1>12, <1>14 DEF Below
<1>17. Ahead(rx', in_progress') /\ Ahead(ord_rx', in_progress')
  BY <1>1, <1>3, <1>13 DEF Ahead, InArrivalOrder
<1>18. Calm(in_progress', slot_offset') /\ CalmReports(sealed_reports')
  BY <1>1, <1>3, <1>15 DEF Calm, InArrivalOrder
<1> QED BY <1>1, <1>3, <1>10, <1>11, <1>16, <1>17, <1>18 DEF InArrivalOrder

LEMMA WarmInOrder ==
  ASSUME Counting, Tracked, InArrivalOrder, WarmUp
  PROVE  InArrivalOrder'
<1> DEFINE m == Len(ord_rx)
           k == Len(rx)
<1>1. /\ rx # <<>> /\ rx' = Tail(rx)
      /\ m \in Nat /\ DOMAIN ord_rx = 1 .. m
      /\ DOMAIN ord_rx' \subseteq 1 .. m + 1
      /\ \A i \in 1 .. m : ord_rx'[i] = ord_rx[i]
      /\ \A i \in DOMAIN ord_rx' : i \notin 1 .. m => i = m + 1 /\ ord_rx'[i] = rx[1]
      /\ UNCHANGED <<slot_offset, in_progress, sealed_reports>>
  BY WarmStep DEF sourceVars, trackerVars
<1>2. /\ k \in Nat \ {0} /\ DOMAIN rx = 1 .. k /\ DOMAIN rx' = 1 .. k - 1
      /\ \A i \in 1 .. k - 1 : rx'[i] = rx[i + 1]
  BY <1>1, ChannelTypes, TailFacts
<1> HIDE DEF m, k
<1>3. /\ 1 \in DOMAIN rx
      /\ \A i \in DOMAIN rx' : i \in Nat /\ i + 1 \in DOMAIN rx /\ 1 < i + 1 /\ rx'[i] = rx[i + 1]
  BY <1>2
<1>4. /\ \A i \in DOMAIN ord_rx' : \/ i \in DOMAIN ord_rx /\ ord_rx'[i] = ord_rx[i]
                                   \/ i = m + 1 /\ ord_rx'[i] = rx[1]
      /\ \A i \in DOMAIN ord_rx : i < m + 1 /\ i \in Nat
  BY <1>1
<1>5. Rising(rx')
  <2> SUFFICES ASSUME NEW i \in DOMAIN rx', NEW j \in DOMAIN rx', i < j,
                      rx'[i].slot = rx'[j].slot
               PROVE  rx'[i].entry_index < rx'[j].entry_index
    BY DEF Rising
  <2>1. i + 1 \in DOMAIN rx /\ j + 1 \in DOMAIN rx /\ i + 1 < j + 1
        /\ rx'[i] = rx[i + 1] /\ rx'[j] = rx[j + 1]
    BY <1>3
  <2> QED BY <2>1 DEF InArrivalOrder, Rising
<1>6. Behind(ord_rx', rx')
  <2> SUFFICES ASSUME NEW i \in DOMAIN ord_rx', NEW j \in DOMAIN rx',
                      ord_rx'[i].slot = rx'[j].slot
               PROVE  ord_rx'[i].entry_index < rx'[j].entry_index
    BY DEF Behind
  <2>1. j + 1 \in DOMAIN rx /\ 1 < j + 1 /\ rx'[j] = rx[j + 1]
    BY <1>3
  <2>2. CASE i \in DOMAIN ord_rx /\ ord_rx'[i] = ord_rx[i]
    BY <2>1, <2>2 DEF InArrivalOrder, Behind
  <2>3. CASE ord_rx'[i] = rx[1]
    BY <1>3, <2>1, <2>3 DEF InArrivalOrder, Rising
  <2> QED BY <1>4, <2>2, <2>3
<1>7. Rising(ord_rx')
  <2> SUFFICES ASSUME NEW i \in DOMAIN ord_rx', NEW j \in DOMAIN ord_rx', i < j,
                      ord_rx'[i].slot = ord_rx'[j].slot
               PROVE  ord_rx'[i].entry_index < ord_rx'[j].entry_index
    BY DEF Rising
  <2>1. i \in 1 .. m + 1 /\ j \in 1 .. m + 1
    BY <1>1
  <2>2. i \in DOMAIN ord_rx /\ ord_rx'[i] = ord_rx[i]
    BY <1>1, <1>4, <2>1
  <2>3. CASE j \in DOMAIN ord_rx /\ ord_rx'[j] = ord_rx[j]
    BY <2>2, <2>3 DEF InArrivalOrder, Rising
  <2>4. CASE ord_rx'[j] = rx[1]
    BY <1>3, <2>2, <2>4 DEF InArrivalOrder, Behind
  <2> QED BY <1>4, <2>3, <2>4
<1>8. Below(rx', slot_offset) /\ Ahead(rx', in_progress)
  BY <1>3 DEF InArrivalOrder, Below, Ahead
<1>9. Below(ord_rx', slot_offset) /\ Ahead(ord_rx', in_progress)
  BY <1>3, <1>4 DEF InArrivalOrder, Below, Ahead
<1>10. (\A s : OffsetOf(slot_offset', s) = OffsetOf(slot_offset, s))
       /\ (\A s : TopOf(in_progress', s) = TopOf(in_progress, s))
  BY <1>1 DEF OffsetOf, TopOf
<1>11. Below(rx', slot_offset') /\ Ahead(rx', in_progress')
       /\ Below(ord_rx', slot_offset') /\ Ahead(ord_rx', in_progress')
  BY <1>1, <1>8, <1>9, <1>10 DEF Below, Ahead
<1>12. Calm(in_progress', slot_offset') /\ CalmReports(sealed_reports')
  BY <1>1, <1>10 DEF InArrivalOrder, Calm, CalmReports
<1> QED BY <1>5, <1>6, <1>7, <1>11, <1>12 DEF InArrivalOrder

LEMMA ObserveInOrder ==
  ASSUME Counting, Tracked, InArrivalOrder, Observe
  PROVE  InArrivalOrder'
<1> DEFINE obs == Head(ord_rx)
           s == obs.slot
           x == obs.entry_index
           k == Len(ord_rx)
           p == IF s \in DOMAIN in_progress THEN in_progress[s] ELSE NewProgress
<1>1. ord_rx \in Seq(EntryObservation) /\ rx \in Seq(EntryObservation)
  BY ChannelTypes
<1>2. ord_rx # <<>> /\ ord_rx' = Tail(ord_rx)
      /\ UNCHANGED <<slot_offset, rx, sealed_reports>>
  BY DEF Observe, sourceVars
<1>3. /\ k \in Nat \ {0} /\ DOMAIN ord_rx = 1 .. k /\ DOMAIN ord_rx' = 1 .. k - 1
      /\ \A i \in 1 .. k - 1 : ord_rx'[i] = ord_rx[i + 1]
      /\ obs = ord_rx[1]
  BY <1>1, <1>2, TailFacts
<1>4. /\ obs \in EntryObservation /\ s \in LedgerSlot
      /\ DOMAIN in_progress' = DOMAIN in_progress \cup {s}
      /\ in_progress'[s] = Progress(p, obs)
      /\ p \in SlotProgress
      /\ \A t \in DOMAIN in_progress \ {s} : in_progress'[t] = in_progress[t]
  BY <1>1, ObserveTracked
<1>5. x \in Nat
  BY <1>4 DEF EntryObservation
<1>6. p.max_index_at_arrival <= x /\ p.out_of_order = 0 /\ p.max_index_at_arrival \in Nat
  <2>1. CASE s \in DOMAIN in_progress
    <3>1. 1 \in DOMAIN ord_rx
      BY <1>3
    <3>2. TopOf(in_progress, ord_rx[1].slot) <= ord_rx[1].entry_index
      BY <1>3, <2>1, <3>1 DEF InArrivalOrder, Ahead
    <3>3. in_progress[s].out_of_order = 0
      BY <2>1 DEF InArrivalOrder, Calm
    <3>4. p = in_progress[s] /\ p.max_index_at_arrival \in Nat
      BY <2>1, <1>4 DEF SlotProgress
    <3> QED BY <1>3, <3>2, <3>3, <3>4 DEF TopOf
  <2>2. CASE s \notin DOMAIN in_progress
    BY <1>5, <2>2 DEF NewProgress
  <2> QED BY <2>1, <2>2
<1> HIDE DEF p
<1>7. /\ in_progress'[s].max_index_at_arrival = x
      /\ in_progress'[s].out_of_order = 0
  BY <1>4, <1>5, <1>6 DEF Progress
<1> HIDE DEF obs, s, x, k
<1>8. ord_rx[1].slot = s /\ ord_rx[1].entry_index = x /\ 1 \in DOMAIN ord_rx
  BY <1>3 DEF s, x
<1>9. \A i \in DOMAIN ord_rx' : i \in Nat /\ i + 1 \in DOMAIN ord_rx /\ 1 < i + 1
                                /\ ord_rx'[i] = ord_rx[i + 1]
  BY <1>3
<1>10. Rising(ord_rx')
  <2> SUFFICES ASSUME NEW i \in DOMAIN ord_rx', NEW j \in DOMAIN ord_rx', i < j,
                      ord_rx'[i].slot = ord_rx'[j].slot
               PROVE  ord_rx'[i].entry_index < ord_rx'[j].entry_index
    BY DEF Rising
  <2>1. i + 1 \in DOMAIN ord_rx /\ j + 1 \in DOMAIN ord_rx /\ i + 1 < j + 1
        /\ ord_rx'[i] = ord_rx[i + 1] /\ ord_rx'[j] = ord_rx[j + 1]
    BY <1>9
  <2> QED BY <2>1 DEF InArrivalOrder, Rising
<1>11. Behind(ord_rx', rx) /\ Below(ord_rx', slot_offset)
  BY <1>9 DEF InArrivalOrder, Behind, Below
<1>12. (\A t : OffsetOf(slot_offset', t) = OffsetOf(slot_offset, t))
       /\ (\A t \in DOMAIN in_progress' : t # s => t \in DOMAIN in_progress
             /\ TopOf(in_progress', t) = TopOf(in_progress, t))
       /\ TopOf(in_progress', s) = x
  BY <1>2, <1>4, <1>7 DEF OffsetOf, TopOf
<1>13. \A i \in DOMAIN ord_rx' : ord_rx'[i].slot \in DOMAIN in_progress' =>
         TopOf(in_progress', ord_rx'[i].slot) <= ord_rx'[i].entry_index
  <2> SUFFICES ASSUME NEW i \in DOMAIN ord_rx', ord_rx'[i].slot \in DOMAIN in_progress'
               PROVE  TopOf(in_progress', ord_rx'[i].slot) <= ord_rx'[i].entry_index
    OBVIOUS
  <2>1. ord_rx'[i] = ord_rx[i + 1] /\ i + 1 \in DOMAIN ord_rx /\ 1 < i + 1
    BY <1>9
  <2>2. CASE ord_rx'[i].slot = s
    <3>1. x < ord_rx'[i].entry_index
      BY <1>8, <2>1, <2>2 DEF InArrivalOrder, Rising
    <3>2. ord_rx'[i].entry_index \in Nat
      BY <1>1, <2>1, ObservationType
    <3> QED BY <1>5, <1>12, <2>2, <3>1, <3>2
  <2>3. CASE ord_rx'[i].slot # s
    BY <1>12, <2>1, <2>3 DEF InArrivalOrder, Ahead
  <2> QED BY <2>2, <2>3
<1>14. \A i \in DOMAIN rx : rx[i].slot \in DOMAIN in_progress' =>
         TopOf(in_progress', rx[i].slot) <= rx[i].entry_index
  <2> SUFFICES ASSUME NEW i \in DOMAIN rx, rx[i].slot \in DOMAIN in_progress'
               PROVE  TopOf(in_progress', rx[i].slot) <= rx[i].entry_index
    OBVIOUS
  <2>1. CASE rx[i].slot = s
    <3>1. x < rx[i].entry_index
      BY <1>8, <2>1 DEF InArrivalOrder, Behind
    <3>2. rx[i].entry_index \in Nat
      BY <1>1, ObservationType
    <3> QED BY <1>5, <1>12, <2>1, <3>1, <3>2
  <2>2. CASE rx[i].slot # s
    BY <1>12, <2>2 DEF InArrivalOrder, Ahead
  <2> QED BY <2>1, <2>2
<1>15. ASSUME NEW t \in DOMAIN in_progress'
       PROVE  TopOf(in_progress', t) <= OffsetOf(slot_offset', t) /\ in_progress'[t].out_of_order = 0
  <2>1. CASE t = s
    <3>1. x < OffsetOf(slot_offset, s) /\ OffsetOf(slot_offset, s) \in Nat
      BY <1>8, BaseType DEF InArrivalOrder, Below, Base, OffsetOf
    <3> QED BY <1>5, <1>7, <1>12, <2>1, <3>1
  <2>2. CASE t # s
    <3>1. t \in DOMAIN in_progress /\ in_progress'[t] = in_progress[t]
      BY <1>4, <2>2
    <3> QED BY <1>12, <2>2, <3>1 DEF InArrivalOrder, Calm
  <2> QED BY <2>1, <2>2
<1>16. Below(ord_rx', slot_offset') /\ Below(rx', slot_offset')
  BY <1>2, <1>11, <1>12 DEF Below, InArrivalOrder
<1>17. Ahead(ord_rx', in_progress') /\ Ahead(rx', in_progress')
  BY <1>2, <1>13, <1>14 DEF Ahead
<1>18. Calm(in_progress', slot_offset') /\ CalmReports(sealed_reports')
  BY <1>2, <1>15 DEF InArrivalOrder, Calm, CalmReports
<1> QED BY <1>2, <1>10, <1>11, <1>16, <1>17, <1>18 DEF InArrivalOrder

LEMMA SealInOrder ==
  ASSUME Counting, Tracked, InArrivalOrder, NEW slots, slots \subseteq DOMAIN in_progress,
         SealSlots(slots), UNCHANGED <<sourceVars, rx, ord_rx>>
  PROVE  InArrivalOrder'
<1>1. /\ DOMAIN in_progress' \subseteq DOMAIN in_progress
      /\ \A s \in DOMAIN in_progress' : in_progress'[s] = in_progress[s]
      /\ \A n \in DOMAIN sealed_reports' :
              \/ n \in DOMAIN sealed_reports /\ sealed_reports'[n] = sealed_reports[n]
              \/ \E s \in slots : sealed_reports'[n] = build_report(s, in_progress[s])
  <2>1. /\ DOMAIN in_progress' = DOMAIN in_progress \ slots
        /\ \A s \in DOMAIN in_progress' : in_progress'[s] = in_progress[s]
    BY SealTracked
  <2>2. \A n \in DOMAIN sealed_reports' :
          \/ /\ n \in DOMAIN sealed_reports /\ sealed_reports'[n] = sealed_reports[n]
             /\ reported'[n] = reported[n]
          \/ \E s \in slots : /\ sealed_reports'[n] = build_report(s, in_progress[s])
                             /\ reported'[n] = arrivals[s]
    BY SealTracked
  <2>3. ASSUME NEW n \in DOMAIN sealed_reports'
        PROVE  \/ n \in DOMAIN sealed_reports /\ sealed_reports'[n] = sealed_reports[n]
               \/ \E s \in slots : sealed_reports'[n] = build_report(s, in_progress[s])
    BY <2>2, <2>3
  <2> QED BY <2>1, <2>3
<1>2. ASSUME NEW n \in DOMAIN sealed_reports'
      PROVE  sealed_reports'[n].out_of_order_count = 0
  <2>1. CASE n \in DOMAIN sealed_reports /\ sealed_reports'[n] = sealed_reports[n]
    BY <2>1 DEF InArrivalOrder, CalmReports
  <2>2. CASE \E s \in slots : sealed_reports'[n] = build_report(s, in_progress[s])
    <3>1. PICK s \in slots : sealed_reports'[n] = build_report(s, in_progress[s])
      BY <2>2
    <3>2. in_progress[s].out_of_order = 0
      BY DEF InArrivalOrder, Calm
    <3> QED BY <3>1, <3>2 DEF build_report
  <2> QED BY <1>1, <2>1, <2>2
<1>3. (\A s : OffsetOf(slot_offset', s) = OffsetOf(slot_offset, s))
      /\ (\A s \in DOMAIN in_progress' : TopOf(in_progress', s) = TopOf(in_progress, s))
  BY <1>1 DEF OffsetOf, TopOf, sourceVars
<1>4. Ahead(ord_rx', in_progress') /\ Ahead(rx', in_progress')
      /\ Below(ord_rx', slot_offset') /\ Below(rx', slot_offset')
  BY <1>1, <1>3 DEF InArrivalOrder, Ahead, Below
<1>5. Calm(in_progress', slot_offset') /\ CalmReports(sealed_reports')
  BY <1>1, <1>2, <1>3 DEF InArrivalOrder, Calm, CalmReports
<1> QED BY <1>4, <1>5 DEF InArrivalOrder

LEMMA StepInOrder ==
  Counting /\ Tracked /\ (Known => InArrivalOrder) /\ [Phase1Next]_phase1Vars
    => (Known => InArrivalOrder)'
<1> SUFFICES ASSUME Counting, Tracked, Known => InArrivalOrder,
                    [Phase1Next]_phase1Vars, Known'
             PROVE  InArrivalOrder'
  OBVIOUS
<1>1. ASSUME UNCHANGED <<rx, ord_rx, in_progress, sealed_reports>>, InArrivalOrder,
             \A s : OffsetOf(slot_offset', s) = OffsetOf(slot_offset, s)
      PROVE  InArrivalOrder'
  BY <1>1 DEF InArrivalOrder, Below, Calm
<1>2. CASE \E b \in Batch : ReceiveBatch(b)
  BY <1>2, BatchInOrder
<1>3. CASE \E s \in LedgerSlot : \E i \in 0 .. Length[s] - 1 : ReceiveEntry(s, i)
  BY <1>3, EntryStep DEF Known
<1>4. CASE Reconnect
  <2>1. ~renumbered /\ \A s : OffsetOf(slot_offset', s) = 0 /\ OffsetOf(slot_offset, s) = 0
    BY <1>4, ReconnectStep DEF Known, Base, OffsetOf
  <2>2. UNCHANGED <<source, rx, ord_rx, in_progress, sealed_reports>>
    BY <1>4, ReconnectStep DEF trackerVars
  <2> QED BY <1>1, <2>1, <2>2 DEF Known
<1>5. CASE WarmUp
  <2>1. Known
    BY <1>5, WarmStep DEF Known, sourceVars
  <2> QED BY <1>5, <2>1, WarmInOrder
<1>6. CASE Observe
  <2>1. Known
    BY <1>6 DEF Known, Observe, sourceVars
  <2> QED BY <1>6, <2>1, ObserveInOrder
<1>7. CASE maybe_seal
  <2>1. Known /\ UNCHANGED <<sourceVars, rx, ord_rx>>
        /\ \E slots : slots \subseteq DOMAIN in_progress /\ SealSlots(slots)
    BY <1>7 DEF Known, maybe_seal, sourceVars
  <2> QED BY <2>1, SealInOrder
<1>8. CASE flush_all
  <2>1. Known /\ UNCHANGED <<sourceVars, rx, ord_rx>> /\ SealSlots(DOMAIN in_progress)
    BY <1>8 DEF Known, flush_all, Flushed, sourceVars
  <2> QED BY <2>1, SealInOrder
<1>9. CASE TrackerIdle \/ Stop \/ UNCHANGED phase1Vars
  <2>1. UNCHANGED <<sourceVars, rx, ord_rx, trackerVars>>
    BY <1>9, QuietStep
  <2>2. Known /\ \A s : OffsetOf(slot_offset', s) = OffsetOf(slot_offset, s)
    BY <2>1 DEF Known, sourceVars, OffsetOf
  <2> QED BY <1>1, <2>1, <2>2 DEF trackerVars
<1> QED BY <1>2, <1>3, <1>4, <1>5, <1>6, <1>7, <1>8, <1>9 DEF Phase1Next

(* Whatever order the proxy's batches come in, and whatever is dropped on  *)
(* the way to the tracker, a connection that knows its slots is reported   *)
(* without disorder: the finding OrderedMeansPoHOrder in general.          *)
THEOREM ShredStreamInOrder == Phase1Spec => []ShredStreamNeverDisordered
<1>1. Phase1Init => InArrivalOrder
  <2>1. DOMAIN <<>> = {}
    OBVIOUS
  <2> QED BY <2>1 DEF Phase1Init, InArrivalOrder, Rising, Behind, Below, Ahead, Calm, CalmReports
<1>2. (Known => InArrivalOrder) => ShredStreamNeverDisordered
  BY DEF Known, InArrivalOrder, CalmReports, ShredStreamNeverDisordered
<1> QED BY <1>1, <1>2, StepInOrder, Phase1Invariant, PTL DEF Phase1Spec

=============================================================================
