----------------------------- MODULE ShredSource -----------------------------
(***************************************************************************)
(* The raw-UDP ShredStream source (entry-sources/src/shredstream): a       *)
(* receiver thread hands packets to a worker thread over a bounded         *)
(* channel; the worker collects shreds into FEC sets, and when a set has   *)
(* all its data shreds decodes its entries and numbers them per slot.      *)
(*                                                                         *)
(* The network delivers shreds in any order, loses them and repeats them.  *)
(* Entries are numbered in the order in which their sets complete, not in  *)
(* the order of the chain.                                                 *)
(***************************************************************************)
EXTENDS Integers, Sequences, FiniteSets

CONSTANTS
  FecSets,        \* pairs of a slot and a FEC set's place in it
  DataPerSet,     \* data shreds of a set; one coding shred stands for all
  Terminated,     \* the sets whose last data shred ends a batch or the slot
  Undecodable,    \* the sets that deshred or decode to an error
  EntriesPerSet,  \* entries that a decodable set holds
  RawCapacity,    \* of the channel from the receiver to the worker
  OffsetLimit,    \* slots numbered before offsets are pruned (2048)
  KeepSlots,      \* slots behind the highest that pruning keeps (512)
  MaxCopies       \* bound: copies of a data shred that the network delivers

ASSUME ShredAssumption ==
  /\ FecSets \subseteq Nat \X Nat
  /\ Terminated \subseteq FecSets /\ Undecodable \subseteq FecSets
  /\ DataPerSet \in Nat \ {0} /\ EntriesPerSet \in Nat \ {0}
  /\ RawCapacity \in Nat \ {0}
  /\ OffsetLimit \in Nat /\ KeepSlots \in Nat /\ MaxCopies \in Nat

Slot == {k[1] : k \in FecSets}
Data == 1 .. DataPerSet
Code == DataPerSet + 1
Shred == FecSets \X (Data \cup {Code})
Garbage == <<>>   \* a packet that is no shred

(* One FEC set's state; a set without shreds is not in the map.            *)
FecSetState ==
  [data : SUBSET Data, coding : BOOLEAN, expected : 0 .. DataPerSet, old : BOOLEAN]
Vacant == [data |-> {}, coding |-> FALSE, expected |-> 0, old |-> FALSE]

VARIABLES
  raw,                \* the channel of raw packets
  sets,               \* FecTracker.sets
  slot_entry_offset,  \* next entry index of each numbered slot
  highest_slot,       \* highest slot of which a set completed
  evict_due,          \* 500 ms have passed since the last eviction
  arrived,            \* history: copies of each data shred the worker took
  emissions,          \* history: how often each set's entries were emitted
  uses                \* history: how often each slot gave out each index

shredVars == <<raw, sets, slot_entry_offset, highest_slot, evict_due, arrived,
               emissions, uses>>

(* Indices a slot can reach, given the bound on copies. *)
Index == 0 .. Cardinality(FecSets) * EntriesPerSet * MaxCopies

(* Types, and the capacity of the channel between the two threads. *)
ShredTypeOK ==
  /\ raw \in Seq(Shred \cup {Garbage}) /\ Len(raw) <= RawCapacity
  /\ sets \in [FecSets -> FecSetState]
  /\ DOMAIN slot_entry_offset \subseteq Slot
  /\ \A s \in DOMAIN slot_entry_offset : slot_entry_offset[s] \in Index
  /\ highest_slot \in Nat
  /\ evict_due \in BOOLEAN
  /\ arrived \in [FecSets \X Data -> 0 .. MaxCopies]
  /\ emissions \in [FecSets -> Nat]
  /\ uses \in [Slot \X Index -> Nat]

ShredInit ==
  /\ raw = <<>>
  /\ sets = [k \in FecSets |-> Vacant]
  /\ slot_entry_offset = <<>>
  /\ highest_slot = 0
  /\ evict_due = FALSE
  /\ arrived = [d \in FecSets \X Data |-> 0]
  /\ emissions = [k \in FecSets |-> 0]
  /\ uses = [u \in Slot \X Index |-> 0]

-----------------------------------------------------------------------------
(* A datagram is received and queued; when the channel is full it is lost, *)
(* which is the same as never having arrived.                              *)
UdpReceive(packet) ==
  /\ packet \in DOMAIN arrived =>
       arrived[packet] + Cardinality({i \in DOMAIN raw : raw[i] = packet}) < MaxCopies
  /\ Len(raw) < RawCapacity
  /\ raw' = Append(raw, packet)
  /\ UNCHANGED <<sets, slot_entry_offset, highest_slot, evict_due, arrived,
                 emissions, uses>>

(* A terminator tells how many data shreds its set has. *)
IsTerminator(k, i) == k \in Terminated /\ i = DataPerSet

(* The set's state with one more shred. *)
WithShred(k, i) ==
  IF i = Code THEN [sets[k] EXCEPT !.coding = TRUE]
  ELSE [sets[k] EXCEPT !.data = @ \cup {i},
                       !.expected = IF IsTerminator(k, i) THEN i ELSE @]

Complete(st) == st.expected # 0 /\ Cardinality(st.data) >= st.expected

(* Bug: the completed set stays in the map. *)
Ingest_Keeps(k, i) == [sets EXCEPT ![k] = WithShred(k, i)]

(* FecTracker::ingest: the shred joins its set, a completed set leaves.    *)
Ingest(k, i) ==
  [sets EXCEPT ![k] = IF Complete(WithShred(k, i)) THEN Vacant ELSE WithShred(k, i)]

(* The number a slot's next entry gets. *)
Base(s) == IF s \in DOMAIN slot_entry_offset THEN slot_entry_offset[s] ELSE 0

(* emit_entries: number the entries of set k behind those already numbered *)
(* in its slot.  A set that does not decode takes no number.               *)
EmitEntries(k) ==
  LET base == Base(k[1])
      numbered == base .. (base + EntriesPerSet - 1)
  IN IF k \in Undecodable THEN UNCHANGED <<emissions, uses>>
     ELSE /\ emissions' = [emissions EXCEPT ![k] = @ + 1]
          /\ uses' = [u \in Slot \X Index |->
                       IF u[1] = k[1] /\ u[2] \in numbered THEN uses[u] + 1
                       ELSE uses[u]]

OffsetsAfter(k) ==
  IF k \in Undecodable THEN slot_entry_offset
  ELSE [s \in DOMAIN slot_entry_offset \cup {k[1]} |->
          IF s = k[1] THEN Base(s) + EntriesPerSet ELSE slot_entry_offset[s]]

(* Bug: eviction drops the sets that completed, that is, none. *)
EvictOld_None(map) == map

(* Sets whose first shred is two seconds old are given up. *)
EvictOld(map) == [k \in FecSets |-> IF map[k].old THEN Vacant ELSE map[k]]

(* Bug: the frontier slot itself is pruned. *)
Prune_Frontier(offsets, highest) ==
  IF Cardinality(DOMAIN offsets) > OffsetLimit
  THEN [s \in {t \in DOMAIN offsets : t > highest} |-> offsets[s]]
  ELSE offsets

Prune(offsets, highest) ==
  IF Cardinality(DOMAIN offsets) > OffsetLimit
  THEN [s \in {t \in DOMAIN offsets : t + KeepSlots >= highest} |-> offsets[s]]
  ELSE offsets

(* What follows the packet in the worker's loop, at most every 500 ms. *)
Housekeeping(map, offsets, highest) ==
  /\ sets' = IF evict_due THEN EvictOld(map) ELSE map
  /\ slot_entry_offset' = IF evict_due THEN Prune(offsets, highest) ELSE offsets
  /\ evict_due' = FALSE

(* One turn of the worker's loop: it evicts only when a packet arrives.    *)
Work ==
  /\ raw # <<>>
  /\ raw' = Tail(raw)
  /\ IF Head(raw) = Garbage
     THEN /\ Housekeeping(sets, slot_entry_offset, highest_slot)
          /\ UNCHANGED <<highest_slot, arrived, emissions, uses>>
     ELSE LET k == Head(raw)[1]
              i == Head(raw)[2]
              highest == IF k[1] > highest_slot THEN k[1] ELSE highest_slot
          IN
          /\ arrived' = [d \in DOMAIN arrived |->
                          arrived[d] + IF d = Head(raw) THEN 1 ELSE 0]
          /\ IF Complete(WithShred(k, i))
             THEN /\ highest_slot' = highest
                  /\ EmitEntries(k)
                  /\ Housekeeping(Ingest(k, i), OffsetsAfter(k), highest)
             ELSE /\ UNCHANGED <<highest_slot, emissions, uses>>
                  /\ Housekeeping(Ingest(k, i), slot_entry_offset, highest_slot)

(* Two seconds pass for every set in the map. *)
SetsAge ==
  /\ \E k \in FecSets : sets[k] # Vacant /\ ~sets[k].old
  /\ sets' = [k \in FecSets |-> IF sets[k] = Vacant THEN Vacant
                                ELSE [sets[k] EXCEPT !.old = TRUE]]
  /\ UNCHANGED <<raw, slot_entry_offset, highest_slot, evict_due, arrived,
                 emissions, uses>>

EvictionDue ==
  /\ ~evict_due
  /\ evict_due' = TRUE
  /\ UNCHANGED <<raw, sets, slot_entry_offset, highest_slot, arrived, emissions,
                 uses>>

ShredNext ==
  \/ \E packet \in Shred \cup {Garbage} : UdpReceive(packet)
  \/ Work
  \/ SetsAge
  \/ EvictionDue

(* The worker thread runs, and time passes. *)
ShredSpec ==
  /\ ShredInit /\ [][ShredNext]_shredVars
  /\ WF_shredVars(Work) /\ WF_shredVars(SetsAge) /\ WF_shredVars(EvictionDue)

-----------------------------------------------------------------------------
(* FecTracker forgets a completed set, so a repeated shred starts it anew. *)
(* Its entries are emitted again only when each of its data shreds has     *)
(* arrived again: stray copies, and coding shreds that trail their set,    *)
(* never make up a second set.                                             *)
EmittedPerFullCopy ==
  \A k \in FecSets : \A i \in Data : emissions[k] <= arrived[<<k, i>>]

(* emit_entries and the pruning of offsets: a slot gives an index to two   *)
(* entries only after the source has moved more than the kept window past  *)
(* the slot; up to there sets may complete in any order, repeat and expire.*)
IndexGivenOnce ==
  \A u \in Slot \X Index : uses[u] > 1 => u[1] + KeepSlots < highest_slot

(* The tracker's memory is bounded: as long as packets of any kind keep    *)
(* arriving, a set that never completes, and what late shreds make of a    *)
(* completed one, leaves the map.                                          *)
SetsLeave ==
  []<>(raw # <<>>) => \A k \in FecSets : sets[k] # Vacant ~> sets[k] = Vacant

=============================================================================
