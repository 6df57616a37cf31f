----------------------------- MODULE EntryMerger -----------------------------
(***************************************************************************)
(* The entry merger (fan-out-bench/src/merger.rs): one thread selects over *)
(* the ShredStream and the Yellowstone channel, removes duplicates by      *)
(* (slot, entry_hash) and passes the first sighting of an entry on.        *)
(*                                                                         *)
(* The order in which the two sources deliver, what they deliver twice and *)
(* how late they are is left open: every observation may arrive at any     *)
(* time.  Latency and counters are left out.                               *)
(***************************************************************************)
EXTENDS Integers, Sequences, FiniteSets

CONSTANTS
  MaxSlot,            \* bound on slot numbers
  Hashes,             \* entry hashes of a slot
  DEDUP_WINDOW_SLOTS, \* slots of history kept
  ChannelCapacity,    \* of out_tx
  MaxObservations     \* bound on the observations received

ASSUME MergerAssumption ==
  /\ MaxSlot \in Nat
  /\ DEDUP_WINDOW_SLOTS \in Nat
  /\ ChannelCapacity \in Nat \ {0}
  /\ MaxObservations \in Nat

Slot == 0 .. MaxSlot
Key == Slot \X Hashes
Source == {"ShredStream", "Yellowstone"}
(* A key's entry in the dedup map: absent, Primary with its first_source,  *)
(* or Confirmed.                                                           *)
DedupState == {"Vacant", "Confirmed"} \cup Source
Observation == [key : Key, source : Source, signatures : BOOLEAN]

VARIABLES
  state,       \* the dedup map
  slot_index,  \* slot_index[s]: the hashes indexed under slot s
  max_slot,    \* highest slot seen
  out,         \* out_tx, read by the supervisor
  running,     \* the select loop has not ended
  sent,        \* history: how often each key was passed to out_tx
  received     \* history: observations taken from the two channels

vars == <<state, slot_index, max_slot, out, running, sent, received>>

(* Types, and the bound of out_tx: process never queues past its capacity. *)
TypeOK ==
  /\ state \in [Key -> DedupState]
  /\ slot_index \in [Slot -> SUBSET Hashes]
  /\ max_slot \in Slot
  /\ out \in Seq(Observation) /\ Len(out) <= ChannelCapacity
  /\ running \in BOOLEAN
  /\ sent \in [Key -> Nat]
  /\ received \in Nat

Init ==
  /\ state = [k \in Key |-> "Vacant"]
  /\ slot_index = [s \in Slot |-> {}]
  /\ max_slot = 0
  /\ out = <<>>
  /\ running = TRUE
  /\ sent = [k \in Key |-> 0]
  /\ received = 0

(* What a source says of an entry.  Yellowstone's entry updates carry no   *)
(* transactions, so its observations have an empty signature list.         *)
Sighting(source, k) ==
  [key |-> k, source |-> source, signatures |-> source = "ShredStream"]

-----------------------------------------------------------------------------
(* Bug: a key is re-admitted as soon as its slot is not the newest.        *)
Expired_Early(newMax) ==
  {s \in Slot : s < max_slot /\ newMax > DEDUP_WINDOW_SLOTS}

(* Slots whose keys are dropped when the highest slot becomes newMax.      *)
Expired(newMax) ==
  IF newMax > max_slot /\ newMax > DEDUP_WINDOW_SLOTS
  THEN {s \in Slot : s < newMax - DEDUP_WINDOW_SLOTS}
  ELSE {}

(* Bug: the keys of the first slot past the window are forgotten in the    *)
(* index alone.                                                            *)
Forget_IndexOnly(st, gone) == st

(* The dedup map without the keys indexed under the expired slots.         *)
Forget(st, gone) ==
  [k \in Key |-> IF k[1] \in gone THEN "Vacant" ELSE st[k]]

(* The map and the index after the key's own update, before eviction.      *)
Mark(source, k) ==
  IF state[k] = "Vacant" THEN source
  ELSE IF state[k] \in Source \ {source} THEN "Confirmed"
  ELSE state[k]

TrySend(o) == out' = IF Len(out) < ChannelCapacity THEN Append(out, o) ELSE out

process(source, k) ==
  LET newMax == IF k[1] > max_slot THEN k[1] ELSE max_slot
      gone == Expired(newMax)
      indexed == IF state[k] = "Vacant"
                 THEN [slot_index EXCEPT ![k[1]] = @ \cup {k[2]}]
                 ELSE slot_index
  IN
  /\ state' = Forget([state EXCEPT ![k] = Mark(source, k)], gone)
  /\ slot_index' = [s \in Slot |-> IF s \in gone THEN {} ELSE indexed[s]]
  /\ max_slot' = newMax
  /\ IF state[k] = "Vacant"
     THEN /\ sent' = [sent EXCEPT ![k] = @ + 1]
          /\ TrySend(Sighting(source, k))
     ELSE UNCHANGED <<sent, out>>

(* One turn of the select loop. *)
Receive(source, k) ==
  /\ running
  /\ received < MaxObservations
  /\ received' = received + 1
  /\ process(source, k)
  /\ UNCHANGED running

(* The stop flag, or either source's channel closed: the loop ends and the *)
(* other source's observations are no longer read.                         *)
Exit ==
  /\ running
  /\ running' = FALSE
  /\ UNCHANGED <<state, slot_index, max_slot, out, sent, received>>

(* The supervisor takes the next observation. *)
Consume ==
  /\ out # <<>>
  /\ out' = Tail(out)
  /\ UNCHANGED <<state, slot_index, max_slot, running, sent, received>>

Next == Consume \/ Exit \/ \E source \in Source, k \in Key : Receive(source, k)

Spec == Init /\ [][Next]_vars

-----------------------------------------------------------------------------
(* An entry is passed on a second time only when the merger has meanwhile  *)
(* seen a slot more than the dedup window ahead of it: whatever the two    *)
(* sources repeat or reorder inside the window, downstream sees it once.   *)
OnceInWindow ==
  \A k \in Key : sent[k] > 1 => k[1] + DEDUP_WINDOW_SLOTS < max_slot

(* The index that drives eviction never loses track of the map: every key  *)
(* the map holds can be evicted, and no index entry outlives its key.      *)
IndexMatchesMap ==
  \A k \in Key : k[2] \in slot_index[k[1]] <=> state[k] # "Vacant"

(* merger.rs: consumers do not know or care which source won - what they   *)
(* get for an entry is the same either way, signatures included.           *)
WinnerDoesNotMatter == \A i \in 1 .. Len(out) : out[i].signatures

=============================================================================
