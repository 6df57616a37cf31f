---------------------------- MODULE TriggerEngine ----------------------------
(***************************************************************************)
(* The trigger engine (fan-out-bench/src/trigger_engine.rs) with the       *)
(* slot-hash cache it feeds (nonce/local_compute.rs) and the lookup by     *)
(* which the recorder derives a nonce's next value from a landing.         *)
(*                                                                         *)
(* The input is what the PoH supervisor emits: per slot, entries by index, *)
(* gaps, one end; slots interleave, events are lost when the channel is    *)
(* full, and a slot dropped long ago may start again.  An entry's hash is  *)
(* its index.  One transaction is awaited; where it landed is a parameter.  *)
(***************************************************************************)
EXTENDS Integers, FiniteSets

CONSTANTS
  MaxSlot, LastIndex,  \* every block has the entries 0 .. LastIndex
  MaxTick,             \* bound on ticks per slot
  FiredWindow,         \* slots of history kept in fired (256 in the code)
  CacheWindow,         \* window of the slot-hash cache (256 in the code)
  MaxLookback,         \* of next_nonce_for_landed_slot (5 in the code)
  ReviveLag,           \* slots after which the supervisor forgets a sealed slot
  LandedSlot, LandedIndex  \* where the awaited transaction landed

ASSUME EngineAssumption ==
  /\ MaxSlot \in Nat \ {0} /\ LastIndex \in Nat /\ MaxTick \in Nat
  /\ FiredWindow \in Nat /\ CacheWindow \in Nat
  /\ MaxLookback \in Nat /\ ReviveLag \in Nat
  /\ LandedSlot \in 1 .. MaxSlot /\ LandedIndex \in 0 .. LastIndex

Slot == 1 .. MaxSlot
Index == 0 .. LastIndex
Tick == 1 .. MaxTick
None == -1  \* no entry

VARIABLES
  phase,        \* phase[s]: the supervisor's state of slot s
  last,         \* last[s]: the last entry emitted in s's latest lifetime
  ticks,        \* ticks[s]: tick_idx of that lifetime
  lost,         \* lost[s]: the latest event of s was lost on the full channel
  schedule,     \* the schedule snapshot
  fired,        \* (slot, tick) pairs the engine remembers
  last_compact, \* last_compact_slot
  fires,        \* history: trigger events per (slot, tick)
  cache,        \* SlotHashCache: cache[s] is the recorded entry, or None
  pending,      \* the signature is in pending_sigs
  matched,      \* its match waits for the recorder
  computed      \* the place the next nonce was derived from, once it was

vars == <<phase, last, ticks, lost, schedule, fired, last_compact, fires, cache, pending,
          matched, computed>>

(* Types; the engine remembers as fired only what was scheduled.           *)
TypeOK ==
  /\ phase \in [Slot -> {"new", "open", "ended"}]
  /\ last \in [Slot -> Index \cup {None}]
  /\ ticks \in [Slot -> 0 .. MaxTick]
  /\ lost \in [Slot -> BOOLEAN]
  /\ schedule \subseteq Slot \X Tick
  /\ fired \subseteq schedule
  /\ last_compact \in 0 .. MaxSlot
  /\ fires \in [Slot \X Tick -> Nat]
  /\ cache \in [Slot -> Index \cup {None}]
  /\ pending \in BOOLEAN /\ matched \in BOOLEAN
  /\ computed \in {<<>>} \cup (Slot \X Index)

Init ==
  /\ phase = [s \in Slot |-> "new"]
  /\ last = [s \in Slot |-> None]
  /\ ticks = [s \in Slot |-> 0]
  /\ lost = [s \in Slot |-> FALSE]
  /\ schedule = {}
  /\ fired = {} /\ last_compact = 0
  /\ fires = [k \in Slot \X Tick |-> 0]
  /\ cache = [s \in Slot |-> None]
  /\ pending = TRUE /\ matched = FALSE
  /\ computed = <<>>

Recorded == {s \in Slot : cache[s] # None}
Highest(S) == CHOOSE m \in S : \A s \in S : s <= m

-----------------------------------------------------------------------------
(* The schedule pump publishes a trigger. *)
Publish(key) ==
  /\ key \notin schedule
  /\ schedule' = schedule \cup {key}
  /\ UNCHANGED <<phase, last, ticks, lost, fired, last_compact, fires, cache, pending,
                 matched, computed>>

(* Bug: the window is counted from the slot being recorded. *)
record_entry_OwnCutoff(s, i) ==
  cache' = [r \in Slot |->
              IF r < s - CacheWindow THEN None ELSE IF r = s THEN i ELSE cache[r]]

(* Bug: the first entry of a slot is kept. *)
record_entry_FirstWins(s, i) ==
  LET top == Highest(Recorded \cup {s}) IN
  cache' = [r \in Slot |->
              IF r < top - CacheWindow THEN None
              ELSE IF r = s /\ cache[s] = None THEN i ELSE cache[r]]

(* Last write wins; slots more than the window below the highest go.       *)
record_entry(s, i) ==
  LET top == Highest(Recorded \cup {s}) IN
  cache' = [r \in Slot |->
              IF r < top - CacheWindow THEN None ELSE IF r = s THEN i ELSE cache[r]]

(* Bug: data entries that follow a tick fire its trigger again. *)
CheckSchedule_Refires(s, tick) ==
  LET hit == tick > 0 /\ <<s, tick>> \in schedule IN
  /\ fires' = IF hit THEN [fires EXCEPT ![<<s, tick>>] = @ + 1] ELSE fires
  /\ last_compact' = IF s > last_compact + FiredWindow THEN s ELSE last_compact
  /\ fired' = {k \in fired \cup (IF hit THEN {<<s, tick>>} ELSE {}) :
                 last_compact' # last_compact => k[1] >= s - FiredWindow}

(* The trigger of (slot, tick), unless fired remembers it, and compaction. *)
CheckSchedule(s, tick) ==
  LET key == <<s, tick>>
      hit == tick > 0 /\ key \in schedule
  IN
  /\ fires' = IF hit /\ key \notin fired THEN [fires EXCEPT ![key] = @ + 1] ELSE fires
  /\ last_compact' = IF s > last_compact + FiredWindow THEN s ELSE last_compact
  /\ fired' = {k \in fired \cup (IF hit THEN {key} ELSE {}) :
                 last_compact' # last_compact => k[1] >= s - FiredWindow}

(* The first sighting of the awaited signature makes a match. *)
MatchSignature(s, i) ==
  LET hit == pending /\ s = LandedSlot /\ i = LandedIndex IN
  /\ pending' = (pending /\ ~hit)
  /\ matched' = (matched \/ hit)

(* The supervisor emits entry i of slot s, the indices it skips having     *)
(* been reported Missing; tick_idx never falls, and rises also for ticks   *)
(* that came too late to be emitted.  The event is processed or lost.      *)
Entry(s, i, tick) ==
  /\ phase[s] # "ended"
  /\ i > last[s]
  /\ tick >= ticks[s]
  /\ phase' = [phase EXCEPT ![s] = "open"]
  /\ last' = [last EXCEPT ![s] = i]
  /\ ticks' = [ticks EXCEPT ![s] = tick]
  /\ \/ /\ lost' = [lost EXCEPT ![s] = FALSE]
        /\ record_entry(s, i) /\ CheckSchedule(s, tick) /\ MatchSignature(s, i)
     \/ /\ lost' = [lost EXCEPT ![s] = TRUE]
        /\ UNCHANGED <<fired, last_compact, fires, cache, pending, matched>>
  /\ UNCHANGED <<schedule, computed>>

(* SlotComplete or SlotIncomplete, with the last hash the slot emitted.    *)
SlotEnd(s) ==
  /\ phase[s] = "open"
  /\ phase' = [phase EXCEPT ![s] = "ended"]
  /\ \/ lost' = [lost EXCEPT ![s] = FALSE] /\ record_entry(s, last[s])
     \/ lost' = [lost EXCEPT ![s] = TRUE] /\ UNCHANGED cache
  /\ UNCHANGED <<last, ticks, schedule, fired, last_compact, fires, pending, matched,
                 computed>>

(* Another lifetime of a slot whose state the supervisor dropped.          *)
Revive(s) ==
  /\ phase[s] = "ended"
  /\ \E r \in Slot : phase[r] # "new" /\ r >= s + ReviveLag
  /\ phase' = [phase EXCEPT ![s] = "new"]
  /\ last' = [last EXCEPT ![s] = None]
  /\ ticks' = [ticks EXCEPT ![s] = 0]
  /\ UNCHANGED <<lost, schedule, fired, last_compact, fires, cache, pending, matched, computed>>

(* next_nonce_for_landed_slot: the nearest recorded slot before the landing. *)
Reachable == {s \in Recorded : s < LandedSlot /\ s >= LandedSlot - MaxLookback}

(* The recorder handles the match; no slot in reach is a miss. *)
ComputeNext ==
  /\ matched
  /\ matched' = FALSE
  /\ computed' = IF Reachable = {} THEN computed
                 ELSE <<Highest(Reachable), cache[Highest(Reachable)]>>
  /\ UNCHANGED <<phase, last, ticks, lost, schedule, fired, last_compact, fires, cache, pending>>

Next ==
  \/ \E key \in Slot \X Tick : Publish(key)
  \/ \E s \in Slot : \/ \E i \in Index, tick \in 0 .. MaxTick : Entry(s, i, tick)
                     \/ SlotEnd(s) \/ Revive(s)
  \/ ComputeNext

Spec == Init /\ [][Next]_vars

-----------------------------------------------------------------------------
(* However often tick_idx stays at a value, goes through it again or the   *)
(* slot is replayed, a scheduled tick fires once, unless the engine has    *)
(* since compacted at a slot more than the window above it.                *)
FiresOnceInWindow ==
  \A k \in Slot \X Tick : fires[k] > 1 => k[1] + FiredWindow < last_compact

(* The cache never spans more than its window, even when a late entry of   *)
(* an old slot is recorded.                                                *)
CacheSpan == \A r, s \in Recorded : r - s <= CacheWindow

(* What is recorded for a started slot is the last entry the supervisor    *)
(* emitted for it, unless that very event was lost: interleaved slots,     *)
(* earlier losses and replays do not matter, and an end event makes up for *)
(* lost entries.                                                           *)
CacheHoldsLast ==
  \A s \in Recorded : phase[s] # "new" /\ ~lost[s] => cache[s] = last[s]

(* trigger_engine.rs: the final write for slot S is its last entry's hash  *)
(* by the time slot S + 1 is observed, so the value computed for a landing *)
(* there is the one the chain has.                                         *)
NextNonceExact == computed # <<>> => computed = <<LandedSlot - 1, LastIndex>>

=============================================================================
