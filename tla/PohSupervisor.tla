---------------------------- MODULE PohSupervisor ----------------------------
(***************************************************************************)
(* The PoH supervisor (fan-out-bench/src/poh_supervisor.rs): one thread    *)
(* that turns the merger's stream, in whatever order it arrives, into one  *)
(* ordered event stream per slot: entries by index, an explicit Missing    *)
(* for every gap that timed out, and one end event.                        *)
(*                                                                         *)
(* A lifetime of a slot is the time its state is in the map: Phase C of    *)
(* the sweep drops sealed states, and an entry that arrives later still    *)
(* starts a new one.  The loops of drain, sweep and seal_slot are given by *)
(* the last index they reach.  Hash sums, waiting times and counters are   *)
(* left out.                                                               *)
(***************************************************************************)
EXTENDS Integers, Sequences, FiniteSets

CONSTANTS
  MaxSlot, MaxIndex,  \* bounds on slots and entry indices
  TICKS_PER_SLOT,
  SealLag,            \* slot_seal_lag_slots
  DropGrace,          \* slots a sealed state is kept beyond SealLag (10 in the code)
  MaxPending,         \* max_pending_per_slot
  MaxArrivals         \* bound on the entries received

ASSUME SupervisorAssumption ==
  /\ MaxSlot \in Nat /\ MaxIndex \in Nat /\ MaxArrivals \in Nat
  /\ TICKS_PER_SLOT \in Nat \ {0}
  /\ SealLag \in Nat /\ DropGrace \in Nat
  /\ MaxPending \in Nat

Slot == 1 .. MaxSlot
Index == 0 .. MaxIndex

(* pending: the buffered indices; ticks and aged: those of them that hold  *)
(* a tick entry, and those buffered for at least entry_timeout.            *)
PohSlot == [next : 0 .. MaxIndex + 1, pending : SUBSET Index, ticks : SUBSET Index,
            aged : SUBSET Index, tick_idx : 0 .. TICKS_PER_SLOT,
            has_missing : BOOLEAN, sealed : BOOLEAN]

Fresh == [next |-> 0, pending |-> {}, ticks |-> {}, aged |-> {}, tick_idx |-> 0,
          has_missing |-> FALSE, sealed |-> FALSE]

EndKind == {"Complete", "Incomplete"}
Event == [kind : {"Entry", "Missing"} \cup EndKind, index : Index,
          ticks : 0 .. TICKS_PER_SLOT, uncertain : BOOLEAN]

VARIABLES
  present,   \* keys of the slots map
  slots,     \* slots[s]: the PohSlot of a present s
  max_slot,  \* highest slot received
  running,   \* the loop has neither been stopped nor lost its input
  log,       \* history: the events of s handed to out_tx in its latest lifetime
  ends,      \* history: the kinds of end event s ever had
  seen,      \* history: tick entries received for s in its latest lifetime, and
             \* entries given up because the buffer was full or the index taken
  arrivals   \* history: entries received

vars == <<present, slots, max_slot, running, log, ends, seen, arrivals>>

(* Types, tick_idx saturating at TICKS_PER_SLOT, and the cap of every      *)
(* slot's reorder buffer.                                                  *)
TypeOK ==
  /\ present \subseteq Slot
  /\ slots \in [Slot -> PohSlot]
  /\ max_slot \in 0 .. MaxSlot
  /\ running \in BOOLEAN
  /\ log \in [Slot -> Seq(Event)]
  /\ ends \in [Slot -> SUBSET EndKind]
  /\ seen \in [Slot -> [ticks : Nat, lost : Nat]]
  /\ arrivals \in 0 .. MaxArrivals
  /\ \A s \in Slot : Cardinality(slots[s].pending) <= MaxPending

Init ==
  /\ present = {}
  /\ slots = [s \in Slot |-> Fresh]
  /\ max_slot = 0
  /\ running = TRUE
  /\ log = [s \in Slot |-> <<>>]
  /\ ends = [s \in Slot |-> {}]
  /\ seen = [s \in Slot |-> [ticks |-> 0, lost |-> 0]]
  /\ arrivals = 0

-----------------------------------------------------------------------------
(* emit_entry and emit_missing, for all indices from next to last.         *)

TickCount(st, i) ==
  LET n == st.tick_idx + Cardinality({p \in st.ticks : p <= i})
  IN IF n < TICKS_PER_SLOT THEN n ELSE TICKS_PER_SLOT

(* A Missing was or is emitted before index i. *)
Gap(st, i) == st.has_missing \/ \E j \in st.next .. i - 1 : j \notin st.pending

(* Bug: the flag covers the gaps of the current call alone. *)
EmitThrough_ForgetsGaps(st, last) ==
  [st EXCEPT !.next = last + 1,
             !.pending = {p \in @ : p > last},
             !.ticks = {p \in @ : p > last},
             !.aged = {p \in @ : p > last},
             !.tick_idx = TickCount(st, last),
             !.has_missing = \E j \in st.next .. last : j \notin st.pending]

(* The slot state after emitting next .. last, where last >= next - 1.     *)
EmitThrough(st, last) ==
  [st EXCEPT !.next = last + 1,
             !.pending = {p \in @ : p > last},
             !.ticks = {p \in @ : p > last},
             !.aged = {p \in @ : p > last},
             !.tick_idx = TickCount(st, last),
             !.has_missing = Gap(st, last + 1)]

Emit(st, i) ==
  IF i \in st.pending
  THEN [kind |-> "Entry", index |-> i, ticks |-> TickCount(st, i), uncertain |-> Gap(st, i)]
  ELSE [kind |-> "Missing", index |-> i, ticks |-> 0, uncertain |-> FALSE]

(* The events this hands to out_tx. *)
Events(st, last) == [k \in 1 .. last + 1 - st.next |-> Emit(st, st.next + k - 1)]

LastOf(S, default) == IF S = {} THEN default ELSE CHOOSE m \in S : \A x \in S : x <= m

(* drain_consecutive_pending stops before the first index not buffered.    *)
Consecutive(st) ==
  LastOf({p \in st.pending : st.next .. p \subseteq st.pending}, st.next - 1)

(* Bug: the sweep takes an entry's own gap for closed only when the entry  *)
(* has just arrived in order.                                              *)
Overdue_NoTimeout(st) == Consecutive(st)

(* Phase A stops at a buffered entry behind a gap that is not yet aged.    *)
Overdue(st) ==
  LET waits(p) == p \notin st.aged /\ p # st.next /\ p - 1 \notin st.pending
  IN LastOf({p \in st.pending : \A q \in st.pending : q <= p => ~waits(q)}, st.next - 1)

(* seal_slot empties the buffer.                                           *)
Flush(st) == LastOf(st.pending, st.next - 1)

(* The end event of a slot whose buffer was flushed. *)
SlotEnd(st) ==
  [kind |-> IF st.tick_idx >= TICKS_PER_SLOT THEN "Complete" ELSE "Incomplete",
   index |-> 0, ticks |-> st.tick_idx, uncertain |-> st.has_missing]

-----------------------------------------------------------------------------
(* process, for a slot that is not sealed.                                 *)

Buffered(st, idx, tick) ==
  [st EXCEPT !.pending = @ \cup {idx},
             !.ticks = IF tick THEN @ \cup {idx} ELSE @ \ {idx},
             !.aged = @ \ {idx}]

InOrder(s, st, idx, tick) ==
  LET buf == Buffered(st, idx, tick) IN
  /\ slots' = [slots EXCEPT ![s] = EmitThrough(buf, Consecutive(buf))]
  /\ log' = [log EXCEPT ![s] = (IF s \in present THEN @ ELSE <<>>)
                                 \o Events(buf, Consecutive(buf))]

Ahead(s, st, idx, tick) ==
  /\ slots' = [slots EXCEPT ![s] = IF Cardinality(st.pending) >= MaxPending THEN st
                                   ELSE Buffered(st, idx, tick)]
  /\ log' = [log EXCEPT ![s] = IF s \in present THEN @ ELSE <<>>]

(* Bug: an entry that comes after its gap was reported is only a duplicate. *)
Behind_Ignored(s, st, tick) ==
  /\ slots' = [slots EXCEPT ![s] = st]
  /\ log' = [log EXCEPT ![s] = IF s \in present THEN @ ELSE <<>>]

(* Its place was reported Missing; a tick is counted all the same.         *)
Behind(s, st, tick) ==
  /\ slots' = [slots EXCEPT ![s].tick_idx =
                 IF tick /\ @ < TICKS_PER_SLOT THEN @ + 1 ELSE @]
  /\ log' = [log EXCEPT ![s] = IF s \in present THEN @ ELSE <<>>]

(* What the history notes of an arrival. *)
Note(s, st, idx, tick) ==
  LET old == IF s \in present THEN seen[s] ELSE [ticks |-> 0, lost |-> 0]
      refused == idx > st.next /\ (Cardinality(st.pending) >= MaxPending \/ idx \in st.pending)
  IN seen' = [seen EXCEPT ![s] = [ticks |-> old.ticks + (IF tick THEN 1 ELSE 0),
                                  lost |-> old.lost + (IF refused THEN 1 ELSE 0)]]

Receive(s, idx, tick) ==
  LET st == IF s \in present THEN slots[s] ELSE Fresh IN
  /\ running
  /\ arrivals < MaxArrivals
  /\ arrivals' = arrivals + 1
  /\ present' = present \cup {s}
  /\ max_slot' = IF s > max_slot THEN s ELSE max_slot
  /\ \/ st.sealed /\ UNCHANGED <<slots, log, seen>>
     \/ /\ ~st.sealed
        /\ \/ idx = st.next /\ InOrder(s, st, idx, tick)
           \/ idx > st.next /\ Ahead(s, st, idx, tick)
           \/ idx < st.next /\ Behind(s, st, tick)
        /\ Note(s, st, idx, tick)
  /\ UNCHANGED <<running, ends>>

-----------------------------------------------------------------------------
(* The sweep and the final flush.                                          *)

(* Everything buffered now has been waiting for entry_timeout.             *)
TimePasses ==
  /\ running
  /\ \E s \in present : slots[s].aged # slots[s].pending
  /\ slots' = [s \in Slot |-> [slots[s] EXCEPT !.aged = slots[s].pending]]
  /\ UNCHANGED <<present, max_slot, running, log, ends, seen, arrivals>>

Open == {s \in present : ~slots[s].sealed}

(* Bug: only the slot that has just fallen SealLag behind is sealed, as if *)
(* slots arrived one by one. *)
Sealable_OneByOne ==
  {s \in Open : max_slot >= SealLag /\ s = max_slot - SealLag}

(* Phase B.                                                                *)
Sealable ==
  {s \in Open : max_slot >= SealLag /\ s <= max_slot - SealLag}

(* Phase C drops sealed states up to this slot. *)
DropCutoff ==
  IF max_slot > SealLag + DropGrace THEN max_slot - (SealLag + DropGrace) ELSE 0

(* How far Phase A, and seal_slot after it, take slot s. *)
Reach(s, seal) == IF s \in seal THEN Flush(slots[s]) ELSE Overdue(slots[s])

(* Phases A, B and C, sealing the open slots in seal.                      *)
SweepSealing(seal) ==
  LET after(s) == [EmitThrough(slots[s], Reach(s, seal)) EXCEPT !.sealed = s \in seal] IN
  /\ slots' = [s \in Slot |-> IF s \in Open THEN after(s) ELSE slots[s]]
  /\ log' = [s \in Slot |->
               log[s] \o (IF s \in Open THEN Events(slots[s], Reach(s, seal)) ELSE <<>>)
                      \o (IF s \in seal THEN <<SlotEnd(after(s))>> ELSE <<>>)]
  /\ ends' = [s \in Slot |->
                IF s \in seal THEN ends[s] \cup {SlotEnd(after(s)).kind} ELSE ends[s]]
  /\ present' = {s \in present : s > DropCutoff \/ ~slots'[s].sealed}

Sweep ==
  /\ running
  /\ SweepSealing(Sealable)
  /\ UNCHANGED <<max_slot, running, seen, arrivals>>

(* The stop flag or a closed input: a last sweep, then every slot is sealed. *)
Stop ==
  /\ running
  /\ running' = FALSE
  /\ SweepSealing(Open)
  /\ UNCHANGED <<max_slot, seen, arrivals>>

Next ==
  \/ \E s \in Slot, idx \in Index, tick \in BOOLEAN : Receive(s, idx, tick)
  \/ TimePasses
  \/ Sweep
  \/ Stop

Spec == Init /\ [][Next]_vars

(* The loop sweeps every tick_check_interval whatever arrives, and the     *)
(* clock goes on.                                                          *)
FairSpec == Spec /\ WF_vars(Sweep) /\ WF_vars(TimePasses)

-----------------------------------------------------------------------------
(* poh_supervisor.rs: strict PoH order per slot, gaps as explicit Missing  *)
(* events, tick_uncertain from the first of them on, one end event; across *)
(* in-order, buffered, timed-out and flushed entries alike.  A lifetime's  *)
(* events are only appended to, none is left open when the thread exits.   *)
Stream == INSTANCE SlotStream WITH log <- log, open <- Open, exited <- ~running

StreamKept == Stream!Spec

(* Complete and Incomplete tell how many ticks arrived before the seal,    *)
(* whether in order, buffered, or after their place was given up: only     *)
(* entries refused by the buffer may be left out of the count.             *)
EndTellsTicks ==
  \A s \in Slot :
    log[s] # <<>> =>
      LET end == log[s][Len(log[s])] IN
      /\ end.kind = "Complete" => seen[s].ticks >= TICKS_PER_SLOT
      /\ end.kind = "Incomplete" => seen[s].ticks - seen[s].lost < TICKS_PER_SLOT

(* Bounded memory and bounded delay: after a sweep only slots near the tip *)
(* have a state, however late the entries were that created the others;    *)
(* and in an open slot an entry past its timeout is still buffered only    *)
(* behind a lower one that is not, since Phase A looks at the lowest alone. *)
SweepBounds ==
  [][Sweep =>
       /\ \A s \in present' : s + SealLag + DropGrace > max_slot
       /\ \A s \in Open' : \A i \in slots'[s].pending \cap slots'[s].aged :
            \E q \in slots'[s].pending \ slots'[s].aged : q < i]_vars

(* Every buffered entry leaves the reorder buffer: whatever gaps are open  *)
(* in whatever slots, they time out one after the other until nothing is   *)
(* buffered.  A lower entry that arrives late keeps those behind it one    *)
(* timeout more, so this takes arrivals that pause, as MaxArrivals ensures. *)
GapsClose == []<>(\A s \in Slot : slots[s].pending = {})

(* poh_supervisor.rs: every observed slot yields SlotComplete or           *)
(* SlotIncomplete, never both.                                             *)
NeverBothEnds == \A s \in Slot : ends[s] # EndKind

=============================================================================
