----------------------------- MODULE Phase1Observe -----------------------------
(***************************************************************************)
(* The first phase of the fan-out bench (bin/phase1_observe.rs) for one of *)
(* its two sources: the source's connection and channel, the warm-up gate, *)
(* and the ordering tracker that reports per slot how far its entries came *)
(* out of order.  The merger behind the gate is in EntryMerger.            *)
(*                                                                         *)
(* ShredStream entries come in batches, one per message of the proxy, and  *)
(* are numbered as they come; Yellowstone's come singly with their index.  *)
(* A message that cannot be decoded is as one that never came.             *)
(***************************************************************************)
EXTENDS Integers, Sequences, FiniteSets, FiniteSetsExt

CONSTANTS
  Length,                   \* Length[s]: entries of slot s; the last is a tick
  Batch,                    \* the proxy's messages: [slot, first, n]
  source_channel_capacity,
  seal_lag,                 \* slots behind the newest at which one is sealed
  max_offsets,              \* slots counted before old ones are evicted
  offset_history,           \* slots behind the newest that eviction keeps
  MaxMessages,              \* bound: messages received
  MaxReconnects             \* bound: connections after the first

ASSUME Phase1Assumption ==
  /\ DOMAIN Length \subseteq Nat \ {0} /\ \A s \in DOMAIN Length : Length[s] \in Nat \ {0}
  /\ Batch \subseteq [slot : DOMAIN Length, first : Nat, n : Nat]
  /\ \A b \in Batch : b.first + b.n <= Length[b.slot]
  /\ source_channel_capacity \in Nat \ {0}
  /\ {seal_lag, max_offsets, offset_history, MaxMessages, MaxReconnects} \subseteq Nat

LedgerSlot == DOMAIN Length

VARIABLES
  source,           \* the source observed
  slot_offset,      \* entries counted per slot on this connection
  highest_slot,
  rx,               \* the source's channel
  startup_slot,     \* warm-up: the first slot seen, 0: none
  warm,
  gate,             \* warm-up thread: "Run" or "Exit"
  ord_rx,           \* the tracker's channel
  high_water,
  in_progress,      \* SlotProgress per slot
  step,             \* the tracker's thread: "Recv", "Seal" or "Exit"
  sealed_reports,
  main,             \* "Run", "Flush" (stop is set) or "Report"
  messages,         \* received, up to the bound
  reconnects,
  renumbered,       \* history: a slot's count began again
  arrivals,         \* history: what each slot in progress was observed with
  reported,         \* history: the same for each report
  observed,         \* history: all a slot was ever observed with
  returned          \* history: slots observed again after they were sealed

sourceVars == <<source, slot_offset, highest_slot, messages, reconnects, renumbered>>
gateVars == <<startup_slot, warm, gate>>
seenVars == <<observed, returned>>
trackerVars == <<high_water, in_progress, sealed_reports, arrivals, reported, seenVars>>
phase1Vars == <<sourceVars, rx, gateVars, ord_rx, trackerVars, step, main>>

stop == main # "Run"

EntryObservation == [slot : LedgerSlot, entry_index : Nat, place : Nat, tx_count : Nat]

(* Types; the source's and the tracker's channels are bounded, and so is   *)
(* what the tracker keeps between observations.                            *)
Phase1TypeOK ==
  /\ source \in {"ShredStream", "Yellowstone"}
  /\ DOMAIN slot_offset \subseteq LedgerSlot /\ highest_slot \in LedgerSlot \cup {0}
  /\ rx \in Seq(EntryObservation) /\ ord_rx \in Seq(EntryObservation)
  /\ Len(rx) <= source_channel_capacity /\ Len(ord_rx) <= source_channel_capacity
  /\ startup_slot \in LedgerSlot \cup {0} /\ warm \in BOOLEAN /\ gate \in {"Run", "Exit"}
  /\ high_water \in LedgerSlot \cup {0}
  /\ DOMAIN in_progress \subseteq LedgerSlot
  /\ step \in {"Recv", "Seal", "Exit"} /\ main \in {"Run", "Flush", "Report"}
  /\ step = "Recv" => \A s \in DOMAIN in_progress : s > high_water - seal_lag

Phase1Init ==
  /\ source \in {"ShredStream", "Yellowstone"}
  /\ slot_offset = <<>> /\ highest_slot = 0
  /\ rx = <<>> /\ ord_rx = <<>>
  /\ startup_slot = 0 /\ warm = FALSE /\ gate = "Run"
  /\ high_water = 0 /\ in_progress = <<>>
  /\ step = "Recv" /\ main = "Run"
  /\ sealed_reports = <<>> /\ reported = <<>> /\ arrivals = <<>>
  /\ observed = [s \in LedgerSlot |-> <<>>] /\ returned = {}
  /\ messages = 0 /\ reconnects = 0 /\ renumbered = FALSE

(* try_send of items, one after the other. *)
SendAll(channel, items) ==
  LET room == source_channel_capacity - Len(channel) IN
  channel \o SubSeq(items, 1, IF Len(items) < room THEN Len(items) ELSE room)

Put(f, x, y) == [z \in DOMAIN f \cup {x} |-> IF z = x THEN y ELSE f[z]]
OnlyOn(f, S) == [z \in DOMAIN f \cap S |-> f[z]]

-----------------------------------------------------------------------------
(* The entry at a place of a slot, under an index. *)
Entry(slot, place, index) ==
  [slot |-> slot, entry_index |-> index, place |-> place,
   tx_count |-> IF place = Length[slot] - 1 THEN 0 ELSE 1]

(* Bug: the index starts at zero with every message. *)
Base_PerMessage(slot) == 0

(* Entries of the slot counted on this connection so far. *)
Base(slot) == IF slot \in DOMAIN slot_offset THEN slot_offset[slot] ELSE 0

(* A batch from the proxy, in any order, repeated or left out: its entries *)
(* are numbered on from the slot's offset; many slots behind, offsets are  *)
(* evicted.                                                                *)
ReceiveBatch(b) ==
  LET base == Base(b.slot)
      counted == Put(slot_offset, b.slot, base + b.n)
      highest == IF b.slot > highest_slot THEN b.slot ELSE highest_slot
      kept == IF Cardinality(DOMAIN counted) > max_offsets
              THEN OnlyOn(counted, {s \in LedgerSlot : s >= highest - offset_history})
              ELSE counted
  IN /\ source = "ShredStream" /\ messages < MaxMessages
     /\ messages' = messages + 1
     /\ rx' = SendAll(rx, [i \in 1 .. b.n |-> Entry(b.slot, b.first + i - 1, base + i - 1)])
     /\ slot_offset' = kept
     /\ highest_slot' = highest
     /\ renumbered' = (renumbered \/ kept # counted)
     /\ UNCHANGED <<source, reconnects, gateVars, ord_rx, trackerVars, step, main>>

(* An entry update of Yellowstone. *)
ReceiveEntry(slot, place) ==
  /\ source = "Yellowstone" /\ messages < MaxMessages
  /\ messages' = messages + 1
  /\ rx' = SendAll(rx, <<Entry(slot, place, place)>>)
  /\ UNCHANGED <<source, slot_offset, highest_slot, reconnects, renumbered, gateVars,
                 ord_rx, trackerVars, step, main>>

(* The stream ends or fails; run_loop connects again and counts from zero. *)
Reconnect ==
  /\ reconnects < MaxReconnects
  /\ reconnects' = reconnects + 1
  /\ slot_offset' = <<>> /\ highest_slot' = 0
  /\ renumbered' = (renumbered \/ DOMAIN slot_offset # {})
  /\ UNCHANGED <<source, messages, rx, gateVars, ord_rx, trackerVars, step, main>>

-----------------------------------------------------------------------------
(* The warm-up gate drops what comes until an entry of a later slot than   *)
(* the first; from then on it forwards everything.  It looks at the stop   *)
(* after each.                                                             *)
WarmUp ==
  /\ gate = "Run" /\ rx # <<>>
  /\ rx' = Tail(rx)
  /\ LET obs == Head(rx)
         through == warm \/ (startup_slot # 0 /\ obs.slot > startup_slot)
     IN /\ startup_slot' = IF startup_slot = 0 THEN obs.slot ELSE startup_slot
        /\ warm' = through
        /\ ord_rx' = IF through THEN SendAll(ord_rx, <<obs>>) ELSE ord_rx
  /\ gate' = IF stop THEN "Exit" ELSE "Run"
  /\ UNCHANGED <<sourceVars, trackerVars, step, main>>

-----------------------------------------------------------------------------
NewProgress ==
  [seen_indices |-> {}, max_index_at_arrival |-> 0, out_of_order |-> 0,
   max_backward_gap |-> 0, last_entry |-> [index |-> 0, tx_count |-> 0]]

(* Bug: an index below the highest is taken for the highest from then on.  *)
Progress_Lowered(p, obs) ==
  LET gap == p.max_index_at_arrival - obs.entry_index IN
  [seen_indices |-> p.seen_indices \cup {obs.entry_index},
   max_index_at_arrival |-> obs.entry_index,
   out_of_order |-> IF gap > 0 THEN p.out_of_order + 1 ELSE p.out_of_order,
   max_backward_gap |-> IF gap > p.max_backward_gap THEN gap ELSE p.max_backward_gap,
   last_entry |-> IF gap < 0 THEN [index |-> obs.entry_index, tx_count |-> obs.tx_count]
                  ELSE p.last_entry]

(* A slot's progress after an observation. The last entry is known only    *)
(* from the second index on.                                               *)
Progress(p, obs) ==
  LET gap == p.max_index_at_arrival - obs.entry_index IN
  [seen_indices |-> p.seen_indices \cup {obs.entry_index},
   max_index_at_arrival |-> IF gap < 0 THEN obs.entry_index ELSE p.max_index_at_arrival,
   out_of_order |-> IF gap > 0 THEN p.out_of_order + 1 ELSE p.out_of_order,
   max_backward_gap |-> IF gap > p.max_backward_gap THEN gap ELSE p.max_backward_gap,
   last_entry |-> IF gap < 0 THEN [index |-> obs.entry_index, tx_count |-> obs.tx_count]
                  ELSE p.last_entry]

(* The first half of observe: high_water and the slot's progress. *)
Observe ==
  /\ step = "Recv" /\ ord_rx # <<>>
  /\ ord_rx' = Tail(ord_rx)
  /\ LET obs == Head(ord_rx)
         known == obs.slot \in DOMAIN in_progress
     IN /\ high_water' = IF obs.slot > high_water THEN obs.slot ELSE high_water
        /\ in_progress' = Put(in_progress, obs.slot,
             Progress(IF known THEN in_progress[obs.slot] ELSE NewProgress, obs))
        /\ arrivals' = Put(arrivals, obs.slot,
             Append(IF known THEN arrivals[obs.slot] ELSE <<>>, obs))
        /\ observed' = [observed EXCEPT ![obs.slot] = Append(@, obs)]
        /\ returned' = IF ~known /\ observed[obs.slot] # <<>>
                       THEN returned \cup {obs.slot} ELSE returned
  /\ step' = "Seal"
  /\ UNCHANGED <<sourceVars, rx, gateVars, sealed_reports, reported, main>>

build_report(slot, p) ==
  [slot |-> slot,
   entries_seen |-> Cardinality(p.seen_indices),
   max_index |-> p.last_entry.index,
   out_of_order_count |-> p.out_of_order,
   max_backward_gap |-> p.max_backward_gap,
   missing_indices |-> (0 .. p.last_entry.index) \ p.seen_indices,
   last_entry_was_tick |-> p.last_entry.tx_count = 0,
   last_entry_tx_count |-> p.last_entry.tx_count]

(* The n-th of a set of slots. *)
nth(slots, n) == CHOOSE s \in slots : Cardinality({r \in slots : r < s}) = n - 1

(* Slots leave in ascending order, each with its report. *)
Reports(slots) ==
  [n \in 1 .. Cardinality(slots) |->
     build_report(nth(slots, n), in_progress[nth(slots, n)])]

SealSlots(slots) ==
  LET reports == Reports(slots) IN
  /\ sealed_reports' = sealed_reports \o reports
  /\ reported' = reported \o [n \in DOMAIN reports |-> arrivals[reports[n].slot]]
  /\ in_progress' = OnlyOn(in_progress, LedgerSlot \ slots)
  /\ arrivals' = OnlyOn(arrivals, LedgerSlot \ slots)

(* The second half of observe; the main thread may flush between the two.  *)
(* A thread that finds the stop leaves.                                    *)
maybe_seal ==
  /\ step = "Seal"
  /\ SealSlots({s \in DOMAIN in_progress : high_water > seal_lag /\ s <= high_water - seal_lag})
  /\ step' = IF stop THEN "Exit" ELSE "Recv"
  /\ UNCHANGED <<sourceVars, rx, gateVars, ord_rx, high_water, seenVars, main>>

(* 200 ms without an observation. *)
TrackerIdle ==
  /\ step = "Recv" /\ ord_rx = <<>> /\ stop
  /\ step' = "Exit"
  /\ UNCHANGED <<sourceVars, rx, gateVars, ord_rx, trackerVars, main>>

-----------------------------------------------------------------------------
(* The duration is over. *)
Stop ==
  /\ main = "Run"
  /\ main' = "Flush"
  /\ UNCHANGED <<sourceVars, rx, gateVars, ord_rx, trackerVars, step>>

(* Bug: only what is behind enough is sealed. *)
Flushed_Behind == {s \in DOMAIN in_progress : s <= high_water - seal_lag}

Flushed == DOMAIN in_progress

(* The main thread flushes at once: it does not wait for the tracker. *)
flush_all ==
  /\ main = "Flush"
  /\ SealSlots(Flushed)
  /\ main' = "Report"
  /\ UNCHANGED <<sourceVars, rx, gateVars, ord_rx, high_water, seenVars, step>>

Phase1Next ==
  \/ \E b \in Batch : ReceiveBatch(b)
  \/ \E s \in LedgerSlot : \E i \in 0 .. Length[s] - 1 : ReceiveEntry(s, i)
  \/ Reconnect
  \/ WarmUp
  \/ Observe \/ maybe_seal \/ TrackerIdle
  \/ Stop \/ flush_all

Phase1Spec == Phase1Init /\ [][Phase1Next]_phase1Vars

-----------------------------------------------------------------------------
Highest(arr, n) == Max({0} \cup {arr[i].entry_index : i \in 1 .. n})

(* The first observation of the highest index. *)
IsLast(arr, i) ==
  /\ arr[i].entry_index = Highest(arr, Len(arr))
  /\ \A j \in DOMAIN arr : j < i => arr[j].entry_index # arr[i].entry_index

(* What a report should say of the observations of a slot. *)
TrueReport(slot, arr) ==
  LET last == Highest(arr, Len(arr))
      indices == {arr[i].entry_index : i \in DOMAIN arr}
      late == {i \in DOMAIN arr : arr[i].entry_index < Highest(arr, i)}
      txs == arr[CHOOSE i \in DOMAIN arr : IsLast(arr, i)].tx_count
  IN [slot |-> slot,
      entries_seen |-> Cardinality(indices),
      max_index |-> last,
      out_of_order_count |-> Cardinality(late),
      max_backward_gap |->
        Max({0} \cup {Highest(arr, i) - arr[i].entry_index : i \in late}),
      missing_indices |-> (0 .. last) \ indices,
      last_entry_was_tick |-> txs = 0,
      last_entry_tx_count |-> txs]

(* The report is true of the observations, but for what it says of the     *)
(* last entry of a slot of which only index 0 came: always a tick.         *)
Says(report, arr) ==
  LET truth == TrueReport(report.slot, arr) IN
  \A field \in DOMAIN truth :
    \/ report[field] = truth[field]
    \/ /\ field \in {"last_entry_was_tick", "last_entry_tx_count"} /\ truth.max_index = 0
       /\ report.last_entry_was_tick /\ report.last_entry_tx_count = 0

(* A report, built one observation at a time, is true of all that was ever *)
(* observed of its slot, whichever of the tracker and the flush seals it:  *)
(* the numbers the later phases were designed on.  The exception is a slot *)
(* that came back after its seal: each of its reports is true only of what *)
(* came since the one before, and lists what that one saw as missing.      *)
ReportsAreTrue ==
  \A n \in DOMAIN sealed_reports :
    LET slot == sealed_reports[n].slot IN
    Says(sealed_reports[n], IF slot \in returned THEN reported[n] ELSE observed[slot])

(* ordering.rs: entries after the seal "we just count as out_of_order      *)
(* against the now-frozen max_index": a slot has one report.               *)
OneReportPerSlot ==
  \A m, n \in DOMAIN sealed_reports : sealed_reports[m].slot = sealed_reports[n].slot => m = n

(* flush_all races with the tracker: once both are over, at most the one   *)
(* observation the tracker had in hand is in no report.                    *)
FlushLeavesAtMostOne ==
  main = "Report" =>
    /\ Cardinality(DOMAIN arrivals) <= 1
    /\ \A s \in DOMAIN arrivals : Len(arrivals[s]) <= 1

(* ShredStream entries are never reported out of order on a connection     *)
(* that still knows their slot, in whatever order the batches come: the    *)
(* index is the order of arrival, so the report says nothing about PoH.    *)
ShredStreamNeverDisordered ==
  source = "ShredStream" /\ ~renumbered =>
    \A n \in DOMAIN sealed_reports : sealed_reports[n].out_of_order_count = 0

(* phase1_observe.rs: "Per-source trackers prove each source is            *)
(* individually ordered": a report without disorder is of a slot whose     *)
(* entries came in the order of the chain.                                 *)
OrderedMeansPoHOrder ==
  \A n \in DOMAIN sealed_reports :
    sealed_reports[n].out_of_order_count = 0 =>
      \A i, j \in DOMAIN reported[n] : i < j => reported[n][i].place <= reported[n][j].place

=============================================================================
