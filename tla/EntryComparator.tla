--------------------------- MODULE EntryComparator ---------------------------
(***************************************************************************)
(* The entry comparator (crates/entry-comparator): a correlator thread     *)
(* pairs what Yellowstone and ShredStream say of an entry, or gives up on  *)
(* the second source after a deadline, and a writer thread puts one row    *)
(* per outcome into a file in groups.  The main thread stops the           *)
(* correlator, then waits for the writer; a report is made of the file.    *)
(*                                                                         *)
(* A key stands for a slot and an entry hash.  Timestamps, signatures and  *)
(* leader names are left out, and so is the report; of a row the key and   *)
(* the verdict on its sources are kept.                                    *)
(***************************************************************************)
EXTENDS Integers, Sequences, FiniteSets, Folds, Functions

CONSTANTS
  Key,             \* pairs of a slot and an entry hash
  SourceCapacity,  \* of each source's channel
  DiffCapacity,    \* of the channel from the correlator to the writer
  row_group_size,  \* rows that make the writer flush
  MaxObservations  \* bound: observations that one source delivers

ASSUME ComparatorAssumption ==
  /\ SourceCapacity \in Nat \ {0} /\ DiffCapacity \in Nat \ {0}
  /\ row_group_size \in Nat \ {0} /\ MaxObservations \in Nat

Source == {"Yellowstone", "ShredStream"}
DiffRecord == [key : Key, source : {"BOTH", "YS_ONLY", "SS_ONLY"}]

VARIABLES
  rx,        \* rx[s]: keys waiting in the channel of source s
  map,       \* map[k]: the sources that k's MatchState holds, none: absent
  overdue,   \* keys whose MatchState has reached the deadline
  phase,     \* of the correlator's loop
  scratch,   \* keys the sweep under way has yet to emit
  diff,      \* the channel to the writer
  builders,  \* rows collected for the next group
  file,      \* rows written
  writer,    \* "Running" or "Closed"
  shutdown,  \* the flag the main thread sets
  handled,   \* history: observations handled, per source and key
  expired,   \* history: keys swept at their deadline
  opened,    \* history: MatchStates inserted, per key
  lost       \* history: rows dropped on a full channel or a failed write

vars == <<rx, map, overdue, phase, scratch, diff, builders, file, writer,
          shutdown, handled, expired, opened, lost>>

(* Types; channels and groups stay within their capacities, and the rows   *)
(* an ended correlator leaves behind are out of the map.                   *)
TypeOK ==
  /\ rx \in [Source -> Seq(Key)]
  /\ \A s \in Source : Len(rx[s]) <= SourceCapacity
  /\ map \in [Key -> SUBSET Source]
  /\ overdue \subseteq {k \in Key : map[k] # {}}
  /\ phase \in {"Check", "Select", "Sweep", "Flush", "Done"}
  /\ scratch \subseteq {k \in Key : map[k] # {}}
  /\ diff \in Seq(DiffRecord) /\ Len(diff) <= DiffCapacity
  /\ builders \in Seq(DiffRecord) /\ Len(builders) < row_group_size
  /\ file \in Seq(DiffRecord)
  /\ writer \in {"Running", "Closed"}
  /\ shutdown \in BOOLEAN
  /\ handled \in [Source \X Key -> Nat]
  /\ expired \subseteq Key
  /\ opened \in [Key -> Nat]
  /\ lost \in [Key -> Nat]
  /\ phase = "Done" => \A k \in Key : map[k] = {}

Init ==
  /\ rx = [s \in Source |-> <<>>]
  /\ map = [k \in Key |-> {}]
  /\ overdue = {}
  /\ phase = "Check"
  /\ scratch = {}
  /\ diff = <<>> /\ builders = <<>> /\ file = <<>>
  /\ writer = "Running"
  /\ shutdown = FALSE
  /\ handled = [o \in Source \X Key |-> 0]
  /\ expired = {}
  /\ opened = [k \in Key |-> 0]
  /\ lost = [k \in Key |-> 0]

writerVars == <<builders, file, writer>>
historyVars == <<handled, expired, opened, lost>>

-----------------------------------------------------------------------------
(* Observations of s handled so far. *)
Handled(s) == FoldFunction(+, 0, [k \in Key |-> handled[<<s, k>>]])

(* A source delivers an observation; its threads never end.  What does not *)
(* fit into the channel is lost, as if never delivered.                    *)
Deliver(s, k) ==
  /\ Len(rx[s]) < SourceCapacity
  /\ Handled(s) + Len(rx[s]) < MaxObservations
  /\ rx' = [rx EXCEPT ![s] = Append(@, k)]
  /\ UNCHANGED <<map, overdue, phase, scratch, diff, shutdown, writerVars, historyVars>>

(* The row emit makes of a MatchState. *)
Row(k, sources) ==
  [key |-> k,
   source |-> IF sources = Source THEN "BOTH"
              ELSE IF "Yellowstone" \in sources THEN "YS_ONLY" ELSE "SS_ONLY"]

(* Bug: a row that finds the channel full is dropped without being counted.*)
emit_Silent(k, sources) ==
  /\ diff' = IF Len(diff) < DiffCapacity THEN Append(diff, Row(k, sources)) ELSE diff
  /\ UNCHANGED lost

(* try_send to the writer; a full channel loses the row and counts it. *)
emit(k, sources) ==
  IF Len(diff) < DiffCapacity
  THEN diff' = Append(diff, Row(k, sources)) /\ UNCHANGED lost
  ELSE lost' = [lost EXCEPT ![k] = @ + 1] /\ UNCHANGED diff

(* The top of the loop: stop, or wait for an observation. *)
Check ==
  /\ phase = "Check"
  /\ IF shutdown
     THEN phase' = "Flush" /\ scratch' = {k \in Key : map[k] # {}}
     ELSE phase' = "Select" /\ UNCHANGED scratch
  /\ UNCHANGED <<rx, map, overdue, diff, shutdown, writerVars, historyVars>>

(* Bug: a pair is emitted and stays in the map. *)
Paired_Kept(sources) == sources

(* A MatchState that has both sources leaves the map. *)
Paired(sources) == IF sources = Source THEN {} ELSE sources

(* After the select: the sweep when 250 ms have passed, or the next turn.  *)
ThenSweep(held, late) ==
  \/ phase' = "Sweep" /\ scratch' = {k \in late : held[k] # {}}
  \/ phase' = "Check" /\ UNCHANGED scratch

(* handle: the source's observation joins the key's MatchState, replacing  *)
(* an earlier one of the same source; a pair is emitted.                   *)
Handle(s) ==
  /\ phase = "Select"
  /\ rx[s] # <<>>
  /\ LET k == Head(rx[s])
         sources == map[k] \cup {s}
         held == [map EXCEPT ![k] = Paired(sources)]
         late == {j \in overdue : held[j] # {}}
     IN /\ rx' = [rx EXCEPT ![s] = Tail(@)]
        /\ map' = held
        /\ overdue' = late
        /\ handled' = [handled EXCEPT ![<<s, k>>] = @ + 1]
        /\ opened' = [opened EXCEPT ![k] = IF map[k] = {} THEN @ + 1 ELSE @]
        /\ IF sources = Source THEN emit(k, sources) ELSE UNCHANGED <<diff, lost>>
        /\ ThenSweep(held, late)
  /\ UNCHANGED <<shutdown, writerVars, expired>>

(* The select's default: nothing arrived for 100 ms. *)
Idle ==
  /\ phase = "Select"
  /\ \A s \in Source : rx[s] = <<>>
  /\ ThenSweep(map, overdue)
  /\ UNCHANGED <<rx, map, overdue, diff, shutdown, writerVars, historyVars>>

(* sweep, one key at a time: the writer goes on meanwhile.  The final      *)
(* flush is a sweep of everything.                                         *)
SweepOne(k) ==
  /\ phase \in {"Sweep", "Flush"}
  /\ k \in scratch
  /\ emit(k, map[k])
  /\ map' = [map EXCEPT ![k] = {}]
  /\ overdue' = overdue \ {k}
  /\ scratch' = scratch \ {k}
  /\ expired' = IF phase = "Sweep" THEN expired \cup {k} ELSE expired
  /\ UNCHANGED <<rx, phase, shutdown, writerVars, handled, opened>>

SweepDone ==
  /\ phase \in {"Sweep", "Flush"}
  /\ scratch = {}
  /\ phase' = IF phase = "Sweep" THEN "Check" ELSE "Done"
  /\ UNCHANGED <<rx, map, overdue, scratch, diff, shutdown, writerVars, historyVars>>

(* Five seconds pass for a MatchState. *)
DeadlinePasses(k) ==
  /\ map[k] # {}
  /\ overdue' = overdue \cup {k}
  /\ UNCHANGED <<rx, map, phase, scratch, diff, shutdown, writerVars, historyVars>>

-----------------------------------------------------------------------------
(* flush: the group is written, or the write fails and the group is gone.  *)
Flush(rows) ==
  /\ builders' = <<>>
  /\ \/ file' = file \o rows /\ UNCHANGED lost
     \/ /\ rows # <<>>
        /\ lost' = [k \in Key |->
                     lost[k] + Cardinality({i \in DOMAIN rows : rows[i].key = k})]
        /\ UNCHANGED file

(* The writer takes a row; a full group, or one that has waited for the    *)
(* flush interval, is flushed.                                             *)
WriterAppend ==
  LET rows == Append(builders, Head(diff)) IN
  /\ writer = "Running"
  /\ diff # <<>>
  /\ diff' = Tail(diff)
  /\ \/ Flush(rows)
     \/ /\ Len(rows) < row_group_size
        /\ builders' = rows
        /\ UNCHANGED <<file, lost>>
  /\ UNCHANGED <<rx, map, overdue, phase, scratch, writer, shutdown, handled,
                 expired, opened>>

(* Nothing arrived for the flush interval. *)
WriterTimeout ==
  /\ writer = "Running"
  /\ diff = <<>> /\ phase # "Done"
  /\ builders # <<>>
  /\ Flush(builders)
  /\ UNCHANGED <<rx, map, overdue, phase, scratch, diff, writer, shutdown,
                 handled, expired, opened>>

(* Bug: the writer stops as soon as the correlator has, unread rows or not.*)
WriterClose_Early ==
  /\ writer = "Running"
  /\ phase = "Done"
  /\ Flush(builders)
  /\ writer' = "Closed"
  /\ UNCHANGED <<rx, map, overdue, phase, scratch, diff, shutdown, handled,
                 expired, opened>>

(* The correlator has dropped its end and the channel is empty: the last   *)
(* group is flushed and the file gets its footer.                          *)
WriterClose ==
  /\ writer = "Running"
  /\ diff = <<>> /\ phase = "Done"
  /\ Flush(builders)
  /\ writer' = "Closed"
  /\ UNCHANGED <<rx, map, overdue, phase, scratch, diff, shutdown, handled,
                 expired, opened>>

(* The run's duration is over. *)
Shutdown ==
  /\ ~shutdown
  /\ shutdown' = TRUE
  /\ UNCHANGED <<rx, map, overdue, phase, scratch, diff, writerVars, historyVars>>

Correlate == Check \/ Idle \/ SweepDone \/ (\E s \in Source : Handle(s))
               \/ (\E k \in Key : SweepOne(k))
Write == WriterAppend \/ WriterTimeout \/ WriterClose

Next ==
  \/ \E s \in Source, k \in Key : Deliver(s, k)
  \/ \E k \in Key : DeadlinePasses(k)
  \/ Correlate
  \/ Write
  \/ Shutdown

(* Both threads run and the duration elapses.  The sources may be silent.  *)
Spec == Init /\ [][Next]_vars /\ WF_vars(Correlate) /\ WF_vars(Write) /\ WF_vars(Shutdown)

-----------------------------------------------------------------------------
Of(k, rows) == Cardinality({i \in DOMAIN rows : rows[i].key = k})

(* Every MatchState the correlator opens ends as exactly one row, which is *)
(* on its way, in the file, or counted or logged as lost: pairing, sweeps, *)
(* the final flush and group flushes neither forget a key nor repeat one.  *)
RowsConserved ==
  \A k \in Key :
    opened[k] = (IF map[k] # {} THEN 1 ELSE 0) + Of(k, diff) + Of(k, builders)
                  + Of(k, file) + lost[k]

(* Two sources that each tell of an entry once, the second before the      *)
(* first's deadline, give a single row, and it says BOTH, wherever sweeps  *)
(* and the shutdown fall between.                                          *)
OnTimeMeansBoth ==
  \A k \in Key :
    (\A s \in Source : handled[<<s, k>>] = 1) /\ k \notin expired =>
      /\ opened[k] = 1 /\ map[k] = {}
      /\ \A i \in DOMAIN file : file[i].key = k => file[i].source = "BOTH"

(* Shutdown completes: the correlator flushes, the writer drains the rows  *)
(* it left, and only then writes the footer.                               *)
ShutdownCompletes == <>[](writer = "Closed" /\ diff = <<>> /\ builders = <<>>)

=============================================================================
