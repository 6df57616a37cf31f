--------------------------- MODULE TickTriggerBench ---------------------------
(***************************************************************************)
(* The tick-trigger bench (crates/tick-trigger-bench): the preparer signs  *)
(* a transaction per scheduled slot and tick ahead of time, the observer   *)
(* counts ticks in the entry stream and triggers the send, the dispatcher  *)
(* sends with several requests in flight, the finalizer joins each send    *)
(* with the observation of its signature, the parquet writer keeps one row *)
(* per send, and a fallback asks the RPC about what was never observed.    *)
(*                                                                         *)
(* Times are left out: what depends on an age is free to happen at any     *)
(* time the age allows.  Send errors only become text of the row.          *)
(***************************************************************************)
EXTENDS Integers, Sequences, FiniteSets

CONSTANTS
  Entry,             \* the chain: [slot, i, num_hashes, tx]; tx: has transactions
  schedule,          \* the triggers: <<slot, tick>>
  HASHES_PER_TICK, TICKS_PER_SLOT,
  start_slot,        \* the RPC's slot at start
  look_ahead_slots,
  channel_capacity,
  max_inflight,
  MaxObservations,   \* bound: entries observed before the stop
  MaxCycles          \* bound: cycles of the preparer

ASSUME BenchAssumption ==
  /\ Entry \subseteq [slot : Nat, i : Nat, num_hashes : Nat, tx : BOOLEAN]
  /\ schedule \subseteq Nat \X (1 .. TICKS_PER_SLOT) /\ IsFiniteSet(schedule)
  /\ HASHES_PER_TICK \in Nat \ {0} /\ TICKS_PER_SLOT \in Nat
  /\ start_slot \in Nat /\ look_ahead_slots \in Nat
  /\ channel_capacity \in Nat \ {0} /\ max_inflight \in Nat \ {0}
  /\ MaxObservations \in Nat /\ MaxCycles \in Nat

Slot == {e.slot : e \in Entry}

(* A signature is known by the blockhash of its cycle and its amount. *)
Sig == (1 .. MaxCycles) \X Nat
Tx == [key : schedule, sig : Sig]

(* Where a signature was seen; no tick in the slot the observer skips. *)
Position == Nat \X Nat
Match == [slot : Slot, at : Position \cup {<<>>}]

VARIABLES
  slot_state,       \* observer: ticks, hashes since, hashes in all, entries seen
  first_slot_seen,  \* 0: none yet
  current_slot,
  observer,         \* each thread: "Run", or "Exit" once it has left its loop
  preparer,         \* "Sleep", "Sign" (between fetch and signing) or "Exit"
  finalizer,        \* "Run", "Flush" (out of its loop) or "Exit" (its ends dropped)
  parquet, fallback_thread,
  stop,
  cycle,            \* blockhash of the latest cycle, a new one each time
  window_lo,        \* current_slot as the cycle under way read it
  too_old,          \* transactions built in cycles up to this one have expired
  already_signed,   \* cycle each trigger was signed in, 0: not signed
  pool,             \* signatures ready per trigger, at most one each
  send_queue, inflight, pending_sigs, match_queue, send_events,
  map,              \* finalizer: sends waiting for their observation
  early_matches,    \* finalizer: observations waiting for their send
  final_queue, file,
  fallback_queue,
  content,          \* entries observed so far and the signatures they hold
  landable,         \* signatures out in the network, in no entry yet
  observations,     \* entries observed, up to the bound
  fired,            \* history: triggers that took a transaction
  lost,             \* history: transactions dropped and counted, per trigger
  stranded,         \* history: send events left unread in the channel, per trigger
  first_match       \* history: first observation of a pending signature

observerVars == <<slot_state, first_slot_seen, current_slot, observer, match_queue,
                  content, observations, fired, first_match>>
preparerVars == <<preparer, cycle, window_lo, already_signed>>
sendVars == <<inflight, pending_sigs, landable>>
finalVars == <<finalizer, map, early_matches, fallback_queue, stranded>>
fileVars == <<parquet, file>>
benchVars == <<observerVars, preparerVars, sendVars, finalVars, fileVars, stop, too_old,
               pool, send_queue, send_events, final_queue, fallback_thread, lost>>

Row == [key : schedule, sig : Sig, match : Match \cup {<<>>}]

(* Types, channels within their capacities, requests within max_inflight.  *)
BenchTypeOK ==
  /\ slot_state \in [Slot -> [tick_idx : Nat, hash_count : Nat, cumulative : Nat,
                              seen : SUBSET Entry]]
  /\ first_slot_seen \in Slot \cup {0}
  /\ current_slot \in Slot \cup {start_slot} /\ window_lo \in Slot \cup {start_slot}
  /\ preparer \in {"Sleep", "Sign", "Exit"} /\ finalizer \in {"Run", "Flush", "Exit"}
  /\ {observer, parquet, fallback_thread} \subseteq {"Run", "Exit"}
  /\ stop \in BOOLEAN
  /\ too_old <= cycle /\ cycle <= MaxCycles
  /\ already_signed \in [schedule -> 0 .. cycle]
  /\ pool \subseteq Tx /\ \A p, q \in pool : p.key = q.key => p = q
  /\ send_queue \in Seq(Tx) /\ Len(send_queue) <= channel_capacity
  /\ inflight \subseteq Tx /\ Cardinality(inflight) <= max_inflight
  /\ pending_sigs \subseteq Sig /\ landable \subseteq Sig
  /\ match_queue \in Seq([sig : Sig, match : Match])
  /\ Len(match_queue) <= channel_capacity
  /\ send_events \in Seq(Tx) /\ Len(send_events) <= channel_capacity
  /\ map \subseteq Tx
  /\ final_queue \in Seq(Row) /\ Len(final_queue) <= channel_capacity
  /\ file \subseteq Row
  /\ fallback_queue \subseteq Sig

BenchInit ==
  /\ slot_state = [s \in Slot |->
       [tick_idx |-> 0, hash_count |-> 0, cumulative |-> 0, seen |-> {}]]
  /\ first_slot_seen = 0
  /\ current_slot = start_slot /\ window_lo = start_slot
  /\ observer = "Run" /\ parquet = "Run" /\ fallback_thread = "Run"
  /\ preparer = "Sleep" /\ finalizer = "Run"
  /\ stop = FALSE
  /\ cycle = 0 /\ too_old = 0
  /\ already_signed = [k \in schedule |-> 0]
  /\ pool = {} /\ inflight = {} /\ pending_sigs = {} /\ landable = {}
  /\ send_queue = <<>> /\ match_queue = <<>> /\ send_events = <<>> /\ final_queue = <<>>
  /\ map = {} /\ early_matches = <<>>
  /\ file = {} /\ fallback_queue = {}
  /\ content = <<>> /\ observations = 0
  /\ fired = {} /\ lost = [k \in schedule |-> 0] /\ stranded = lost
  /\ first_match = <<>>

(* try_send succeeds; otherwise the item is dropped. *)
Room(channel) == Len(channel) < channel_capacity

(* A partial function with x mapped to y as well, or without x. *)
Put(f, x, y) == [z \in DOMAIN f \cup {x} |-> IF z = x THEN y ELSE f[z]]
Drop(f, x) == [z \in DOMAIN f \ {x} |-> f[z]]

-----------------------------------------------------------------------------
(* Bug: a duplicate delivery is counted again. *)
CountEntry_NoDedup(st, e) ==
  LET hashes == st.hash_count + e.num_hashes
      tick == ~e.tx /\ hashes = HASHES_PER_TICK
  IN [tick_idx |-> IF tick THEN st.tick_idx + 1 ELSE st.tick_idx,
      hash_count |-> IF tick THEN 0 ELSE hashes,
      cumulative |-> st.cumulative + e.num_hashes,
      seen |-> st.seen \cup {e}]

(* A slot's state after an entry: an empty entry that completes the hashes *)
(* of a tick ends it; an entry seen before changes nothing.                *)
CountEntry(st, e) ==
  LET hashes == st.hash_count + e.num_hashes
      tick == ~e.tx /\ hashes = HASHES_PER_TICK
  IN IF e \in st.seen THEN st
     ELSE [tick_idx |-> IF tick THEN st.tick_idx + 1 ELSE st.tick_idx,
           hash_count |-> IF tick THEN 0 ELSE hashes,
           cumulative |-> st.cumulative + e.num_hashes,
           seen |-> st.seen \cup {e}]

(* The pool's operations: a new transaction of a trigger replaces the old. *)
insert(ready, new) == {p \in ready : \A q \in new : q.key # p.key} \cup new
take(ready, key) == {p \in ready : p.key # key}
prune_older_than(ready, cutoff_slot) == {p \in ready : p.key[1] >= cutoff_slot}

(* A tick on the schedule takes its transaction from the pool and queues   *)
(* it; a full queue loses it, an empty pool has nothing to send.           *)
Trigger(key) ==
  LET ready == {p \in pool : p.key = key} IN
  /\ pool' = take(pool, key)
  /\ fired' = IF ready = {} THEN fired ELSE fired \cup {key}
  /\ \/ ready = {} /\ UNCHANGED <<send_queue, lost>>
     \/ /\ ready # {}
        /\ IF Room(send_queue)
           THEN /\ send_queue' = Append(send_queue, CHOOSE p \in ready : TRUE)
                /\ UNCHANGED lost
           ELSE /\ lost' = [lost EXCEPT ![key] = @ + 1]
                /\ UNCHANGED send_queue

(* Queue an observation of a pending signature of the entry; at most one   *)
(* transaction of this program is in an entry.  An observation that finds  *)
(* the channel full, or the finalizer gone, is dropped.                    *)
MatchSigs(e, sigs, position) ==
  LET match == [slot |-> e.slot, at |-> position] IN
  IF sigs \cap pending_sigs = {} THEN UNCHANGED <<match_queue, first_match>>
  ELSE LET sig == CHOOSE s \in sigs : TRUE IN
       /\ match_queue' = IF Room(match_queue) /\ finalizer # "Exit"
                         THEN Append(match_queue, [sig |-> sig, match |-> match])
                         ELSE match_queue
       /\ first_match' = IF sig \in DOMAIN first_match THEN first_match
                         ELSE Put(first_match, sig, match)

(* What an entry observed for the first time may hold. *)
Contents(e) ==
  IF e \in DOMAIN content THEN {content[e]}
  ELSE {{}} \cup (IF e.tx THEN {{s} : s \in landable} ELSE {})

(* The observer receives an entry: in completion order of its shreds, more *)
(* than once perhaps.  The first slot seen is skipped for ever; a tick     *)
(* past the last one of a slot ends the handling before the signatures.    *)
(* stop is looked at between entries only.                                 *)
Observe(e) ==
  /\ observer = "Run"
  /\ observations < MaxObservations \/ stop
  /\ observations' = IF stop THEN observations ELSE observations + 1
  /\ current_slot' = e.slot
  /\ first_slot_seen' = IF first_slot_seen = 0 THEN e.slot ELSE first_slot_seen
  /\ observer' = IF stop THEN "Exit" ELSE "Run"
  /\ \E sigs \in Contents(e) :
       LET before == slot_state[e.slot]
           after == CountEntry(before, e)
           warmup == e.slot = first_slot_seen'
           ticked == ~warmup /\ after.tick_idx > before.tick_idx
       IN /\ content' = Put(content, e, sigs)
          /\ landable' = landable \ sigs
          /\ slot_state' = IF warmup THEN slot_state
                           ELSE [slot_state EXCEPT ![e.slot] = after]
          /\ IF ticked /\ <<e.slot, after.tick_idx>> \in schedule
             THEN Trigger(<<e.slot, after.tick_idx>>)
             ELSE UNCHANGED <<pool, fired, send_queue, lost>>
          /\ IF ticked /\ after.tick_idx > TICKS_PER_SLOT
             THEN UNCHANGED <<match_queue, first_match>>
             ELSE MatchSigs(e, sigs, IF warmup THEN <<>>
                                     ELSE <<after.tick_idx, after.cumulative>>)
  /\ UNCHANGED <<preparerVars, finalVars, fileVars, stop, too_old, inflight,
                 pending_sigs, send_events, final_queue, fallback_thread>>

-----------------------------------------------------------------------------
(* Transactions past the blockhash's age leave the pool, to be signed anew.*)
Expire ==
  LET expired == {k \in schedule : already_signed[k] \in 1 .. too_old} IN
  /\ already_signed' = [k \in schedule |-> IF k \in expired THEN 0 ELSE already_signed[k]]
  /\ pool' = {p \in pool : p.key \notin expired}

(* A cycle begins with the blockhash; without one it begins again. *)
FetchBlockhash ==
  /\ preparer = "Sleep" /\ ~stop
  /\ cycle < MaxCycles
  /\ cycle' = cycle + 1
  /\ Expire
  /\ window_lo' = current_slot
  /\ preparer' = "Sign"
  /\ UNCHANGED <<observerVars, sendVars, finalVars, fileVars, stop, too_old,
                 send_queue, send_events, final_queue, fallback_thread, lost>>

(* Bug: every transaction of a cycle has the same amount. *)
Amount_Fixed(k, new) == 0

(* The amount tells apart the transactions of a cycle: the trigger's place *)
(* among those signed in it.                                               *)
Amount(k, new) ==
  Cardinality({j \in new : j[1] < k[1] \/ (j[1] = k[1] /\ j[2] < k[2])})

(* Sign what the window has and is not signed; prune what has passed. *)
Sign ==
  LET new == {k \in schedule : /\ k[1] \in window_lo .. (window_lo + look_ahead_slots - 1)
                               /\ already_signed[k] = 0}
      signed == {[key |-> k, sig |-> <<cycle, Amount(k, new)>>] : k \in new}
  IN /\ preparer = "Sign"
     /\ already_signed' = [k \in schedule |-> IF k \in new THEN cycle ELSE already_signed[k]]
     /\ pool' = prune_older_than(insert(pool, signed), window_lo - 2)
     /\ preparer' = "Sleep"
     /\ UNCHANGED <<observerVars, sendVars, finalVars, fileVars, stop, cycle, window_lo,
                    too_old, send_queue, send_events, final_queue, fallback_thread, lost>>

PreparerExit ==
  /\ preparer = "Sleep" /\ stop
  /\ preparer' = "Exit"
  /\ UNCHANGED <<observerVars, sendVars, finalVars, fileVars, stop, cycle, window_lo,
                 too_old, already_signed, pool, send_queue, send_events, final_queue,
                 fallback_thread, lost>>

(* Fifty seconds pass for what the oldest cycle built. *)
BlockhashAges ==
  /\ too_old < cycle /\ preparer = "Sleep"
  /\ too_old' = too_old + 1
  /\ UNCHANGED <<observerVars, preparerVars, sendVars, finalVars, fileVars, stop, pool,
                 send_queue, send_events, final_queue, fallback_thread, lost>>

-----------------------------------------------------------------------------
(* Bug: the dispatcher takes no more commands once the bench is stopped. *)
CanStart_UntilStop ==
  send_queue # <<>> /\ Cardinality(inflight) < max_inflight /\ ~stop

CanStart == send_queue # <<>> /\ Cardinality(inflight) < max_inflight

(* The observer matches a signature from before it is sent. *)
Register(sig) == pending_sigs' = pending_sigs \cup {sig}

(* process_one up to the request: an expired transaction is dropped. *)
StartSend ==
  /\ CanStart
  /\ send_queue' = Tail(send_queue)
  /\ LET tx == Head(send_queue) IN
     IF tx.sig[1] <= too_old
     THEN /\ lost' = [lost EXCEPT ![tx.key] = @ + 1]
          /\ UNCHANGED sendVars
     ELSE /\ Register(tx.sig)
          /\ inflight' = inflight \cup {tx}
          /\ landable' = landable \cup {tx.sig}
          /\ UNCHANGED lost
  /\ UNCHANGED <<observerVars, preparerVars, finalVars, fileVars, stop, too_old, pool,
                 send_events, final_queue, fallback_thread>>

(* The answer, an error or the timeout: an event goes to the finalizer, or *)
(* is counted as dropped when the channel is full or has no reader left.   *)
EndSend(tx) ==
  /\ tx \in inflight
  /\ inflight' = inflight \ {tx}
  /\ IF Room(send_events) /\ finalizer # "Exit"
     THEN send_events' = Append(send_events, tx) /\ UNCHANGED lost
     ELSE lost' = [lost EXCEPT ![tx.key] = @ + 1] /\ UNCHANGED send_events
  /\ UNCHANGED <<observerVars, preparerVars, finalVars, fileVars, stop, too_old, pool,
                 send_queue, pending_sigs, landable, final_queue, fallback_thread>>

DispatcherDone == observer = "Exit" /\ send_queue = <<>> /\ inflight = {}

-----------------------------------------------------------------------------
(* A row for the parquet writer, if its channel has room. *)
Final(tx, match) ==
  IF Room(final_queue)
  THEN /\ final_queue' = Append(final_queue, [key |-> tx.key, sig |-> tx.sig, match |-> match])
       /\ UNCHANGED lost
  ELSE /\ lost' = [lost EXCEPT ![tx.key] = @ + 1]
       /\ UNCHANGED final_queue

(* The end of a turn of finalize_loop: a stopped finalizer leaves its loop *)
(* as soon as its map is empty, whatever its channels hold.                *)
NextTurn(held) == finalizer' = IF stop /\ held = {} THEN "Flush" ELSE "Run"

(* A send event completes an observation that came first, or waits.  A     *)
(* second send of a signature in the map is ignored.                       *)
FinalizeSend ==
  /\ finalizer = "Run" /\ send_events # <<>>
  /\ send_events' = Tail(send_events)
  /\ LET tx == Head(send_events)
         known == {p \in map : p.sig = tx.sig}
         entry == IF known = {} THEN tx ELSE CHOOSE p \in known : TRUE
     IN IF tx.sig \in DOMAIN early_matches
        THEN /\ early_matches' = Drop(early_matches, tx.sig)
             /\ map' = map \ known
             /\ pending_sigs' = pending_sigs \ {tx.sig}
             /\ Final(entry, early_matches[tx.sig])
        ELSE /\ map' = map \cup {entry}
             /\ UNCHANGED <<early_matches, pending_sigs, final_queue, lost>>
  /\ NextTurn(map')
  /\ UNCHANGED <<observerVars, preparerVars, fileVars, stop, too_old, pool, send_queue,
                 inflight, landable, fallback_queue, fallback_thread, stranded>>

(* An observation completes a waiting send.  If the send is not known yet  *)
(* it is buffered, and replaces an earlier one of the same signature.      *)
FinalizeMatch ==
  /\ finalizer = "Run" /\ match_queue # <<>>
  /\ match_queue' = Tail(match_queue)
  /\ LET m == Head(match_queue)
         known == {p \in map : p.sig = m.sig}
     IN IF known # {}
        THEN /\ map' = map \ known
             /\ pending_sigs' = pending_sigs \ {m.sig}
             /\ Final(CHOOSE p \in known : TRUE, m.match)
             /\ UNCHANGED early_matches
        ELSE /\ early_matches' = Put(early_matches, m.sig, m.match)
             /\ UNCHANGED <<map, pending_sigs, final_queue, lost>>
  /\ NextTurn(map')
  /\ UNCHANGED <<slot_state, first_slot_seen, current_slot, observer, content, observations,
                 fired, first_match, preparerVars, fileVars, stop, too_old, pool, send_queue,
                 inflight, landable, send_events, fallback_queue, fallback_thread, stranded>>

(* Nothing arrives for 100 ms. *)
FinalizerIdle ==
  /\ finalizer = "Run" /\ stop /\ map = {}
  /\ finalizer' = "Flush"
  /\ UNCHANGED <<observerVars, preparerVars, sendVars, fileVars, stop, too_old, pool,
                 send_queue, send_events, map, early_matches, final_queue, fallback_queue,
                 fallback_thread, lost, stranded>>

(* Bug: the deadline's row leaves its signature registered. *)
Forget_Keep(sig) == UNCHANGED pending_sigs

Forget(sig) == pending_sigs' = pending_sigs \ {sig}

(* emit_final of a send without an observation. *)
GiveUp(tx) ==
  /\ map' = map \ {tx}
  /\ Forget(tx.sig)
  /\ fallback_queue' = fallback_queue \cup {tx.sig}
  /\ Final(tx, <<>>)
  /\ UNCHANGED <<observerVars, preparerVars, fileVars, stop, too_old, pool, send_queue,
                 inflight, landable, send_events, early_matches, fallback_thread, stranded>>

(* The sweep finds a send past the observation deadline. *)
Deadline(tx) ==
  /\ finalizer = "Run" /\ tx \in map
  /\ GiveUp(tx)
  /\ NextTurn(map')

(* The dispatcher has dropped its end: what the map still holds is final.  *)
FinalizerClose ==
  /\ finalizer = "Run" /\ DispatcherDone /\ send_events = <<>>
  /\ finalizer' = "Flush"
  /\ UNCHANGED <<observerVars, preparerVars, sendVars, fileVars, stop, too_old, pool,
                 send_queue, send_events, map, early_matches, final_queue, fallback_queue,
                 fallback_thread, lost, stranded>>

FinalizerFlush(tx) ==
  /\ finalizer = "Flush" /\ tx \in map
  /\ GiveUp(tx)
  /\ UNCHANGED finalizer

(* A trigger's items in a channel. *)
InQueue(k, q) == Cardinality({i \in DOMAIN q : q[i].key = k})

(* The thread ends and drops its ends of the channels: what they still     *)
(* hold is never read, and no counter tells of it.                         *)
FinalizerExit ==
  /\ finalizer = "Flush" /\ map = {}
  /\ finalizer' = "Exit"
  /\ stranded' = [k \in schedule |-> stranded[k] + InQueue(k, send_events)]
  /\ send_events' = <<>>
  /\ match_queue' = <<>>
  /\ UNCHANGED <<slot_state, first_slot_seen, current_slot, observer, content, observations,
                 fired, first_match, preparerVars, sendVars, fileVars, stop, too_old, pool,
                 send_queue, map, early_matches, final_queue, fallback_queue,
                 fallback_thread, lost>>

-----------------------------------------------------------------------------
(* The parquet writer takes a row.  Groups, and writes that fail, are as   *)
(* in the comparator's writer and left out here.                           *)
WriterTake ==
  /\ parquet = "Run" /\ final_queue # <<>>
  /\ final_queue' = Tail(final_queue)
  /\ file' = file \cup {Head(final_queue)}
  /\ UNCHANGED <<observerVars, preparerVars, sendVars, finalVars, stop, too_old, pool,
                 send_queue, send_events, parquet, fallback_thread, lost>>

(* The finalizer has dropped its end and the channel is empty. *)
WriterClose ==
  /\ parquet = "Run" /\ finalizer = "Exit" /\ final_queue = <<>>
  /\ parquet' = "Exit"
  /\ UNCHANGED <<observerVars, preparerVars, sendVars, finalVars, stop, too_old, pool,
                 send_queue, send_events, final_queue, file, fallback_thread, lost>>

(* The fallback wakes, asks about all that is queued and goes back to      *)
(* sleep, or leaves if it was stopped meanwhile.                           *)
FallbackPoll ==
  /\ fallback_thread = "Run"
  /\ fallback_queue' = {}
  /\ fallback_thread' = IF stop THEN "Exit" ELSE "Run"
  /\ UNCHANGED <<observerVars, preparerVars, sendVars, fileVars, stop, too_old, pool,
                 send_queue, send_events, finalizer, map, early_matches, final_queue, lost,
                 stranded>>

(* The duration is over, or the schedule is behind. *)
Stop ==
  /\ ~stop /\ stop' = TRUE
  /\ UNCHANGED <<observerVars, preparerVars, sendVars, finalVars, fileVars, too_old, pool,
                 send_queue, send_events, final_queue, fallback_thread, lost>>

Prepare == FetchBlockhash \/ Sign \/ PreparerExit
Dispatch == StartSend \/ (\E tx \in inflight : EndSend(tx))
Finalize == FinalizeSend \/ FinalizeMatch \/ FinalizerIdle \/ FinalizerClose
              \/ FinalizerExit \/ (\E tx \in map : Deadline(tx) \/ FinalizerFlush(tx))
Write == WriterTake \/ WriterClose

BenchNext ==
  \/ \E e \in Entry : Observe(e)
  \/ Prepare \/ BlockhashAges
  \/ Dispatch
  \/ Finalize
  \/ Write
  \/ FallbackPoll
  \/ Stop

(* Every thread runs; requests are answered or time out; the validator's   *)
(* stream goes on, which the observer needs to see the stop.               *)
BenchSpec ==
  /\ BenchInit /\ [][BenchNext]_benchVars
  /\ WF_benchVars(\E e \in Entry : Observe(e))
  /\ WF_benchVars(Prepare) /\ WF_benchVars(Dispatch)
  /\ WF_benchVars(Finalize) /\ WF_benchVars(Write)
  /\ WF_benchVars(FallbackPoll) /\ WF_benchVars(Stop)

-----------------------------------------------------------------------------
(* Builders::append's distances of a row with an observation. *)
HASHES_PER_SLOT == TICKS_PER_SLOT * HASHES_PER_TICK
Sub(a, b) == IF a > b THEN a - b ELSE 0
slot_delta(row) == Sub(row.match.slot, row.key[1])
tick_delta(row) == Sub(row.match.at[1] + slot_delta(row) * TICKS_PER_SLOT, row.key[2])

(* Bug: the slots between trigger and observation are not counted. *)
hash_delta_OneSlot(row) == Sub(row.match.at[2], row.key[2] * HASHES_PER_TICK)

hash_delta(row) ==
  Sub(slot_delta(row) * HASHES_PER_SLOT + row.match.at[2], row.key[2] * HASHES_PER_TICK)

InSet(k, S) == Cardinality({x \in S : x.key = k})

(* Every trigger that took a transaction is at one place of the pipeline,  *)
(* has its row, was dropped and counted, or was stranded: sends in flight  *)
(* together, observations that overtake their send, deadlines and the      *)
(* shutdown make no two rows of a send.                                    *)
FiresConserved ==
  \A k \in schedule :
    (IF k \in fired THEN 1 ELSE 0)
      = InQueue(k, send_queue) + InSet(k, inflight) + InQueue(k, send_events)
          + InSet(k, map) + InQueue(k, final_queue) + InSet(k, file) + lost[k] + stranded[k]

(* Sends are stranded only by a stopped finalizer that has left.           *)
StrandedAtExit ==
  (\E k \in schedule : stranded[k] > 0) => stop /\ finalizer = "Exit"

(* The only sends lost without a counter are those whose events a stopped  *)
(* finalizer leaves unread: it does not wait for the requests in flight.   *)
FiresAccounted == FiresConserved /\ StrandedAtExit

(* A registered signature has a send that is not final yet, unless a       *)
(* send's event was dropped or stranded: the observer does not go on       *)
(* matching what has its row, and never before it is matched is a sent     *)
(* signature forgotten.                                                    *)
PendingIsOpen ==
  LET open == {tx.sig : tx \in inflight \cup map} \cup
              {send_events[i].sig : i \in DOMAIN send_events}
  IN /\ open \subseteq pending_sigs
     /\ (\A k \in schedule : lost[k] = 0 /\ stranded[k] = 0) => pending_sigs \subseteq open

(* However often and in whatever order entries are delivered, a slot has   *)
(* no more ticks than distinct tick entries, so a trigger fires no earlier *)
(* than the tick's place in what was delivered.                            *)
TicksNotInflated ==
  \A s \in Slot :
    slot_state[s].tick_idx <= Cardinality({e \in DOMAIN content : e.slot = s /\ ~e.tx})

(* The distance in hashes of a row is at least its distance in ticks: the  *)
(* two counters of a slot stay in step over duplicates and missing entries.*)
DeltasAgree ==
  \A row \in file : row.match # <<>> =>
    row.match.at = <<>> \/ hash_delta(row) >= tick_delta(row) * HASHES_PER_TICK

(* A pooled transaction is one the preparer remembers signing, of the      *)
(* cycle it remembers, so its expiry will be noticed: the observer's takes *)
(* between the two steps of a cycle do not part the pool from the memory.  *)
PoolRemembered == \A p \in pool : already_signed[p.key] = p.sig[1]

(* Once stopped, every thread leaves, what was sent first. *)
ShutdownCompletes ==
  <>[](/\ {observer, parquet, finalizer, preparer, fallback_thread} = {"Exit"}
       /\ DispatcherDone)

(* sender.rs: "Register in pending BEFORE send so observer can match       *)
(* earliest": the row keeps the first observation of its signature.        *)
EarliestMatchKept ==
  \A row \in file : row.match # <<>> => row.match = first_match[row.sig]

=============================================================================
