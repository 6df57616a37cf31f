-------------------------- MODULE SchedulePreparer --------------------------
(***************************************************************************)
(* What happens to a schedule entry before its slot comes: the pump thread *)
(* that generates and publishes the schedule (bin/phase3_run.rs), the      *)
(* preparer thread that signs its variants ahead of time (preparer.rs),    *)
(* the pool they wait in (tx_pool.rs), the main loop's copy of the current *)
(* slot, and the dispatcher that takes the variants when the trigger fires. *)
(*                                                                         *)
(* One trigger per slot, named by its slot.  The nonces are a number: the  *)
(* life of one after it was taken is NonceManager's.  Which variants there *)
(* are and their shuffled order are left out.                              *)
(***************************************************************************)
EXTENDS Integers, Sequences, SequencesExt

CONSTANTS
  MaxSlot,           \* bound on the slots of the chain and of the schedule
  chunk_size, lead_slots,
  SlotsPerSleep,     \* slots of the chain during the pump's sleep (about 5 in 2 s)
  ChannelCapacity,   \* of the schedule channel
  EvictLag,          \* slots a pool entry is kept past its slot (4 in the code)
  NonceMode,         \* nonce.enabled
  NumNonces          \* nonce accounts (1 when not in nonce mode)

ASSUME PreparerAssumption ==
  /\ MaxSlot \in Nat \ {0} /\ chunk_size \in Nat \ {0} /\ lead_slots \in Nat
  /\ SlotsPerSleep \in Nat /\ ChannelCapacity \in Nat \ {0} /\ EvictLag \in Nat
  /\ NonceMode \in BOOLEAN /\ NumNonces \in Nat \ {0}

Slot == 1 .. MaxSlot
None == 0

VARIABLES
  next_slot,     \* Schedule.next_slot: the slot generated next
  chunk_left,    \* entries the pump still has to generate before it publishes
  slept_at,      \* the chain's slot when the pump last published
  published,     \* the engine's schedule snapshot
  schedule_rx,   \* pump to preparer
  pending,       \* the entry that waits for a nonce or a blockhash
  signing,       \* the entry being signed, past take_ready
  ready,         \* Ready nonces; in blockhash mode 1 once the cache is primed
  evict_due,     \* 500 ms have passed since last_evict
  pool,          \* keys of the TxPool
  tip,           \* the chain's slot (start_slot is 1)
  current_slot,  \* the main loop's copy of it
  fired,         \* triggers the dispatcher has looked up in the pool
  gone,          \* history: entries that left the pipeline
  running

vars == <<next_slot, chunk_left, slept_at, published, schedule_rx, pending, signing,
          ready, evict_due, pool, tip, current_slot, fired, gone, running>>

pump == <<next_slot, chunk_left, slept_at, published>>
chain == <<tip, current_slot, fired>>

(* Types, and the capacity of the schedule channel.                        *)
TypeOK ==
  /\ next_slot \in 1 .. MaxSlot + 1
  /\ chunk_left \in Nat
  /\ slept_at \in Slot
  /\ published \subseteq Slot
  /\ schedule_rx \in Seq(Slot) /\ Len(schedule_rx) <= ChannelCapacity
  /\ pending \in Slot \cup {None} /\ signing \in Slot \cup {None}
  /\ ready \in 0 .. NumNonces
  /\ evict_due \in BOOLEAN
  /\ pool \subseteq Slot /\ fired \subseteq Slot
  /\ tip \in Slot /\ current_slot \in Slot
  /\ gone \subseteq Slot
  /\ running \in BOOLEAN

(* The first publication covers lead_slots and one more chunk.             *)
Preseed ==
  LET chunks == lead_slots \div chunk_size IN
  ((IF chunks < 1 THEN 1 ELSE chunks) + 1) * chunk_size

Init ==
  /\ next_slot = 1 /\ chunk_left = Preseed /\ slept_at = 1
  /\ published = {} /\ schedule_rx = <<>>
  /\ pending = None /\ signing = None
  /\ ready = IF NonceMode THEN NumNonces ELSE 0
  /\ evict_due = FALSE
  /\ pool = {} /\ fired = {}
  /\ tip = 1 /\ current_slot = 1
  /\ gone = {}
  /\ running = TRUE

-----------------------------------------------------------------------------
(* The pump.                                                               *)

TrySend(channel, s) == IF Len(channel) < ChannelCapacity THEN Append(channel, s) ELSE channel

(* One entry of next_chunk; a full channel loses it for the preparer, not  *)
(* for the schedule.  The snapshot is stored after the chunk.              *)
PumpEntry ==
  /\ running /\ chunk_left > 0 /\ next_slot <= MaxSlot
  /\ next_slot' = next_slot + 1
  /\ chunk_left' = chunk_left - 1
  /\ schedule_rx' = TrySend(schedule_rx, next_slot)
  /\ gone' = IF Len(schedule_rx) < ChannelCapacity THEN gone ELSE gone \cup {next_slot}
  /\ IF chunk_left = 1
     THEN published' = 1 .. next_slot /\ slept_at' = tip
     ELSE UNCHANGED <<published, slept_at>>
  /\ UNCHANGED <<pending, signing, ready, evict_due, pool, chain, running>>

(* The pump wakes up for the next chunk, wherever the chain is.            *)
PumpWakes ==
  /\ running /\ chunk_left = 0
  /\ tip >= slept_at + SlotsPerSleep
  /\ chunk_left' = chunk_size
  /\ UNCHANGED <<next_slot, slept_at, published, schedule_rx, pending, signing, ready,
                 evict_due, pool, chain, gone, running>>

-----------------------------------------------------------------------------
(* The preparer.                                                           *)

(* Bug: an entry is given up while its slot is still going on. *)
Past_Early(s) == s < current_slot + 1
Past(s) == s + 1 < current_slot

(* What becomes of entry s, off the channel or retried: dropped when its   *)
(* slot is past, kept when there is nothing to sign with.                  *)
Process_DropsStalled(s) ==
  \/ /\ Past(s)
     /\ gone' = gone \cup {s}
     /\ pending' = None
     /\ UNCHANGED <<signing, ready>>
  \/ /\ ~Past(s) /\ ready = 0
     /\ pending' = None
     /\ UNCHANGED <<signing, ready, gone>>
  \/ /\ ~Past(s) /\ ready > 0
     /\ pending' = None /\ signing' = s
     /\ ready' = IF NonceMode THEN ready - 1 ELSE ready
     /\ UNCHANGED gone

(* Bug: an entry that waits for a nonce is retried whatever its slot. *)
Process_RetriesPast(s) ==
  \/ /\ Past(s) /\ ready > 0
     /\ gone' = gone \cup {s}
     /\ pending' = None
     /\ UNCHANGED <<signing, ready>>
  \/ /\ ready = 0
     /\ pending' = s
     /\ UNCHANGED <<signing, ready, gone>>
  \/ /\ ~Past(s) /\ ready > 0
     /\ pending' = None /\ signing' = s
     /\ ready' = IF NonceMode THEN ready - 1 ELSE ready
     /\ UNCHANGED gone

Process(s) ==
  \/ /\ Past(s)
     /\ gone' = gone \cup {s}
     /\ pending' = None
     /\ UNCHANGED <<signing, ready>>
  \/ /\ ~Past(s) /\ ready = 0
     /\ pending' = s
     /\ UNCHANGED <<signing, ready, gone>>
  \/ /\ ~Past(s) /\ ready > 0
     /\ pending' = None /\ signing' = s
     /\ ready' = IF NonceMode THEN ready - 1 ELSE ready
     /\ UNCHANGED gone

(* pending.take() comes before the channel.                                *)
Prepare ==
  /\ running /\ signing = None
  /\ \/ /\ pending # None
        /\ Process(pending)
        /\ UNCHANGED schedule_rx
     \/ /\ pending = None /\ schedule_rx # <<>>
        /\ schedule_rx' = Tail(schedule_rx)
        /\ Process(Head(schedule_rx))
  /\ UNCHANGED <<pump, evict_due, pool, chain, running>>

(* Bug: the pool is never cleaned. *)
maybe_evict_Never(entries) ==
  pool' = entries /\ UNCHANGED <<evict_due, gone>>

(* Pool entries more than EvictLag slots past current_slot go.             *)
maybe_evict(entries) ==
  LET kept == {s \in entries : ~evict_due \/ s >= current_slot - EvictLag} IN
  /\ pool' = kept
  /\ gone' = gone \cup (entries \ kept)
  /\ evict_due' = FALSE

(* The variants are signed and put in the pool, fired meanwhile or not.    *)
Insert ==
  /\ running /\ signing # None
  /\ signing' = None
  /\ maybe_evict(pool \cup {signing})
  /\ UNCHANGED <<pump, schedule_rx, pending, ready, chain, running>>

(* recv_timeout on the empty channel.                                      *)
Idle ==
  /\ running /\ signing = None /\ pending = None /\ schedule_rx = <<>>
  /\ evict_due
  /\ maybe_evict(pool)
  /\ UNCHANGED <<pump, schedule_rx, pending, signing, ready, chain, running>>

EvictTimer ==
  /\ running /\ ~evict_due
  /\ evict_due' = TRUE
  /\ UNCHANGED <<pump, schedule_rx, pending, signing, ready, pool, chain, gone, running>>

-----------------------------------------------------------------------------
(* The others.                                                             *)

(* A nonce becomes Ready again, or the blockhash cache is filled.          *)
Replenish ==
  /\ running /\ ready < NumNonces
  /\ ready' = ready + 1
  /\ UNCHANGED <<pump, schedule_rx, pending, signing, evict_due, pool, chain, gone, running>>

ChainAdvances ==
  /\ tip < MaxSlot
  /\ tip' = tip + 1
  /\ UNCHANGED <<pump, schedule_rx, pending, signing, ready, evict_due, pool, current_slot,
                 fired, gone, running>>

(* The main loop stores the slot the RPC node knows of (which may lag, but *)
(* is not taken to go back).                                               *)
RefreshSlot ==
  /\ running
  /\ \E s \in current_slot + 1 .. tip : current_slot' = s
  /\ UNCHANGED <<pump, schedule_rx, pending, signing, ready, evict_due, pool, tip,
                 fired, gone, running>>

(* The engine fires trigger s, once, when its tick is observed; the        *)
(* dispatcher takes its variants or misses.                                *)
Fire(s) ==
  /\ running /\ s \in published /\ s <= tip /\ s \notin fired
  /\ fired' = fired \cup {s}
  /\ pool' = pool \ {s}
  /\ gone' = gone \cup (pool \cap {s})
  /\ UNCHANGED <<pump, schedule_rx, pending, signing, ready, evict_due, tip,
                 current_slot, running>>

Stop ==
  /\ running
  /\ running' = FALSE
  /\ UNCHANGED <<pump, schedule_rx, pending, signing, ready, evict_due, pool, chain, gone>>

Next ==
  \/ PumpEntry \/ PumpWakes
  \/ Prepare \/ Insert \/ Idle \/ EvictTimer
  \/ Replenish
  \/ ChainAdvances \/ RefreshSlot
  \/ \E s \in Slot : Fire(s)
  \/ Stop

Spec == Init /\ [][Next]_vars

(* The preparer runs, slots pass, the main loop keeps reading the slot.    *)
(* Nothing is assumed of nonces, landings or the RPC node's account reads. *)
Fairness ==
  /\ WF_vars(Prepare) /\ WF_vars(Insert) /\ WF_vars(Idle) /\ WF_vars(EvictTimer)
  /\ WF_vars(ChainAdvances) /\ WF_vars(RefreshSlot)

FairSpec == Spec /\ Fairness

-----------------------------------------------------------------------------
Place == {"queue", "pending", "signing", "pool", "gone"}

Places(s) ==
  {p \in Place :
     CASE p = "queue"   -> s \in ToSet(schedule_rx)
       [] p = "pending" -> pending = s
       [] p = "signing" -> signing = s
       [] p = "pool"    -> s \in pool
       [] p = "gone"    -> s \in gone}

(* A schedule entry is in one place: in the channel, waiting, being signed, *)
(* in the pool, or out.  Stalls, retries, full channels and evictions      *)
(* neither lose nor duplicate one.                                         *)
EntryConserved ==
  \A s \in Slot :
    IF s < next_slot THEN \E p \in Place : Places(s) = {p} ELSE Places(s) = {}

(* Neither the past-slot check nor the eviction gives up an entry whose    *)
(* slot the chain has not left, however far current_slot lags.             *)
NothingDroppedEarly ==
  [][Prepare \/ Insert \/ Idle => \A s \in gone' \ gone : s < tip]_vars

(* preparer.rs: without the past-slot check a long nonce stall would spin  *)
(* for ever on one stale entry.  A stalled entry moves on even when no     *)
(* nonce is ever Ready again.                                              *)
StallEnds ==
  \A s \in Slot : s + 1 < MaxSlot => (pending = s ~> (pending # s \/ ~running))

(* Variants do not stay in the pool: they are taken or evicted, even those *)
(* inserted after their trigger had fired.  Only a preparer that stalls    *)
(* for ever, which then evicts nothing, keeps them.                        *)
PoolDrains ==
  []<>(pending = None) =>
    \A s \in Slot : s + EvictLag < MaxSlot => (s \in pool ~> (s \notin pool \/ ~running))

(* config.rs: the pump emits chunks lead_slots ahead of current_slot; two  *)
(* chunks are left for rounding and for a lagging current_slot.            *)
LeadBounded == next_slot - 1 <= tip + lead_slots + 2 * chunk_size

=============================================================================
