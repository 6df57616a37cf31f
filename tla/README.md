# Formal model of the sender benchmark

This directory holds TLA+ models of this repository's core, the configurations
that model-check them with TLC, and proofs checked by TLAPS. Paths below are
relative to `src/`; `FO/` stands for `crates/tick-trigger-fan-out-bench/src/`.

The program measures transaction senders on Solana. Two streams deliver ledger
entries; the program merges them, restores their order, counts PoH ticks, and
when a scheduled `(slot, tick)` is reached sends one pre-signed transaction per
provider at once. In nonce mode all variants of one trigger spend the same
durable nonce, so at most one of them can land: that one won. The recorder
writes one row per attempt.

```
 shredstream --+                                       schedule pump
               +-> merger -> PoH supervisor -> trigger engine <--+  |
 yellowstone --+                                |    |   |          v
                              slot-hash cache <-+    |   |      preparer <- nonce pool, or
                                   |          fires  |   | match    |       blockhash cache
                                   |                 v   |          v          ^  ^
                                   |            dispatcher <---- tx pool       |  RPC
                                   |             |     |                       |
                                   |    register |     | send task per variant |
                                   |             |     v                       |
                                   |             |   senders -> providers      |
                                   |             v     v                       |
                                   +--------> recorder (rows, summary) --------+
```

Every arrow between threads is a bounded crossbeam channel written with
`try_send`: a full channel loses the message, everywhere. Threads share the
nonce entries (one lock each), the pool, the set of awaited signatures, the
slot-hash cache, the blockhash cache and an atomically swapped schedule
snapshot. Phase 1 of the same binary family only observes the sources and
reports their order. Two older programs live beside it: the entry comparator,
which pairs what the two sources say of each entry, and the tick-trigger bench,
which sends through a single provider.

## 1. Components

| Component | State | Operations | Hard part | What makes it correct | Model |
|---|---|---|---|---|---|
| Durable nonce pool (`FO/nonce/`) | one `NonceState` per account, round-robin cursor, deadlines | `take_ready`, landing hooks, `tick_timeouts`, refresh by RPC | five threads move one entry; late matches, stale RPC answers | never ahead of the chain, exclusive until the deadline, self-repair | `NonceManager` |
| Slot-hash cache (`FO/nonce/local_compute.rs`) | last hash per slot | record, look back for a landing | read while a slot still grows | holds the last emitted hash, bounded span | `TriggerEngine` |
| Entry merger (`FO/merger.rs`) | dedup map, per-slot index, highest slot | select loop, `process` | two racing sources, eviction | an entry once per window, index and map agree | `EntryMerger` |
| PoH supervisor (`FO/poh_supervisor.rs`) | per-slot buffer, next index, tick count, sealed | `process`, three-phase sweep, final flush | gaps, timeouts, late entries, full buffers, dropped states | implements one strictly ordered stream per slot that ends once and tells its ticks | `PohSupervisor`, `SlotStream` |
| Trigger engine (`FO/trigger_engine.rs`) | fired set, awaited signatures | schedule check, compaction, signature match | replays and repeated ticks, lost events | a trigger fires once per window | `TriggerEngine` |
| Schedule, preparer, tx pool (`FO/preparer.rs`, `FO/tx_pool.rs`, `FO/bin/phase3_run.rs`) | next slot, channel, stalled entry, pool | pump, sign, insert, evict, take | nonce stalls, a lagging `current_slot`, insertion after the trigger fired | an entry is in one place, none is dropped early, stalls end, the pool drains | `SchedulePreparer`, `TxSupply` |
| Transaction builder and blockhash cache (`FO/tx_builder.rs`, `FO/blockhash_cache.rs`) | hash and time of its refresh | refresh, read, build | two stores read by two threads | one trigger's variants are one per sender under one known hash | `TxSupply` |
| Dispatcher and send tasks (`FO/bin/phase3_run.rs`) | one trigger in flight, tasks | take or build, register, send | three channels written in a row by different actors | every variant known to the recorder or lost visibly | `AttemptRecorder`, `TxSupply` |
| Recorder (`FO/recorder.rs`) | attempts by key and by signature, per-sender counts | register, send result, match, deadlines, flush | inputs in any order, send error against match against deadline | implements a ledger: one outcome per attempt; the summary adds up | `AttemptRecorder`, `AttemptLedger` |
| Senders (`FO/senders/`) | throttle, cached connections, tip | send, fan out, read replies, warm up, follow the tip floor | racing reconnects, which reply decides, refusals that look like successes, writes nobody confirms | the outcome told is one that happened, sends paced, connections shared, only peers hold a send | `Senders`, `TxSupply` |
| Sources (`crates/entry-sources`) | connection, per-slot index, FEC sets | subscribe, decode, number, reconnect, evict | lost and repeated shreds, pruned counters, reconnect in mid-slot | sets emitted per full copy, indices given once, memory bounded | `ShredSource`, `Phase1Observe` |
| Ordering tracker (`FO/ordering.rs`) | progress per slot, high water | observe, seal by lag, flush | late entries after a seal, flush against the tracker thread | a report is true of its slot, until the slot comes back | `Phase1Observe` |
| Entry comparator (`crates/entry-comparator`) | pending observations, row group | correlate, sweep, write | second observation near the deadline, order of shutdown | each entry in one row or counted as lost | `EntryComparator` |
| Tick-trigger bench (`crates/tick-trigger-bench`) | ticks per slot, pool, pending signatures, early matches | observe, sign, send, finalize, write | duplicates, observations that overtake their send, order of shutdown | each fire accounted for but those left unread on stop, ticks not inflated, shutdown completes | `TickTriggerBench` |
| Run orchestration (`FO/bin/`) | stop flag, threads | wiring, run time, watchdog, shutdown | order of shutdown | phase 1 reports what it saw; every attempt gets its row | `Phase1Observe`, `TxSupply`, `AttemptRecorder` |
| Wallets and tip accounts | files, constant tables | - | - | - | left out |
| Leader map (`crates/solana-leader-map`) | a file | fetch, join, write | - | - | left out |
| Analysis scripts (`analysis/`) | files | statistics | - | - | left out |

## 2. Modules and how they match the code

One variable stands for one field or channel and has its name where TLA+ allows
it; the header of each module names its source. History variables, which the
code does not have, are marked `history` in the declarations. An operator whose
comment begins with `Bug:` is a deliberately wrong variant of the definition it
is named after; no specification uses one. They exist to show that each
property can fail.

**NonceManager.** `state[i]` is the entry behind its lock. `take_ready` is one
`TakeStep` per entry it locks, so that everything else interleaves with a scan;
it has one caller, and nobody else reads the cursor. A nonce value is the
number of times its account was advanced, `BadHash` a value the chain never
had: the local computation yields one when the slot before the landing is
missing from the cache (`NextNonce`). The poller is `PollTick`, `PollFetch` and
one `PollApply` or `PollSkip` per account: its answer may be arbitrarily old
when it is applied. `tick_timeouts` is one action over all entries although the
code locks them in turn; it touches each entry once, and any subset of the
entries in use may be overdue: a deadline runs from signing, whatever has become
of the trigger. `lapsed` records the accounts to which that happened under a
trigger that still needed them. `refresh_batch` asks for up to 100 accounts at a
time; the chunks are one fetch here. The methods `on_account_update` and
`restore_unchanged` are left out, as nothing in the run calls them.
`Land` is the chain's, marked external.

**EntryMerger.** `Receive` is one turn of the select loop for a source and a
key, `process` with its eviction. The sources are unconstrained: any key, any
order, repeated. `signatures` tells whether the observation carries them:
Yellowstone's entry updates do not.

**PohSupervisor** and the abstract **SlotStream.** The loops that emit
consecutive entries are one operator, `EmitThrough(st, last)`, given by the last
index they reach: `Consecutive` for `drain_consecutive_pending`, `Overdue` for
Phase A, `Flush` for `seal_slot`. `TimePasses` ages what is buffered.
`SweepSealing` is the sweep with all its phases, and also the final flush of
`Stop`. `log` is what a slot emitted in its latest lifetime: the sweep drops
sealed states and a later entry starts the slot again. `SlotStream` states what
the consumers may rely on, without buffers, timeouts or sweeps: a lifetime is a
sequence of events with the indices 0, 1, 2, ..., each an entry or a Missing,
uncertain exactly from the first Missing on; it is only appended to, ends with
one end event, and no lifetime is open at exit. The refinement is
`INSTANCE SlotStream WITH log <- log, open <- Open, exited <- ~running`, where
`Open` are the slots whose state exists and is not sealed.

**TriggerEngine.** Its input is an abstract supervisor stream: increasing
indices and tick counts per lifetime, an end, slots in any interleaving, events
lost, slots revived. An entry's hash is its index. One signature is awaited;
where it landed is a parameter. `ComputeNext` is the recorder's lookup.

**AttemptRecorder** and the abstract **AttemptLedger.** An attempt, its
transaction and its signature are one key, trigger and sender. The dispatcher is
`TakeTrigger` and, for each variant in turn, `WaitFor` (its signature is
awaited), `Announce` (to the recorder) and `Spawn` (the send task), which the
engine and the recorder may see apart; the send task is `Transmit` and
`SendReturns`, the engine's match `Observe`; the recorder's `select!` is
`HandleRegister`, `HandleSend`, `HandleMatch`, `SweepDeadlines`, `Stop`. The
providers are external: a send may fail before or after the transaction left, or
never return. The sweep goes by time alone, and by the time the trigger was
observed, so all attempts of a late trigger end in it at once. `AttemptLedger`
has no channels and no dispatcher: an attempt is registered, ends once in one
outcome that never changes, a transaction is matched once, and nothing is open
after the stop. The refinement is `INSTANCE AttemptLedger WITH open <- attempts,
outcome <- rows, stopped <- ~running`.

**SchedulePreparer.** `PumpEntry` and `PumpWakes` are the pump, which sleeps
for a fixed time; `SlotsPerSleep` ties that time to the chain's slots.
`Prepare` takes the stalled entry first, then the channel; `Insert` puts the
variants in the pool and evicts. `ready` counts Ready nonces: what happens to a
nonce once taken is NonceManager's subject. There is one trigger per slot.

**TxSupply.** Blockhash mode. The refresh thread is `StoreHash` and
`update_last_refresh`, the two stores of one refresh; `is_empty` asks for the
second one. The preparer's job is taken up (`StartSigning`), reads the hash
once (`PreparerReads`), signs variant by variant and inserts; the dispatcher
takes the pooled variants, or builds them itself by the same steps (`Fire` to
`SendBuilt`) with the configured tip, for Jito too. `UpdateTip` is the tip
updater with its clamp. Jobs begun are finished after `Stop`.

**Senders.** One model for all fifteen senders: `kind` is chosen initially, and
`SenderOf` is the table of what distinguishes them, one row per file: HTTP or
QUIC, which answers it reads as a success, whether it throttles, whether it
fans out, and whether the first reply or the first success decides. `Answer` is
the product of the status and the JSON shapes that the parsers tell apart.
`Acceptance` is what the files' headers give as an acceptance, `Refusal` any
answer that is too many requests or has an error in its body, and `Misread` the
refusals that a sender takes for a success all the same; they belong to the
property, not to the code. A uni stream has no answer: the write to its end is
`"finished"`, and `CopyDropped` may lose such a copy at any later time. `Call`
reads the clock, `TakeThrottle` takes the lock. `GetConn` to `ClearSlot`
are `get_conn` and the error path of the QUIC senders with the mutex that is
held across the connect; the warm-up is a caller like any send. The one-host
QUIC senders are the same with a single target.

**ShredSource.** The receiver thread, the channel and one turn of the worker's
loop (`Work`): `FecTracker::ingest`, the numbering of a completed set's entries,
and eviction and pruning, which only happen when a packet arrives. Reed-Solomon
recovery does not exist in the code (coding shreds are kept, not used), so a
set needs all its data shreds. Whether a set decodes is a constant.

**Phase1Observe.** One source, chosen initially, with its reconnect loop and
per-connection indices, its bounded channel, the warm-up gate, the ordering
tracker as two actions (`Observe`, `maybe_seal`: the lock is released between
them) and the main thread, which flushes without waiting for the tracker.
A report has all its fields. `observed` keeps what was ever observed of a slot,
`arrivals` what came since its last report, and `returned` names the slots that
came back after one.

**EntryComparator.** The correlator's loop is `Check`, `Handle` or `Idle`, then
a sweep emitted key by key, while the writer goes on; the final flush is a sweep
of everything. `Flush` writes a group or fails and counts it as lost. A key is
slot and entry hash, as in the code. The report's counting is left out.

**TickTriggerBench.** Six threads: the observer with its tick counting and
pool take, the preparer as two actions around its RPC call, the dispatcher with
`max_inflight` requests, the finalizer with its map of sends and of early
matches, the parquet writer and the RPC fallback. A stopped finalizer leaves its
loop with an empty map, flushes, and drops its ends of the channels as it exits:
the send events they hold then are `stranded`, later ones are counted losses by
their sender. `Entry` is a fixed chain
delivered in any order and repeatedly; a transaction sent lands in any later
entry, or in none.

## 3. Runs

| Run | Question | Deadlock |
|---|---|---|
| `nonce` | Does the pool stay behind the chain, lease an account twice only after a deadline, and repair itself under every order of landings, matches, timeouts and RPC answers? | checked |
| `merger` | Is an entry passed on once per window, whatever the sources repeat? Does the index cover the map? | input bounded |
| `supervisor` | Does the supervisor implement `SlotStream`, tell the ticks truthfully, keep its memory bounded and empty its buffers? | stops |
| `recorder` | Does the recorder implement `AttemptLedger`, does its summary add up, does every attempt end? | stops |
| `engine` | Does a trigger fire once and the cache hold the last emitted hash within its window? | checked |
| `preparer` | Are schedule entries conserved, dropped only when past, stalls ended, the pool drained? | stops |
| `shreds` | Are sets emitted only per full copy, indices given once within the kept window, abandoned sets forgotten? | input bounded |
| `comparator` | Is every MatchState one row or a counted loss, does a pair in time say BOTH, does shutdown drain? | stops |
| `bench` | Is each fire in one place, one row or counted, unless a stopped finalizer left it unread; are ticks not inflated; do all six threads leave? | stops |
| `phase1` | Is each report true of its slot, and what can it not tell? | stops |
| `senders` | Is the outcome told true, are sends paced, connections shared, does a send wait for nothing but a peer? | stops |
| `supply` | Are a trigger's variants one per sender under one hash, do entries move on? | stops |

All of them hold. "Stops" and "input bounded" mean that the system has a stop
flag, or the model a bound on its input, and comes to rest; deadlock is not an
error there, and where it matters that the system stops *well* a liveness
property says so (`ShutdownCompletes`, `OnlyPeersHoldSends`, `EveryAttemptEnds`).

Only properties that could fail are run. The modules' type invariants, and
`PoolRemembered` about the bench's preparer, are theorems (section 4) and not
repeated as runs; they hold in the same instances when added to a cfg. The one
exception is `ShredTypeOK`, which bounds an index by the sum of what was received:
proved is the typing its module's theorems need (`ShredTyped`), without that bound.

Eleven more configurations check a sentence of the sources' comments each, or,
the last two, what a reader of the recorder's rows may take a success for, and
TLC finds a counterexample (section 6 says what happens in it):

| Configuration | Module | The sentence |
|---|---|---|
| `NonceManagerLate.cfg` | `NonceManager` | "accept the newer value" (`FO/nonce/manager.rs:184`) |
| `EntryMergerRace.cfg` | `EntryMerger` | consumers do not know or care which source won (`FO/merger.rs:6`) |
| `PohSupervisorTwice.cfg` | `PohSupervisor` | "never both" (`FO/poh_supervisor.rs:14`) |
| `AttemptRecorderThrottled.cfg` | `AttemptRecorder` | `unknown_pending` is what was sent (`FO/recorder.rs:190`) |
| `TriggerEngineStale.cfg` | `TriggerEngine` | the last write for slot S is in by the time of slot S+1 (`FO/trigger_engine.rs:189`) |
| `SchedulePreparerLead.cfg` | `SchedulePreparer` | the pump is `lead_slots` ahead (`FO/config.rs:114`) |
| `TickTriggerBenchEarliest.cfg` | `MCTickTriggerBench` | the observer can match earliest (`crates/tick-trigger-bench/src/sender.rs:96`) |
| `Phase1ObserveOrder.cfg` | `MCPhase1Observe` | per-source trackers prove the source is ordered (`FO/bin/phase1_observe.rs:166`) |
| `Phase1ObserveReturned.cfg` | `MCPhase1Observe` | later entries count "against the now-frozen max_index" (`FO/ordering.rs:24`) |
| `SendersMisread.cfg` | `MCSenders` | a success is no refusal (for one sender, `FO/senders/blockrazor.rs:47`) |
| `SendersDropped.cfg` | `MCSenders` | a success was delivered (against `FO/senders/nextblock_quic.rs:16`) |

For example: `tlc -config NonceManagerLate.cfg NonceManager`. Each is a
small instance, chosen so that the counterexample is short.

Bounds, and why they are enough:

- `nonce`: 2 accounts, 2 triggers, `MaxAdvance` 1 advance per account. Two
  triggers suffice for a race for one account, two accounts for a scan that
  passes one and finds the other, and for two leases of one after its deadline.
  Trigger identities are recycled, so runs are unbounded in length.
- `merger`: slots 0..4 and a window of 2, so that eviction happens, and twice;
  `MaxObservations` 5 allows first sighting, confirmation, eviction, return.
- `supervisor`: 3 slots, indices 0..2, `SealLag` and `DropGrace` 1 so that a
  state is sealed, dropped and revived; a buffer of 2 (`MaxPending`), so that it
  fills and so that a fresh entry arrives in front of one past its timeout;
  `TICKS_PER_SLOT` 2; `MaxArrivals` 4.
- `recorder`: one trigger, three senders, every channel of capacity 1, so that
  each can overflow; `MaxSightings` 2, so that a transaction is seen again.
- `engine`: 3 slots of 2 entries and 1 tick, windows of 1, so that compaction
  and the cache's cutoff happen; `ReviveLag` 1.
- `preparer`: 4 slots, a channel of 1, one nonce, `EvictLag` 1.
- `shreds`: two sets, in slots 0 and 2, the second undecodable; two data shreds
  each and two entries; `MaxCopies` 2 copies of a data shred, enough for a second
  full copy; `OffsetLimit` 0 and `KeepSlots` 1, so that slot 2 prunes slot 0.
  Coding shreds and garbage are unlimited.
- `comparator`: two entries, `MaxObservations` 2 per source, so that one is told
  of twice or each once; channels of 1; groups of 2, so that a group is full,
  waits, or is left at the end.
- `bench`: five entries in slots 1, 2 and 5 (the first slot is skipped by the
  observer, the last crosses slots without ticks), two triggers, two ticks per
  slot, channels of 1, `max_inflight` 2, `MaxObservations` 3 before the stop and
  `MaxCycles` 2, so that a transaction expires and is signed anew.
- `phase1`: three slots of 1, 3 and 2 entries, the second in two batches;
  `seal_lag` 1, so that slots are sealed and come back; `max_offsets` 2 and
  `offset_history` 0, so that counters are evicted; `MaxMessages` 4,
  `MaxReconnects` 1.
- `senders`: every one of the fifteen kinds; two sends and the warm-up over two
  regions; interval 2 and `MaxClock` 2, so that sends are too early, and exactly
  in time; `MaxClosed` 1 connection closed by the peer, `MaxDropped` 1 copy lost
  after it was written.
- `supply`: two triggers, two senders (Jito, and one with a configured tip and no
  tip account), tips from 1 to 3, floors 0, 2 and 9, below, in and above the
  range; `MaxHash` 2, so that the hash changes once while variants are signed.

Fairness, and why the code justifies it:

- `nonce`: threads keep running (weak fairness of the preparer, dispatcher,
  recorder); an entry that is overdue again and again is some time caught by
  the poller's tick (strong, because a landing may move the entry in between),
  and some RPC calls succeed (strong, calls are retried for ever). Nothing is
  assumed of landings. A trigger's identity is collected in the end.
- `supervisor`: the sweep runs every `tick_check_interval` and time passes. A
  lower entry that arrives late keeps those behind it one timeout more, in the
  code as in the model, so `GapsClose` needs arrivals that pause, and has them by
  the bound `MaxArrivals`; `SweepBounds` says without any fairness that only such a
  lower entry keeps one past its timeout.
- `recorder`: `select!` picks among ready channels at random, so a channel that
  is ready again and again is read (strong, assumed of registrations only); the
  sweep runs and deadlines pass. Nothing is assumed of sends: they may never return.
- `preparer`: the preparer thread runs, the chain and the main loop's copy of
  its slot advance. Nothing is assumed of nonces. `PoolDrains` says so in its
  statement: while the preparer is stalled it does not evict, so the pool is
  promised to drain only if it is not stalled for ever.
- `shreds`: the worker runs and time passes. Nothing is assumed of the network;
  `SetsLeave` says in its statement that packets keep arriving, because the
  worker evicts only after a packet.
- `comparator`: both threads run and the duration elapses. Sources may be silent.
- `bench`: every thread runs, requests are answered or time out, and entries keep
  coming: the observer looks at the stop flag only between entries, so the
  shutdown does depend on the validator's stream.
- `senders`: the runtime polls tasks that can go on by themselves: under a free
  lock, after a decisive reply, with a stream of a closed connection, and over HTTP
  always in the end, since every client has a timeout of 5 s. Nothing is assumed of
  QUIC peers: no call bounds a handshake, the authentication or a stream, and where
  keep-alives are on, the idle timeout does not fire while the peer acknowledges
  them. `OnlyPeersHoldSends` therefore says that a send ends or such a peer has it.
- `supply`: the RPC answers sooner or later, and the refresh thread and the
  preparer run.
- `merger`, `engine`, `phase1` check safety only.

## 4. Proofs

Each theorem holds for every value of the constants under the module's named
assumption (`NonceAssumption`, `MergerAssumption`, `SupervisorAssumption` and so
on), which only bounds the constants' ranges (and, in `SendersAssumption`, keeps
the warm-up apart from the sends). Every safety invariant and every action
property that a run checks is the statement of a theorem. Eight modules hold the
proofs; four of them serve two components that sit next to each other in the
pipeline and share lemmas: signing, the entry sources, the first phase, sending.

**SigningProofs, the nonce pool.** `TypeCorrect`, `NeverAhead`, `LeaseIsExclusive`.
`NeverAheadOfChain` is not inductive alone. Handling a match writes the
transaction's value plus one, so the invariant says that a queued match belongs
to a transaction which has advanced the chain (`QueuedHasLanded`, a conjunct of
it), and handling frees the trigger's identity, so that the queue must hold each
trigger once (`QueueDistinct`). `ExclusiveLease` is strengthened by `LeaseInv`:
the entry of a live trigger is InFlight and the trigger its only user, hence
`take_ready` cannot choose it, unless the deadline has passed under it (`lapsed`),
which the statement itself admits; and the scan, which holds no lock between
entries, needs no invariant at all.

**SigningProofs, the supply.** `SupplyTypeCorrect`, `VariantsSound`. A variant set
is signed over several steps of the preparer, while the refresh thread replaces
the cached hash; `VariantsWellFormed` speaks only of the sets in the pool. The
invariant `SupplyInv` therefore follows a set from its first read: the cache, once
stamped, holds a hash of the chain (`CacheFilled`); a job under way has signed one
transaction for each sender it is past and none for the rest, all under the hash
it read (`JobsSound`); a set that left the job is empty or complete
(`SetsComplete`).

**PhaseOneProofs, the merger.** `TypeCorrect`, `SentOnceInWindow`, `IndexAgrees`.
`OnceInWindow` is made inductive by `ForgottenIsOld`: a key that was passed on
and is no longer in the map lies more than the window below the highest slot.

**PhaseOneProofs, the ordering tracker.** `Phase1TypeCorrect`, `ReportsTrue`,
`FlushMissesAtMostOne`, `ShredStreamInOrder`. A report is written once, from
running figures; `Tracked` says that the figures of every slot in progress match
the observations made of it (`Matches`), so that sealing turns them into a true
report (`Says`), and `Whole` that what came since the last report of a slot is
all that was ever observed of it, unless the slot came back. `Finishing` says
what the final flush can leave behind: the one slot that the last observation
opened, with that observation alone. The numbering theorem needs to know where
an index may be at any time: `InArrivalOrder` orders them from the source's
counter through the source's channel and the tracker's channel down to the
slot's progress: no index downstream is above one upstream (`Rising`, `Behind`,
`Below`, `Ahead`). It holds for ShredStream as long as no slot's numbering was
started again by eviction (`Known`).

**TriggerEngineProofs.** `TypeCorrect`, `FiresOnce`, `CacheBounded`, `CacheLast`.
Again `ForgottenIsOld`, for the fired set and its compaction; `OpenHasLast`, an
open slot has emitted an entry, so that an end event has a hash to record; and
the lemma `HighestSlot`, every non-empty set of slots has a highest one.

**SchedulePreparerProofs.** `TypeCorrect`, `Conserved`, `GivesUpOnlyPast`. The
invariant spells `EntryConserved` out place by place (`InOnePlace`) and adds
`QueueDistinct`: a slot that sat in the channel twice would stay behind when the
preparer takes the first copy. The action property `NothingDroppedEarly`
compares with the chain's tip, the code with its `current_slot`; that this one
never runs ahead of the tip (`SlotLags`) is what makes the slots given up and
evicted past ones.

**PohSupervisorProofs.** `TypeCorrect`, `StreamImplemented` (the refinement of
`SlotStream`), `TicksTold`, `SweepBounded`. The inductive invariant `PohInv` says
of every slot that its state is `Steady`: nothing buffered lies below the next
index to emit, the buffered ticks are of buffered entries, the buffer keeps its
cap. It says of an open slot that the log is `Kept`: as long as the next index,
in order, and `has_missing` set exactly when it contains a Missing, which is what
makes "uncertain" in the code the abstract "a Missing before". `Counted` relates
the counter to the history: ticks emitted and ticks buffered are all that were
received but for those a full buffer refused, hence what the end event tells
(`Tells`) after the last flush has emptied the buffer. The loops are handled once,
in the lemmas about `EmitThrough`: it keeps each part, for any last index it may
stop at (`StopsAt`). What a sweep may leave behind in an open slot, an entry past
its timeout only behind a lower one that is not, is `AgedWaits` about one buffer
and `SweepWaits` about the step. Every step is then shown to be, per slot, `Begin`,
`Continue`, `End` or `Rest` of the abstract module.

**AttemptRecorderProofs.** `TypeCorrect`, `LedgerImplemented` (the refinement of
`AttemptLedger`), `Summary`. What must never happen is that an attempt is
registered twice, which would reopen a closed row. `LedgerInv` follows a key
backwards through the pipeline: a trigger is fired once (`TriggersOnce`), so it is
at most once in the channel or with the dispatcher; a key is at most once in the
registration channel, and if it is there, it is neither open nor closed
(`KeyOnce`). The same for matches: a signature awaited is in no match event yet.
`Summary` adds to it that the counters are the cardinalities of the open and
closed attempts (`Balanced`), by the library's facts on finite sets.

**SourceProofs, the comparator.** `TypeCorrect`, `Conserved`, `PairedOnTime`.
The lemmas on `Of` count a key's rows in sequences: appending one, taking the
first, joining two (`OfConcat`, by a bijection between places). `RowsConserved`
then is a sum that each action rearranges (`Balance`). For `OnTimeMeansBoth` the
invariant (`OnTime`) tells the story of a key by how often each source was
heard: never, one source, both once; as long as it was not swept and the
correlator is not in its final flush, one source heard means that the map holds
exactly it and no row exists, so the second one completes the pair.

**SourceProofs, the shred source.** `EmittedOncePerCopy`, `IndicesGivenOnce`.
For the first, `PaidFor`: of each data shred of a set at least as many copies
have arrived as the set was emitted, one more if the set holds the shred now; it
holds across eviction, which only forgets what a set holds. For the second,
`Numbered`: the slot counters are pruned, so a number may be given again for an
old slot, but in the slots that pruning keeps, every index given lies below the
next one (`Base`) and was given once.

**SendingProofs, the senders.** `TypeCorrect`, `ConnectsCaused`, `SendsArePaced`,
`OutcomesAreTrue`, for all fifteen senders and any number of sends and regions.
Three independent invariants. `ConnAt`, per target: who holds the lock found no
live connection and none comes alive under it, hence a connection is made only
when every earlier one was closed or dropped, and `made` is bounded by counting
those (`Alive` is the one that may still live). `SendAt`, per send: a task hears
once and replies once (`HearsOnce`, and the replies are as many as the tasks that
are done), and a reply tells what was heard (`RepliesTell`), which rests on the
lemma `Parsers`: no parser reads an acceptance as a failure, nor a refusal as a
success but those of `Misread`. `Pace`: the throttle's mark is the latest clock
reading of the sends that passed, and the reading of one that did, in whatever
order the readings were made. The outcome then follows from
`DecidesSays`, for either rule.

**SendingProofs, the bench.** `BenchTypeCorrect`, `FiresAreAccounted`,
`PendingUntilFinal`, `TicksCountedOnce`, `RowDistancesAgree`, `PoolIsRemembered`.
One invariant, `BenchInv`, for six threads. A fire is counted in exactly one
place because it happens once: a slot's count has reached the tick of every trigger
fired in it (`FiredTicks`), so one that fires now fired never before and is counted
nowhere. The map of pending rows is keyed by signature; a row does not replace
another because a signature belongs to one trigger, and to a cycle before the one
being signed (`Signatures`, by `AmountsDiffer`: the amounts that make two
transactions of a cycle differ do not repeat). `Counts` says that the hashes counted
in a slot are its ticks times the hashes per tick plus the rest, and that there is
at most one tick for each tick entry seen. The positions that matches and rows carry
keep of this that the hashes are at least those of the ticks (`MatchesInStep`,
`EarlyInStep`, `RowsInStep`), from which `DeltasAgree` follows by arithmetic
(`DistancesAgree`).

Only model-checked: the liveness properties (`AlwaysRepaired`, `GapsClose`,
`EveryAttemptEnds`, `StallEnds`, `PoolDrains`, `SetsLeave`, `ShutdownCompletes`,
`OnlyPeersHoldSends`, `EntriesMoveOn`), which rest on fairness and ENABLED, out of the
prover's reach; and of `ShredTypeOK` the bound on indices, a sum over the packets
received, which would need an induction over them.

## 5. Not modelled

- Wallets, keys and tip accounts: files, constant tables and a rotation counter,
  without behaviour over time.
- The leader map and the analysis scripts: batch programs that read, join and
  write tables, without concurrent state.
- Phase 2 (`FO/bin/phase2_observe.rs`), which runs the merger and the supervisor
  without sending, and the two `minimal_jito_*` programs, straight-line probes.
- Of phase 3: the wait for warm sources, the balance watchdog's threshold, the
  final summary's text. Of the senders: keep-alive pings, encodings, endpoints.
- Loss of threads by panic, and poisoned locks.
- Wall-clock time: deadlines and intervals are actions that may happen at any
  time, bounded only where the code's constants order them (`SlotsPerSleep`,
  `min_send_interval`).
- The comparator's report (`report.rs`). Its mismatch counters are zero whatever
  happens: a pair shares its hash, and Yellowstone's signature lists are empty.
- Latencies, percentiles, logs, file formats, parsing of account data.

## 6. What disagrees with the text

The first eleven are the counterexamples of the configurations in section 3; the
others were met while modelling and are visible in the definitions named.

1. `on_landing_with_blockhash` overwrites a Ready entry with any different
   value. A match that waited while the poller refreshed the account puts an
   older one back; the next transaction is wasted and the timeout repairs it.
2. When Yellowstone is first with an entry the merger passes on an empty
   signature list, and the later ShredStream copy is suppressed: a landing in
   that entry is never matched.
3. A slot completed, sealed and dropped starts again on a late entry and ends a
   second time as incomplete.
4. `select!` may read a send result before the registration of its attempt. The
   result is dropped, and a throttled send that never left is counted as
   `unknown_pending`, that is, as an attempt that competed and lost.
5. The slot-hash cache holds the last entry emitted so far, which need not be
   the slot's last when a landing in the next slot is handled: the derived nonce
   value is then wrong and the account unusable until its timeout.
6. The pump never reads `current_slot`. With its default chunk it adds about six
   times the slots the chain makes meanwhile, so that the lead and the schedule
   grow without bound.
7. In the tick-trigger bench a second observation that overtakes the send event
   replaces the first one: the row does not hold the earliest match.
8. ShredStream entries are numbered as they arrive, so the ordering tracker finds
   them in order whatever order the batches came in
   (`ShredStreamNeverDisordered` holds): its report says nothing of PoH order.
9. An entry of a slot already sealed starts a new record and a second report,
   which lists as missing what the first one saw; nothing is counted against the
   old, "frozen" index.
10. Several senders take a refusal for a success. Those that look at the status
    alone accept an error in a 200 (Nozomi, Astralane, Triton's sendTx); those that
    look for a JSON-RPC error accept a 429 without one, or a body of code and
    message (Helius, Triton, Syncro, 0slot); BlockRazor reads an `error` only when
    it is a string, although its comment announces `{"error"|"message": ...}`, and
    takes any other for the signature. `Misread` lists them all.
11. `finish()` on a uni stream returns before anything is delivered, and the
    providers drop what they refuse without a word, as the headers of
    `astralane_quic.rs` and `nextblock_quic.rs` say themselves: the recorded success
    of a QUIC sender says that a copy was written, not that it arrived.
12. The ordering tracker's highest index starts at 0, so an entry with index 0 is
    never the "last entry"; a slot with that entry alone is reported as ending
    in a tick (`Progress`, and the exception in `Says`).
13. On shutdown the correlator does not drain its source channels (`Check`).
14. On a pool miss the dispatcher builds one variant per sender, not a single
    one, and none in nonce mode (`Fire` of `TxSupply`).
15. The blockhash is read when a trigger is prepared, not when it fires
    (`PreparerReads`).
16. Nothing joins the recorder: the main thread sleeps for 500 ms.

No sentence of the sources speaks of these, but a reader of the results should
know of them:

- A nonce lease may lapse under its trigger with the default settings: the
  in-flight deadline is 45 s from signing, while a trigger of the preseed is signed
  some 48 s ahead of its slot and observed for 90 s. The account is then refreshed
  and leased again, and only one of the two triggers can land. `ExclusiveLease`
  says that nothing else leads to this.
- The finalizer of the tick-trigger bench leaves as soon as it finds the stop flag
  and an empty map. Send events still in its channel are lost without a row and
  without a count; later ones are counted (`FinalizerExit`, `FiresAccounted`).
- The throttle reads the clock before it takes the lock, so that a send may be
  turned away by one that read the clock after it (`TakeThrottle`, `Paced`).
- A QUIC sender's error clears the target's cached connection even if another send
  has made a new one since (`ClearSlot`).

## 7. Plan

Done: `NonceManager`, `EntryMerger`, `PohSupervisor`, `AttemptRecorder`,
`TriggerEngine`, `SchedulePreparer`; then `EntryComparator`, `ShredSource`,
`Phase1Observe`, `Senders`, `TickTriggerBench`, `TxSupply`, and the abstract
specifications `SlotStream` and `AttemptLedger` with proved refinements; a theorem
for every safety property of every run.

Next:

- `TriggerEngine` over `SlotStream` instead of its own abstract input, so that
  the engine's theorems rest on the supervisor's.
- A `NonceLease` (free, leased, free) under `NonceManager`.
- Phase 2 as the composition of merger and supervisor.
