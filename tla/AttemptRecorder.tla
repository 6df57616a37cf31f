--------------------------- MODULE AttemptRecorder ---------------------------
(***************************************************************************)
(* What happens to a trigger that fired: the dispatcher loop               *)
(* (bin/phase3_run.rs), one async send task per variant, the engine's      *)
(* signature match, and the recorder thread (recorder.rs) that reads their *)
(* three channels in no fixed order and writes one row per attempt.        *)
(*                                                                         *)
(* An attempt, its transaction and its signature are one key: trigger and  *)
(* sender.  Trigger identities are not reused.  Timestamps and the row's   *)
(* other columns are left out.                                             *)
(***************************************************************************)
EXTENDS Integers, Sequences, FiniteSets, SequencesExt

CONSTANTS
  Triggers, Senders,
  NonceMode,        \* nonce.enabled: no fallback transaction on a pool miss
  ChannelCapacity,  \* of the trigger, register, send and match channels
  MaxSightings      \* bound on how often the streams show one landed transaction

ASSUME RecorderAssumption ==
  /\ NonceMode \in BOOLEAN
  /\ ChannelCapacity \in Nat \ {0}
  /\ MaxSightings \in Nat

Key == Triggers \X Senders
FinalOutcome == {"Landed", "SendError", "UnknownPending"}
SendEvent == [key : Key, error : BOOLEAN]
NoTrigger == [trigger |-> "none", left |-> {}]
NoVariant == [sender |-> "none", step |-> "none"]

(* attempts, landed, send_error and unknown_pending of one sender.         *)
PerSenderStats == [{"attempts"} \cup FinalOutcome -> Nat]

VARIABLES
  pool,         \* triggers with pre-signed variants in the TxPool
  fired,        \* triggers the engine has fired
  trigger_rx,   \* engine to dispatcher
  current,      \* the dispatcher's trigger and the senders it has not reached
  variant,      \* the variant it is at, and what it does to it next
  pending_sigs, \* signatures waited for
  task,         \* task[k]: the send task
  wire,         \* wire[k]: the transaction outside this process
  sightings,    \* sightings[k]: how often the streams have shown it landed
  register_rx, send_rx, match_rx,
  attempts,     \* keys of the recorder's attempts map (sig_to_key holds the same)
  stats,        \* AggregateState.per_sender
  rows,         \* rows[k]: outcomes written for k
  matches,      \* history: match events made for k
  running

vars == <<pool, fired, trigger_rx, current, variant, pending_sigs, task, wire, sightings,
          register_rx, send_rx, match_rx, attempts, stats, rows, matches, running>>

dispatching == <<pool, fired, trigger_rx, current, variant>>
recording == <<attempts, stats, rows>>

(* Types, and the capacity of the four bounded channels.                   *)
TypeOK ==
  /\ pool \subseteq Triggers /\ fired \subseteq Triggers
  /\ trigger_rx \in Seq(Triggers) /\ Len(trigger_rx) <= ChannelCapacity
  /\ \/ current = NoTrigger
     \/ current \in [trigger : Triggers, left : SUBSET Senders]
  /\ \/ variant = NoVariant
     \/ /\ variant \in [sender : Senders, step : {"announce", "spawn"}]
        /\ current \in [trigger : Triggers, left : SUBSET Senders]
  /\ pending_sigs \subseteq Key /\ attempts \subseteq Key
  /\ task \in [Key -> {"none", "sending", "done"}]
  /\ wire \in [Key -> {"no", "out", "landed"}]
  /\ sightings \in [Key -> 0 .. MaxSightings] /\ matches \in [Key -> Nat]
  /\ register_rx \in Seq(Key) /\ Len(register_rx) <= ChannelCapacity
  /\ send_rx \in Seq(SendEvent) /\ Len(send_rx) <= ChannelCapacity
  /\ match_rx \in Seq(Key) /\ Len(match_rx) <= ChannelCapacity
  /\ stats \in [Senders -> PerSenderStats]
  /\ rows \in [Key -> Seq(FinalOutcome)]
  /\ running \in BOOLEAN

(* The preparer has signed variants for some triggers and was too late for *)
(* the others.                                                             *)
Init ==
  /\ pool \in SUBSET Triggers
  /\ fired = {} /\ trigger_rx = <<>> /\ current = NoTrigger /\ variant = NoVariant
  /\ pending_sigs = {} /\ attempts = {}
  /\ task = [k \in Key |-> "none"]
  /\ wire = [k \in Key |-> "no"]
  /\ sightings = [k \in Key |-> 0] /\ matches = [k \in Key |-> 0]
  /\ register_rx = <<>> /\ send_rx = <<>> /\ match_rx = <<>>
  /\ stats = [s \in Senders |-> [c \in {"attempts"} \cup FinalOutcome |-> 0]]
  /\ rows = [k \in Key |-> <<>>]
  /\ running = TRUE

TrySend(channel, event) ==
  IF Len(channel) < ChannelCapacity THEN Append(channel, event) ELSE channel

-----------------------------------------------------------------------------
(* The engine fires a trigger; a full channel loses it.                    *)
Fire(t) ==
  /\ running /\ t \notin fired
  /\ fired' = fired \cup {t}
  /\ trigger_rx' = TrySend(trigger_rx, t)
  /\ UNCHANGED <<pool, current, variant, pending_sigs, task, wire, sightings,
                 register_rx, send_rx, match_rx, recording, matches, running>>

(* The dispatcher takes the variants out of the pool.  On a miss it skips  *)
(* the trigger in nonce mode; otherwise it builds the variants, unless     *)
(* there is no blockhash yet.                                              *)
TakeTrigger ==
  /\ running /\ current = NoTrigger /\ variant = NoVariant /\ trigger_rx # <<>>
  /\ trigger_rx' = Tail(trigger_rx)
  /\ LET t == Head(trigger_rx) IN
     /\ pool' = pool \ {t}
     /\ \/ /\ t \in pool \/ ~NonceMode
           /\ current' = [trigger |-> t, left |-> Senders]
        \/ t \notin pool /\ UNCHANGED current
  /\ UNCHANGED <<fired, variant, pending_sigs, task, wire, sightings, register_rx,
                 send_rx, match_rx, recording, matches, running>>

(* The fan-out takes the variants one by one, in a shuffled order.  First  *)
(* the engine is told to wait for the signature,                           *)
WaitFor(s) ==
  /\ running /\ variant = NoVariant /\ s \in current.left
  /\ current' = [current EXCEPT !.left = @ \ {s}]
  /\ variant' = [sender |-> s, step |-> "announce"]
  /\ pending_sigs' = pending_sigs \cup {<<current.trigger, s>>}
  /\ UNCHANGED <<pool, fired, trigger_rx, task, wire, sightings, register_rx, send_rx,
                 match_rx, recording, matches, running>>

(* then the attempt is announced to the recorder,                          *)
Announce ==
  /\ running /\ variant.step = "announce"
  /\ variant' = [variant EXCEPT !.step = "spawn"]
  /\ register_rx' = TrySend(register_rx, <<current.trigger, variant.sender>>)
  /\ UNCHANGED <<pool, fired, trigger_rx, current, pending_sigs, task, wire, sightings,
                 send_rx, match_rx, recording, matches, running>>

(* and at last its send task is spawned.                                   *)
Spawn ==
  /\ running /\ variant.step = "spawn"
  /\ task' = [task EXCEPT ![<<current.trigger, variant.sender>>] = "sending"]
  /\ variant' = NoVariant
  /\ current' = IF current.left = {} THEN NoTrigger ELSE current
  /\ UNCHANGED <<pool, fired, trigger_rx, pending_sigs, wire, sightings, register_rx,
                 send_rx, match_rx, recording, matches, running>>

(* The task hands the transaction to the provider.                         *)
Transmit(k) ==
  /\ running /\ task[k] = "sending" /\ wire[k] = "no"
  /\ wire' = [wire EXCEPT ![k] = "out"]
  /\ UNCHANGED <<dispatching, pending_sigs, task, sightings, register_rx, send_rx,
                 match_rx, recording, matches, running>>

(* send returns.  It fails before the transaction left (local throttling,  *)
(* refused connection) or after (a timeout, an error status).              *)
SendReturns(k, error) ==
  /\ running /\ task[k] = "sending"
  /\ ~error => wire[k] # "no"
  /\ task' = [task EXCEPT ![k] = "done"]
  /\ send_rx' = TrySend(send_rx, [key |-> k, error |-> error])
  /\ UNCHANGED <<dispatching, pending_sigs, wire, sightings, register_rx, match_rx,
                 recording, matches, running>>

(* A variant lands; the variants of one trigger share a nonce.             *)
Land(k) ==
  /\ running /\ wire[k] = "out"
  /\ NonceMode => \A s \in Senders : wire[<<k[1], s>>] # "landed"
  /\ wire' = [wire EXCEPT ![k] = "landed"]
  /\ UNCHANGED <<dispatching, pending_sigs, task, sightings, register_rx, send_rx,
                 match_rx, recording, matches, running>>

(* The engine sees an entry with k's signature: again, when the entry is   *)
(* re-emitted after the dedup window.                                      *)
Observe(k) ==
  /\ running /\ wire[k] = "landed" /\ sightings[k] < MaxSightings
  /\ sightings' = [sightings EXCEPT ![k] = @ + 1]
  /\ pending_sigs' = pending_sigs \ {k}
  /\ IF k \in pending_sigs
     THEN /\ match_rx' = TrySend(match_rx, k)
          /\ matches' = [matches EXCEPT ![k] = @ + 1]
     ELSE UNCHANGED <<match_rx, matches>>
  /\ UNCHANGED <<dispatching, task, wire, register_rx, send_rx, recording, running>>

-----------------------------------------------------------------------------
(* The recorder.                                                           *)

Count(k, c) == stats' = [stats EXCEPT ![k[2]][c] = @ + 1]

(* emit_record and record_outcome; the attempt leaves both maps.           *)
Finish(k, outcome) ==
  /\ attempts' = attempts \ {k}
  /\ rows' = [rows EXCEPT ![k] = Append(@, outcome)]
  /\ Count(k, outcome)

HandleRegister ==
  /\ running /\ register_rx # <<>>
  /\ register_rx' = Tail(register_rx)
  /\ attempts' = attempts \cup {Head(register_rx)}
  /\ Count(Head(register_rx), "attempts")
  /\ UNCHANGED <<dispatching, pending_sigs, task, wire, sightings, send_rx, match_rx,
                 rows, matches, running>>

(* Bug: a failed send writes its row and leaves the attempt in place. *)
HandleSend_KeepsAttempt ==
  /\ running /\ send_rx # <<>>
  /\ send_rx' = Tail(send_rx)
  /\ LET e == Head(send_rx) IN
     IF e.key \in attempts /\ e.error
     THEN /\ rows' = [rows EXCEPT ![e.key] = Append(@, "SendError")]
          /\ Count(e.key, "SendError")
     ELSE UNCHANGED <<stats, rows>>
  /\ UNCHANGED <<dispatching, pending_sigs, task, wire, sightings, register_rx,
                 match_rx, attempts, matches, running>>

(* Bug: the attempt is dropped and not counted. *)
HandleSend_NotCounted ==
  /\ running /\ send_rx # <<>>
  /\ send_rx' = Tail(send_rx)
  /\ LET e == Head(send_rx) IN
     IF e.key \in attempts /\ e.error
     THEN /\ attempts' = attempts \ {e.key}
          /\ rows' = [rows EXCEPT ![e.key] = Append(@, "SendError")]
     ELSE UNCHANGED <<attempts, rows>>
  /\ UNCHANGED <<dispatching, pending_sigs, task, wire, sightings, register_rx,
                 match_rx, stats, matches, running>>

(* A result for an attempt not (or no longer) known is dropped; an error   *)
(* ends the attempt; an acknowledgement is only remembered.                *)
HandleSend ==
  /\ running /\ send_rx # <<>>
  /\ send_rx' = Tail(send_rx)
  /\ LET e == Head(send_rx) IN
     IF e.key \in attempts /\ e.error
     THEN Finish(e.key, "SendError")
     ELSE UNCHANGED recording
  /\ UNCHANGED <<dispatching, pending_sigs, task, wire, sightings, register_rx,
                 match_rx, matches, running>>

HandleMatch ==
  /\ running /\ match_rx # <<>>
  /\ match_rx' = Tail(match_rx)
  /\ IF Head(match_rx) \in attempts
     THEN Finish(Head(match_rx), "Landed")
     ELSE UNCHANGED recording
  /\ UNCHANGED <<dispatching, pending_sigs, task, wire, sightings, register_rx,
                 send_rx, matches, running>>

(* Writing a row for every attempt in gone.                                *)
FinishAll(gone) ==
  /\ attempts' = attempts \ gone
  /\ rows' = [k \in Key |-> IF k \in gone THEN Append(rows[k], "UnknownPending") ELSE rows[k]]
  /\ stats' = [s \in Senders |->
       [stats[s] EXCEPT !["UnknownPending"] = @ + Cardinality({k \in gone : k[2] = s})]]

(* The open attempts of these triggers.                                    *)
AttemptsOf(late) == {k \in attempts : k[1] \in late}

(* Bug: the sweep forgets expired attempts silently. *)
SweepDeadlines_Silent ==
  /\ running
  /\ \E late \in SUBSET Triggers :
       AttemptsOf(late) # {} /\ attempts' = attempts \ AttemptsOf(late)
  /\ UNCHANGED <<dispatching, pending_sigs, task, wire, sightings, register_rx,
                 send_rx, match_rx, stats, rows, matches, running>>

(* The deadline runs from the time the trigger was observed, so it passes  *)
(* for all of its attempts at once, whatever has become of their sends.    *)
SweepDeadlines ==
  /\ running
  /\ \E late \in SUBSET Triggers : AttemptsOf(late) # {} /\ FinishAll(AttemptsOf(late))
  /\ UNCHANGED <<dispatching, pending_sigs, task, wire, sightings, register_rx,
                 send_rx, match_rx, matches, running>>

(* The stop flag: the final flush; what the channels still hold is lost.   *)
Stop ==
  /\ running
  /\ running' = FALSE
  /\ FinishAll(attempts)
  /\ UNCHANGED <<dispatching, pending_sigs, task, wire, sightings, register_rx,
                 send_rx, match_rx, matches>>

Next ==
  \/ \E t \in Triggers : Fire(t)
  \/ TakeTrigger
  \/ \E s \in Senders : WaitFor(s)
  \/ Announce \/ Spawn
  \/ \E k \in Key : \/ Transmit(k) \/ Land(k) \/ Observe(k)
                    \/ \E error \in BOOLEAN : SendReturns(k, error)
  \/ HandleRegister \/ HandleSend \/ HandleMatch
  \/ SweepDeadlines
  \/ Stop

Spec == Init /\ [][Next]_vars

(* select! picks among the ready channels at random, so the register       *)
(* channel is read again and again, and the recorder sweeps by the clock.  *)
(* Nothing is assumed of the sends: some never return.                     *)
Fairness == SF_vars(HandleRegister) /\ WF_vars(SweepDeadlines)

FairSpec == Spec /\ Fairness

-----------------------------------------------------------------------------
(* Whatever order results, matches, deadlines and the stop come in, an     *)
(* attempt gets one row at most, none while it is open, and one that is    *)
(* never rewritten; and however often the streams show a transaction, the  *)
(* engine makes one match event of it.                                     *)
Ledger ==
  INSTANCE AttemptLedger WITH
    open <- attempts, outcome <- rows, stopped <- ~running

LedgerKept == Ledger!Spec

(* Per sender, the attempts are those still open and those of each final   *)
(* outcome: nothing the recorder took in drops out of the summary.         *)
SummaryAddsUp ==
  \A s \in Senders :
    stats[s]["attempts"] = Cardinality({k \in attempts : k[2] = s})
      + stats[s]["Landed"] + stats[s]["SendError"] + stats[s]["UnknownPending"]

(* An announced attempt gets its row, though its send never returns or its *)
(* result or its match was lost on a full channel; the stop alone leaves   *)
(* one unread.                                                             *)
EveryAttemptEnds ==
  \A k \in Key :
    k \in attempts \cup ToSet(register_rx) ~>
      rows[k] # <<>> \/ (~running /\ k \in ToSet(register_rx))

(* recorder.rs, win_rate_pct: unknown_pending = sent but did not win;      *)
(* send_error (throttled = never competed) is excluded.  This is about the *)
(* sends whose result was read before the row is written.                  *)
UnknownWasSent ==
  [][\A k \in Key :
       /\ running' /\ rows[k] = <<>> /\ rows'[k] = <<"UnknownPending">>
       /\ task[k] = "done" /\ \A e \in ToSet(send_rx) : e.key # k
       => wire[k] # "no"]_vars

=============================================================================
