---------------------------- MODULE NonceManager ----------------------------
(***************************************************************************)
(* The durable-nonce pool of the fan-out benchmark                         *)
(* (crates/tick-trigger-fan-out-bench/src/nonce) together with everything  *)
(* that moves a nonce: the preparer that takes one per trigger, the        *)
(* transactions signed with it, the recorder that hears of landings, and   *)
(* the RPC poller that repairs the ones that timed out.                    *)
(*                                                                         *)
(* The value of a nonce account is abstracted to the number of times it    *)
(* was advanced.  BadHash stands for any value the chain never had: what   *)
(* the local computation yields when it walks back to the wrong slot.      *)
(***************************************************************************)
EXTENDS Integers, Sequences, SequencesExt

CONSTANTS
  NumNonces,   \* length of the entries vector
  Triggers,    \* trigger attempts alive at once (identities are recycled)
  MaxAdvance   \* bound on how often the chain advances one nonce

ASSUME NonceAssumption ==
  /\ NumNonces \in Nat \ {0}
  /\ MaxAdvance \in Nat

Entries == 0 .. NumNonces - 1
BadHash == -1
Hash == Nat \cup {BadHash}
Kind == {"Ready", "InFlight", "AwaitingUpdate", "Stale"}
NonceState == [kind : Kind, hash : Hash]

(* A trigger's transaction: in the TxPool; on the wire; landed but still an *)
(* attempt of the recorder; dropped by the recorder.                        *)
Phase == {"free", "pooled", "sent", "gone", "forgotten"}
Tx == [phase : Phase, nonce : Entries, hash : Hash]
NoTx == [phase |-> "free", nonce |-> 0, hash |-> 0]

VARIABLES
  state,      \* state[i]: NonceEntry.state
  rr_cursor,  \* NonceManager.rr_cursor, kept modulo the number of entries
  scan,       \* entries the take_ready call in progress has looked at
  tx,         \* tx[t]: the transaction variants of trigger t, which share one nonce
  chain,      \* chain[i]: the account's value on chain
  matches,    \* the engine-to-recorder channel of observed landings
  poll,       \* the RPC poller thread
  lapsed      \* history: accounts whose deadline passed under a live trigger, until
              \* no live trigger uses them

vars == <<state, rr_cursor, scan, tx, chain, matches, poll, lapsed>>

Polling == [pc : {"sleep", "fetch", "apply"}, batch : SUBSET Entries,
            snap : [Entries -> Nat]]
NoSnap == [i \in Entries |-> 0]

(* The entries are states of the pool's enum, the cursor and the scan stay *)
(* inside the entries vector, and the poller is between two of its calls.  *)
TypeOK ==
  /\ state \in [Entries -> NonceState]
  /\ rr_cursor \in Entries
  /\ scan \in Entries
  /\ tx \in [Triggers -> Tx]
  /\ chain \in [Entries -> Nat]
  /\ matches \in Seq(Triggers)
  /\ poll \in Polling
  /\ lapsed \subseteq Entries

(* NonceManager::new: bootstrap read every account, all entries are Ready. *)
Init ==
  /\ state = [i \in Entries |-> [kind |-> "Ready", hash |-> 0]]
  /\ rr_cursor = 0
  /\ scan = 0
  /\ tx = [t \in Triggers |-> NoTx]
  /\ chain = [i \in Entries |-> 0]
  /\ matches = <<>>
  /\ poll = [pc |-> "sleep", batch |-> {}, snap |-> NoSnap]
  /\ lapsed = {}

-----------------------------------------------------------------------------
(* A trigger that still needs its nonce: its transaction waits or can land, *)
(* or its landing waits to be handled.                                      *)
Live(t) ==
  \/ tx[t].phase \in {"pooled", "sent"}
  \/ tx[t].phase = "gone" /\ t \in ToSet(matches)

Busy(i) == \E t \in Triggers : Live(t) /\ tx[t].nonce = i

(* What the history keeps when triggers end. *)
KeepLapsed == lapsed' = {i \in lapsed : Busy(i)'}

-----------------------------------------------------------------------------
(* What the manager's methods do to one entry, under its write lock.       *)

Ready(h) == [kind |-> "Ready", hash |-> h]

(* Bug: a scan that no longer tells InFlight from Ready. *)
Takeable_AnyIdle(s) == s.kind \in {"Ready", "InFlight"}
Takeable(s) == s.kind = "Ready"

on_observed_landing(s) ==
  IF s.kind = "InFlight" THEN [s EXCEPT !.kind = "AwaitingUpdate"] ELSE s

(* Both arms leave the entry Ready with the computed value. *)
on_landing_with_blockhash(s, new_blockhash) == Ready(new_blockhash)

on_fallback_refresh(s, observed) == IF s.kind = "Stale" THEN Ready(observed) ELSE s

-----------------------------------------------------------------------------
(* The preparer: take_ready scans the entries from the round-robin cursor, *)
(* locking one entry at a time.  It has one caller, so the cursor, which   *)
(* no one else reads, is advanced at the end of the call.                  *)

Looking == (rr_cursor + scan) % NumNonces

(* Bug: the cursor is read and never advanced. *)
NextScan_SameStart(done) ==
  /\ scan' = IF done \/ scan = NumNonces - 1 THEN 0 ELSE scan + 1
  /\ UNCHANGED rr_cursor

(* The call goes on to the next entry or is over. *)
NextScan(done) ==
  IF done \/ scan = NumNonces - 1
  THEN scan' = 0 /\ rr_cursor' = (rr_cursor + 1) % NumNonces
  ELSE scan' = scan + 1 /\ UNCHANGED rr_cursor

(* The entry under the scan; when it is Ready the trigger is signed and    *)
(* its variants enter the pool.  A scan that runs out is a nonce stall:    *)
(* the preparer keeps its schedule entry and calls again.                  *)
TakeStep ==
  LET i == Looking IN
  /\ \E t \in Triggers :
       /\ tx[t].phase = "free"
       /\ IF Takeable(state[i])
          THEN /\ tx' = [tx EXCEPT ![t] = [phase |-> "pooled", nonce |-> i,
                                           hash |-> state[i].hash]]
               /\ state' = [state EXCEPT ![i].kind = "InFlight"]
          ELSE UNCHANGED <<state, tx>>
  /\ NextScan(Takeable(state[i]))
  /\ UNCHANGED <<chain, matches, poll, lapsed>>

(* Bug: the next value is made available on sending, ahead of the landing. *)
Dispatch_Optimistic(t) ==
  /\ tx[t].phase = "pooled"
  /\ tx' = [tx EXCEPT ![t].phase = "sent"]
  /\ state' = [state EXCEPT ![tx[t].nonce] =
                 on_landing_with_blockhash(@, tx[t].hash + 1)]
  /\ UNCHANGED <<rr_cursor, scan, chain, matches, poll, lapsed>>

(* The trigger fires: the dispatcher takes the variants, registers them    *)
(* with the recorder and sends them.                                       *)
Dispatch(t) ==
  /\ tx[t].phase = "pooled"
  /\ tx' = [tx EXCEPT ![t].phase = "sent"]
  /\ UNCHANGED <<state, rr_cursor, scan, chain, matches, poll, lapsed>>

(* The trigger never fires: the pool drops its variants for a past slot    *)
(* and nobody tells the manager.                                           *)
Evict(t) ==
  /\ tx[t].phase = "pooled"
  /\ tx' = [tx EXCEPT ![t] = NoTx]
  /\ UNCHANGED <<state, rr_cursor, scan, chain, matches, poll>>
  /\ KeepLapsed

-----------------------------------------------------------------------------
(* The chain and the network (external).                                   *)

(* A transaction executes only against the account's current value and     *)
(* advances it.  The observation streams may miss the landing.             *)
Land(t) ==
  LET i == tx[t].nonce IN
  /\ tx[t].phase \in {"sent", "forgotten"}
  /\ tx[t].hash = chain[i]
  /\ chain[i] < MaxAdvance
  /\ chain' = [chain EXCEPT ![i] = @ + 1]
  /\ \/ /\ tx[t].phase = "sent"
        /\ tx' = [tx EXCEPT ![t].phase = "gone"]
        /\ matches' \in {matches, Append(matches, t)}
     \/ /\ tx[t].phase = "forgotten"
        /\ UNCHANGED <<tx, matches>>
  /\ UNCHANGED <<state, rr_cursor, scan, poll>>
  /\ KeepLapsed

Collect(t) ==
  /\ tx[t].phase = "forgotten"
  /\ t \notin ToSet(matches)
  /\ tx' = [tx EXCEPT ![t] = NoTx]
  /\ UNCHANGED <<state, rr_cursor, scan, chain, matches, poll, lapsed>>

-----------------------------------------------------------------------------
(* The recorder.                                                           *)

(* The value SlotHashCache yields for a landing: the right one, a wrong    *)
(* one when the slot before the landing was not recorded and an earlier    *)
(* one is used, or none.                                                   *)
NextNonce(t) == {tx[t].hash + 1, BadHash}

NonceHook(t) ==
  LET i == tx[t].nonce IN
  \/ \E h \in NextNonce(t) :
       state' = [state EXCEPT ![i] = on_landing_with_blockhash(@, h)]
  \/ state' = [state EXCEPT ![i] = on_observed_landing(@)]

(* handle_match: a landing of an attempt the recorder no longer has is     *)
(* ignored, nonce included.                                                *)
HandleMatch ==
  /\ matches # <<>>
  /\ matches' = Tail(matches)
  /\ LET t == Head(matches) IN
     \/ /\ tx[t].phase = "gone"
        /\ NonceHook(t)
        /\ tx' = [tx EXCEPT ![t] = NoTx]
     \/ /\ tx[t].phase # "gone"
        /\ UNCHANGED <<state, tx>>
  /\ UNCHANGED <<rr_cursor, scan, chain, poll>>
  /\ KeepLapsed

(* The observation deadline or a send error ends the attempt; the          *)
(* transaction itself never expires.                                       *)
Forget(t) ==
  /\ tx[t].phase \in {"sent", "gone"}
  /\ tx' = [tx EXCEPT ![t].phase = "forgotten"]
  /\ UNCHANGED <<state, rr_cursor, scan, chain, matches, poll>>
  /\ KeepLapsed

-----------------------------------------------------------------------------
(* The RPC poller: tick_timeouts, then one get_multiple_accounts for the   *)
(* Stale entries, then on_fallback_refresh one entry at a time.            *)

(* The deadlines run from signing, and from the match for AwaitingUpdate,   *)
(* whatever has become of the trigger: by default 45 s, while variants are  *)
(* signed some 48 s ahead of their slot and observed for 90 s after it.     *)
Expirable == {i \in Entries : state[i].kind \in {"InFlight", "AwaitingUpdate"}}

PollTick(expired) ==
  /\ poll.pc = "sleep"
  /\ expired \subseteq Expirable
  /\ state' = [i \in Entries |->
                 IF i \in expired THEN [state[i] EXCEPT !.kind = "Stale"] ELSE state[i]]
  /\ LET stale == {i \in Entries : state'[i].kind = "Stale"} IN
     poll' = [poll EXCEPT !.pc = IF stale = {} THEN "sleep" ELSE "fetch",
                          !.batch = stale]
  /\ lapsed' = lapsed \cup {i \in expired : Busy(i)}
  /\ UNCHANGED <<rr_cursor, scan, tx, chain, matches>>

PollFetch ==
  /\ poll.pc = "fetch"
  /\ poll' = [poll EXCEPT !.pc = "apply",
                          !.snap = [i \in Entries |-> IF i \in poll.batch THEN chain[i] ELSE 0]]
  /\ UNCHANGED <<state, rr_cursor, scan, tx, chain, matches, lapsed>>

PollFail ==
  /\ poll.pc = "fetch"
  /\ poll' = [poll EXCEPT !.pc = "sleep", !.batch = {}]
  /\ UNCHANGED <<state, rr_cursor, scan, tx, chain, matches, lapsed>>

PollDone(i) ==
  poll' = IF poll.batch = {i}
          THEN [pc |-> "sleep", batch |-> {}, snap |-> NoSnap]
          ELSE [poll EXCEPT !.batch = @ \ {i}, !.snap[i] = 0]

PollApply(i) ==
  /\ poll.pc = "apply" /\ i \in poll.batch
  /\ state' = [state EXCEPT ![i] = on_fallback_refresh(@, poll.snap[i])]
  /\ PollDone(i)
  /\ UNCHANGED <<rr_cursor, scan, tx, chain, matches, lapsed>>

(* The account is missing from the answer or does not parse. *)
PollSkip(i) ==
  /\ poll.pc = "apply" /\ i \in poll.batch
  /\ PollDone(i)
  /\ UNCHANGED <<state, rr_cursor, scan, tx, chain, matches, lapsed>>

-----------------------------------------------------------------------------
Next ==
  \/ TakeStep
  \/ \E t \in Triggers :
       Dispatch(t) \/ Evict(t) \/ Land(t) \/ Collect(t) \/ Forget(t)
  \/ HandleMatch
  \/ \E expired \in SUBSET Entries : PollTick(expired)
  \/ PollFetch \/ PollFail
  \/ \E i \in Entries : PollApply(i) \/ PollSkip(i)

(* Every thread keeps running, deadlines pass, and the RPC node answers    *)
(* some of the calls made for ever.                                        *)
Fairness ==
  /\ WF_vars(TakeStep)
  /\ \A t \in Triggers : WF_vars(Dispatch(t) \/ Evict(t) \/ Forget(t) \/ Collect(t))
  /\ WF_vars(HandleMatch)
  /\ WF_vars(\E expired \in SUBSET Entries : PollTick(expired))
  /\ \A i \in Entries : SF_vars(\E e \in SUBSET Entries : i \in e /\ PollTick(e))
  /\ SF_vars(PollFetch)
  /\ \A i \in Entries : SF_vars(PollApply(i))

Spec == Init /\ [][Next]_vars
FairSpec == Spec /\ Fairness

-----------------------------------------------------------------------------
(* A landing that waits in the channel belongs to a transaction that did   *)
(* advance the chain, so its value is already past.                        *)
QueuedHasLanded ==
  \A k \in 1 .. Len(matches) :
    /\ tx[matches[k]].phase \in {"gone", "forgotten"}
    /\ tx[matches[k]].hash + 1 <= chain[tx[matches[k]].nonce]

(* No value the manager, a signed transaction or the poller's answer holds *)
(* is one the chain has not reached: whatever the order of landings,       *)
(* matches, timeouts and delayed RPC answers, the pool can only lag.       *)
NeverAheadOfChain ==
  /\ \A i \in Entries : state[i].hash <= chain[i] /\ poll.snap[i] <= chain[i]
  /\ \A t \in Triggers : tx[t].hash <= chain[tx[t].nonce]
  /\ QueuedHasLanded

(* take_ready hands out an account that another pooled or sent trigger is  *)
(* using only when the deadline passed under a trigger of that account,    *)
(* and triggers have used it without a break since: no interleaving of     *)
(* scans, matches, late RPC answers and wrong values leads to two triggers *)
(* racing for one advance, the deadline alone does.                        *)
ExclusiveLease ==
  \A t, u \in Triggers :
    /\ t # u
    /\ tx[t].phase \in {"pooled", "sent"}
    /\ tx[u].phase \in {"pooled", "sent"}
    /\ tx[t].nonce = tx[u].nonce
    => tx[t].nonce \in lapsed

(* Self-repair: however often a computed value was wrong, a match was lost *)
(* or an RPC call failed, every account is again and again Ready with the  *)
(* value it has on chain.  A wrong Ready value is only found out by being  *)
(* used, so this needs the round-robin scan to starve no entry.            *)
AlwaysRepaired ==
  \A i \in Entries : []<>(state[i] = Ready(chain[i]))

(* on_landing_with_blockhash: "accept the newer value" - a Ready entry is  *)
(* only ever overwritten by a value the chain reached later.               *)
ReadyOnlyReplacedByNewer ==
  [][\A i \in Entries :
       state[i].kind = "Ready" /\ state'[i].kind = "Ready" =>
         state'[i].hash >= state[i].hash]_vars

=============================================================================
