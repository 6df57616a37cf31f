----------------------------- MODULE SigningProofs -----------------------------
(***************************************************************************)
(* Proofs about what a transaction is signed with.  First the durable      *)
(* nonces (NonceManager), for any number of nonces and triggers; then, in  *)
(* blockhash mode, the cache, the preparer and the dispatcher (TxSupply),  *)
(* for any triggers, senders, tips and number of blockhashes.  The two     *)
(* share no variable.                                                      *)
(***************************************************************************)
EXTENDS NonceManager, TxSupply, FiniteSetTheorems, TLAPS

(* A landing is queued once: its trigger left "sent" when it was queued.   *)
QueueDistinct ==
  \A j, k \in 1 .. Len(matches) : matches[j] = matches[k] => j = k

(* Inductive: NeverAheadOfChain needs the queue to hold only transactions  *)
(* that have landed, and each of them once, because handling a match frees *)
(* the trigger's identity.                                                 *)
Inv == TypeOK /\ NeverAheadOfChain /\ QueueDistinct

(* A queue as a set, by position; and what the two ends do to it. *)
LEMMA QueueRange ==
  ASSUME NEW q \in Seq(Triggers), NEW t
  PROVE  t \in ToSet(q) <=> \E k \in 1 .. Len(q) : q[k] = t
BY DEF ToSet

(* What popping and appending leave in a queue.                            *)
LEMMA QueueEnds ==
  ASSUME NEW q \in Seq(Triggers), NEW t \in Triggers
  PROVE  /\ ToSet(Append(q, t)) \subseteq ToSet(q) \cup {t}
         /\ q # <<>> => ToSet(Tail(q)) \subseteq ToSet(q)
<1>1. ToSet(Append(q, t)) \subseteq ToSet(q) \cup {t}
  <2> SUFFICES ASSUME NEW u \in ToSet(Append(q, t)) PROVE u \in ToSet(q) \cup {t}
    OBVIOUS
  <2>1. PICK k \in 1 .. Len(Append(q, t)) : Append(q, t)[k] = u
    BY DEF ToSet
  <2>2. k \in 1 .. Len(q) \/ k = Len(q) + 1
    BY <2>1
  <2> QED BY <2>1, <2>2, QueueRange
<1>2. ASSUME q # <<>> PROVE ToSet(Tail(q)) \subseteq ToSet(q)
  <2> SUFFICES ASSUME NEW u \in ToSet(Tail(q)) PROVE u \in ToSet(q)
    OBVIOUS
  <2>1. PICK k \in 1 .. Len(Tail(q)) : Tail(q)[k] = u
    BY DEF ToSet
  <2>2. k + 1 \in 1 .. Len(q) /\ q[k + 1] = u
    BY <1>2, <2>1
  <2> QED BY <2>2, QueueRange
<1> QED BY <1>1, <1>2

(* The initial state: every account Ready with the value it has on chain. *)
LEMMA InitInv == Init => Inv
<1> SUFFICES ASSUME Init PROVE Inv
  OBVIOUS
<1>1. TypeOK
  BY NonceAssumption DEF Init, TypeOK, Entries, NonceState, Kind, Hash, BadHash, Tx,
     NoTx, Phase, Polling, NoSnap
<1>2. NeverAheadOfChain
  BY NonceAssumption DEF Init, NeverAheadOfChain, QueuedHasLanded, Entries, NoTx, NoSnap
<1>3. QueueDistinct
  BY DEF Init, QueueDistinct
<1> QED BY <1>1, <1>2, <1>3 DEF Inv

(* The remainder that take_ready indexes the entries with. *)
LEMMA ModIsEntry ==
  ASSUME NEW a \in Nat
  PROVE  a % NumNonces \in Entries
BY NonceAssumption DEF Entries

(* The entry under the scan exists.                                        *)
LEMMA ScanIsEntry ==
  ASSUME TypeOK
  PROVE  Looking \in Entries
<1>1. rr_cursor + scan \in Nat
  BY NonceAssumption DEF TypeOK, Entries
<1> QED BY <1>1, ModIsEntry DEF Looking

(* And so does the one the scan goes to.                                   *)
LEMMA NextScanTypes ==
  ASSUME TypeOK, NEW done \in BOOLEAN, NextScan(done)
  PROVE  scan' \in Entries /\ rr_cursor' \in Entries
<1>1. scan \in Entries /\ rr_cursor \in Entries /\ 0 \in Entries
  BY NonceAssumption DEF TypeOK, Entries
<1>2. CASE done \/ scan = NumNonces - 1
  <2>1. rr_cursor + 1 \in Nat
    BY <1>1, NonceAssumption DEF Entries
  <2> QED BY <1>1, <1>2, <2>1, ModIsEntry DEF NextScan
<1>3. CASE ~(done \/ scan = NumNonces - 1)
  BY <1>1, <1>3, NonceAssumption DEF NextScan, Entries
<1> QED BY <1>2, <1>3

(* What each method of the manager leaves in an entry is a NonceState. *)
LEMMA MethodTypes ==
  ASSUME NEW s \in NonceState, NEW h \in Hash
  PROVE  /\ [s EXCEPT !.kind = "InFlight"] \in NonceState
         /\ [s EXCEPT !.kind = "Stale"] \in NonceState
         /\ on_landing_with_blockhash(s, h) \in NonceState
         /\ on_observed_landing(s) \in NonceState
         /\ on_fallback_refresh(s, h) \in NonceState
BY DEF NonceState, Kind, on_landing_with_blockhash, on_observed_landing,
   on_fallback_refresh, Ready

(* One step of any thread keeps the types. *)
LEMMA StepTypeOK == TypeOK /\ [Next]_vars => TypeOK'
<1> SUFFICES ASSUME TypeOK, [Next]_vars PROVE TypeOK'
  OBVIOUS
<1>1. CASE TakeStep
  <2> DEFINE i == Looking
  <2>1. i \in Entries
    BY ScanIsEntry
  <2>2. scan' \in Entries /\ rr_cursor' \in Entries
    <3>1. NextScan(Takeable(state[i])) /\ Takeable(state[i]) \in BOOLEAN
      BY <1>1 DEF TakeStep, Takeable
    <3> QED BY <3>1, NextScanTypes
  <2>3. state[i].hash \in Hash
    BY <2>1 DEF TypeOK, NonceState
  <2> HIDE DEF i
  <2>4. CASE Takeable(state[i])
    <3>1. PICK t \in Triggers :
            tx' = [tx EXCEPT ![t] = [phase |-> "pooled", nonce |-> i,
                                     hash |-> state[i].hash]]
      BY <1>1, <2>4 DEF TakeStep, i
    <3>2. tx' \in [Triggers -> Tx]
      BY <3>1, <2>1, <2>3 DEF TypeOK, Tx, Phase
    <3>3. state' \in [Entries -> NonceState]
      <4>1. state' = [state EXCEPT ![i] = [state[i] EXCEPT !.kind = "InFlight"]]
        BY <1>1, <2>4 DEF TakeStep, i
      <4>2. [state[i] EXCEPT !.kind = "InFlight"] \in NonceState
        BY <2>1, <2>3, MethodTypes DEF TypeOK
      <4> QED BY <2>1, <4>1, <4>2 DEF TypeOK
    <3> QED BY <1>1, <2>2, <3>2, <3>3 DEF TakeStep, TypeOK
  <2>5. CASE ~Takeable(state[i])
    <3>1. UNCHANGED <<state, tx, chain, matches, poll, lapsed>>
      BY <1>1, <2>5 DEF TakeStep, i
    <3> QED BY <2>2, <3>1 DEF TypeOK
  <2> QED BY <2>4, <2>5
<1>2. lapsed' \subseteq Entries
  <2>1. UNCHANGED lapsed \/ KeepLapsed \/ \E e \in SUBSET Entries : lapsed' \subseteq lapsed \cup e
    BY DEF Next, vars, TakeStep, Dispatch, Evict, Land, Collect, Forget, HandleMatch,
       PollTick, PollFetch, PollFail, PollApply, PollSkip
  <2> QED BY <2>1 DEF TypeOK, KeepLapsed
<1>3. ASSUME NEW t \in Triggers,
             Dispatch(t) \/ Evict(t) \/ Collect(t) \/ Forget(t)
      PROVE  TypeOK'
  <2>1. NoTx \in Tx
    BY NonceAssumption DEF NoTx, Tx, Phase, Entries, Hash, BadHash
  <2>2. \A p \in Phase : [tx[t] EXCEPT !.phase = p] \in Tx
    BY DEF TypeOK, Tx
  <2>3. tx' \in [Triggers -> Tx]
    BY <1>3, <2>1, <2>2 DEF Dispatch, Evict, Collect, Forget, TypeOK, Phase
  <2> QED BY <1>2, <1>3, <2>3 DEF Dispatch, Evict, Collect, Forget, TypeOK
<1>4. ASSUME NEW t \in Triggers, Land(t)
      PROVE  TypeOK'
  <2>1. tx[t].nonce \in Entries /\ [tx[t] EXCEPT !.phase = "gone"] \in Tx
    BY DEF TypeOK, Tx, Phase
  <2>2. chain' \in [Entries -> Nat]
    BY <1>4, <2>1 DEF Land, TypeOK
  <2>3. tx' \in {tx, [tx EXCEPT ![t].phase = "gone"]} /\ matches' \in {matches, Append(matches, t)}
    BY <1>4 DEF Land
  <2>4. tx' \in [Triggers -> Tx]
    BY <2>1, <2>3 DEF TypeOK
  <2>5. matches' \in Seq(Triggers)
    <3>1. matches \in Seq(Triggers)
      BY DEF TypeOK
    <3>2. Append(matches, t) \in Seq(Triggers)
      BY <3>1
    <3> QED BY <2>3, <3>1, <3>2
  <2> QED BY <1>2, <1>4, <2>2, <2>4, <2>5 DEF Land, TypeOK
<1>5. CASE HandleMatch
  <2> DEFINE t == Head(matches)
             i == tx[t].nonce
  <2>1. t \in Triggers /\ matches' \in Seq(Triggers)
    BY <1>5 DEF HandleMatch, TypeOK
  <2>2. i \in Entries /\ tx[t].hash \in Hash /\ state[i] \in NonceState
    BY <2>1 DEF TypeOK, Tx
  <2> HIDE DEF t, i
  <2>3. CASE tx[t].phase = "gone"
    <3>1. tx' = [tx EXCEPT ![t] = NoTx] /\ NonceHook(t)
      BY <1>5, <2>3 DEF HandleMatch, t
    <3>2. NoTx \in Tx
      BY NonceAssumption DEF NoTx, Tx, Phase, Entries, Hash, BadHash
    <3>3. state' \in [Entries -> NonceState]
      <4>1. PICK s \in NonceState : state' = [state EXCEPT ![i] = s]
        <5>1. \A h \in NextNonce(t) : on_landing_with_blockhash(state[i], h) \in NonceState
          <6>1. tx[t].hash + 1 \in Hash /\ BadHash \in Hash
            BY <2>2 DEF Hash, BadHash
          <6> QED BY <2>2, <6>1, MethodTypes DEF NextNonce
        <5>2. on_observed_landing(state[i]) \in NonceState
          BY <2>2, MethodTypes
        <5> QED BY <3>1, <5>1, <5>2 DEF NonceHook, i
      <4> QED BY <2>2, <4>1 DEF TypeOK
    <3> QED BY <1>2, <1>5, <2>1, <3>1, <3>2, <3>3 DEF HandleMatch, TypeOK
  <2>4. CASE tx[t].phase # "gone"
    BY <1>2, <1>5, <2>1, <2>4 DEF HandleMatch, t, TypeOK
  <2> QED BY <2>3, <2>4
<1>6. ASSUME NEW expired \in SUBSET Entries, PollTick(expired)
      PROVE  TypeOK'
  <2>1. \A i \in Entries : [state[i] EXCEPT !.kind = "Stale"] \in NonceState
    BY MethodTypes DEF TypeOK, NonceState
  <2>2. state' \in [Entries -> NonceState]
    BY <1>6, <2>1 DEF PollTick, TypeOK
  <2>3. poll' \in Polling
    BY <1>6 DEF PollTick, TypeOK, Polling
  <2> QED BY <1>2, <1>6, <2>2, <2>3 DEF PollTick, TypeOK
<1>7. CASE PollFetch \/ PollFail
  <2>1. poll' \in Polling
    <3>1. [i \in Entries |-> IF i \in poll.batch THEN chain[i] ELSE 0] \in [Entries -> Nat]
      BY DEF TypeOK
    <3> QED BY <1>7, <3>1 DEF PollFetch, PollFail, TypeOK, Polling
  <2> QED BY <1>7, <2>1 DEF PollFetch, PollFail, TypeOK
<1>8. ASSUME NEW i \in Entries, PollApply(i) \/ PollSkip(i)
      PROVE  TypeOK'
  <2>1. poll' \in Polling
    <3>1. PollDone(i)
      BY <1>8 DEF PollApply, PollSkip
    <3>2. [poll EXCEPT !.batch = @ \ {i}, !.snap[i] = 0] \in Polling
      BY DEF TypeOK, Polling
    <3>3. [pc |-> "sleep", batch |-> {}, snap |-> NoSnap] \in Polling
      BY DEF NoSnap, Polling
    <3> QED BY <3>1, <3>2, <3>3 DEF PollDone
  <2>2. poll.snap[i] \in Hash /\ state[i] \in NonceState
    BY DEF TypeOK, Polling, Hash
  <2>3. state' \in [Entries -> NonceState]
    <3>1. on_fallback_refresh(state[i], poll.snap[i]) \in NonceState
      BY <2>2, MethodTypes
    <3>2. \/ state' = [state EXCEPT ![i] = on_fallback_refresh(state[i], poll.snap[i])]
          \/ state' = state
      BY <1>8 DEF PollApply, PollSkip
    <3> QED BY <3>1, <3>2 DEF TypeOK
  <2>4. UNCHANGED <<rr_cursor, scan, tx, chain, matches>>
    BY <1>8 DEF PollApply, PollSkip
  <2> QED BY <1>2, <2>1, <2>3, <2>4 DEF TypeOK
<1>9. CASE UNCHANGED vars
  BY <1>9 DEF vars, TypeOK
<1> QED
  BY <1>1, <1>2, <1>3, <1>4, <1>5, <1>6, <1>7, <1>8, <1>9 DEF Next

(* TypeOK holds in every reachable state, for any pool and any triggers.   *)
THEOREM TypeCorrect == Spec => []TypeOK
<1>1. Init => TypeOK
  BY InitInv DEF Inv
<1> QED BY <1>1, StepTypeOK, PTL DEF Spec

-----------------------------------------------------------------------------
(* The chain's values never go back, so a value that was reached stays     *)
(* reached.                                                                *)
LEMMA ChainGrows ==
  ASSUME TypeOK, [Next]_vars, NEW i \in Entries
  PROVE  chain[i] \in Nat /\ chain'[i] \in Nat /\ chain[i] <= chain'[i]
<1>1. chain[i] \in Nat /\ TypeOK'
  BY StepTypeOK DEF TypeOK
<1>2. CASE UNCHANGED chain
  BY <1>1, <1>2
<1>3. ASSUME NEW t \in Triggers, Land(t)
      PROVE  chain'[i] \in Nat /\ chain[i] <= chain'[i]
  BY <1>1, <1>3 DEF Land, TypeOK
<1>4. UNCHANGED chain \/ \E t \in Triggers : Land(t)
  BY DEF Next, vars, TakeStep, Dispatch, Evict, Collect, Forget,
     HandleMatch, PollTick, PollFetch, PollFail, PollApply, PollSkip
<1> QED BY <1>1, <1>2, <1>3, <1>4

(* The values held by the manager and by the poller's answer. *)
LEMMA StepHeldValues ==
  ASSUME Inv, [Next]_vars
  PROVE  (\A i \in Entries : state[i].hash <= chain[i] /\ poll.snap[i] <= chain[i])'
<1> SUFFICES ASSUME NEW i \in Entries
             PROVE  state'[i].hash <= chain'[i] /\ poll'.snap[i] <= chain'[i]
  OBVIOUS
<1>1. /\ TypeOK /\ TypeOK' /\ chain[i] \in Nat /\ chain'[i] \in Nat
      /\ chain[i] <= chain'[i]
      /\ state[i].hash <= chain[i] /\ poll.snap[i] <= chain[i]
      /\ state[i] \in NonceState /\ state[i].hash \in Int /\ poll.snap[i] \in Nat
  <2>1. TypeOK /\ TypeOK' /\ state[i].hash <= chain[i] /\ poll.snap[i] <= chain[i]
    BY StepTypeOK DEF Inv, NeverAheadOfChain
  <2>2. state[i] \in NonceState /\ poll.snap[i] \in Nat
    BY <2>1 DEF TypeOK, Polling
  <2>3. state[i].hash \in Int
    BY <2>2 DEF NonceState, Hash, BadHash
  <2> QED BY <2>1, <2>2, <2>3, ChainGrows
<1>2. CASE UNCHANGED <<state, poll>>
  BY <1>1, <1>2
<1>3. CASE TakeStep
  <2>1. state'[i].hash = state[i].hash /\ poll' = poll
    BY <1>1, <1>3 DEF TakeStep, TypeOK, NonceState
  <2> QED BY <1>1, <2>1
<1>4. CASE HandleMatch
  <2> DEFINE t == Head(matches)
  <2>1. t \in Triggers /\ t = matches[1] /\ 1 \in 1 .. Len(matches)
    BY <1>1, <1>4 DEF HandleMatch, TypeOK
  <2>2. poll' = poll /\ chain' = chain /\ (NonceHook(t) \/ state' = state)
    BY <1>4 DEF HandleMatch
  <2> HIDE DEF t
  <2>3. tx[t].hash + 1 <= chain[tx[t].nonce]
    BY <2>1 DEF Inv, NeverAheadOfChain, QueuedHasLanded
  <2>4. tx[t].hash \in Int /\ tx[t].nonce \in Entries
    <3>1. tx[t] \in Tx
      BY <1>1, <2>1 DEF TypeOK
    <3> QED BY <3>1 DEF Tx, Hash, BadHash
  <2>5. state'[i].hash \in {state[i].hash, BadHash}
        \/ (i = tx[t].nonce /\ state'[i].hash = tx[t].hash + 1)
    <3>1. ASSUME NEW h \in NextNonce(t),
                 state' = [state EXCEPT ![tx[t].nonce] = on_landing_with_blockhash(@, h)]
          PROVE  state'[i].hash \in {state[i].hash, BadHash}
                 \/ (i = tx[t].nonce /\ state'[i].hash = tx[t].hash + 1)
      BY <1>1, <2>4, <3>1 DEF NextNonce, on_landing_with_blockhash, Ready, TypeOK
    <3>2. ASSUME state' = [state EXCEPT ![tx[t].nonce] = on_observed_landing(@)]
          PROVE  state'[i].hash = state[i].hash
      BY <1>1, <2>4, <3>2 DEF on_observed_landing, TypeOK, NonceState
    <3> QED BY <2>2, <3>1, <3>2 DEF NonceHook
  <2> QED BY <1>1, <2>2, <2>3, <2>4, <2>5 DEF BadHash
<1>5. ASSUME NEW expired \in SUBSET Entries, PollTick(expired)
      PROVE  state'[i].hash <= chain'[i] /\ poll'.snap[i] <= chain'[i]
  <2>1. state'[i].hash = state[i].hash /\ poll'.snap = poll.snap
    BY <1>1, <1>5 DEF PollTick, TypeOK, NonceState, Polling
  <2> QED BY <1>1, <2>1
<1>6. CASE PollFetch \/ PollFail
  <2>1. CASE PollFetch
    <3>1. poll'.snap = [k \in Entries |-> IF k \in poll.batch THEN chain[k] ELSE 0]
      BY <1>1, <2>1 DEF PollFetch, TypeOK, Polling
    <3>2. state' = state /\ chain' = chain /\ poll'.snap[i] \in {chain[i], 0}
      BY <2>1, <3>1 DEF PollFetch
    <3> QED BY <1>1, <3>2
  <2>2. CASE PollFail
    <3>1. state' = state /\ chain' = chain /\ poll'.snap = poll.snap
      BY <1>1, <2>2 DEF PollFail, TypeOK, Polling
    <3> QED BY <1>1, <3>1
  <2> QED BY <1>6, <2>1, <2>2
<1>7. ASSUME NEW j \in Entries, PollApply(j) \/ PollSkip(j)
      PROVE  state'[i].hash <= chain'[i] /\ poll'.snap[i] <= chain'[i]
  <2>1. PollDone(j) /\ chain' = chain
    BY <1>7 DEF PollApply, PollSkip
  <2>2. poll'.snap[i] \in {0, poll.snap[i]}
    <3>1. poll'.snap \in {NoSnap, poll.snap, [poll.snap EXCEPT ![j] = 0]}
      BY <1>1, <2>1 DEF PollDone, TypeOK, Polling
    <3>2. NoSnap[i] = 0
      BY DEF NoSnap
    <3> QED BY <1>1, <3>1, <3>2 DEF TypeOK, Polling
  <2>3. state'[i].hash \in {state[i].hash, poll.snap[i]}
    BY <1>1, <1>7 DEF PollApply, PollSkip, on_fallback_refresh, Ready, TypeOK
  <2> QED BY <1>1, <2>1, <2>2, <2>3
<1>8. UNCHANGED <<state, poll>> \/ TakeStep \/ HandleMatch \/ PollFetch \/ PollFail
      \/ (\E e \in SUBSET Entries : PollTick(e))
      \/ \E j \in Entries : PollApply(j) \/ PollSkip(j)
  BY DEF Next, vars, Dispatch, Evict, Land, Collect, Forget
<1> QED BY <1>2, <1>3, <1>4, <1>5, <1>6, <1>7, <1>8

(* The values the transactions hold. *)
LEMMA StepTxValues ==
  ASSUME Inv, [Next]_vars
  PROVE  (\A t \in Triggers : tx[t].hash <= chain[tx[t].nonce])'
<1> SUFFICES ASSUME NEW t \in Triggers
             PROVE  tx'[t].hash <= chain'[tx'[t].nonce]
  OBVIOUS
<1>1. TypeOK /\ TypeOK' /\ tx[t].hash <= chain[tx[t].nonce]
  BY StepTypeOK DEF Inv, NeverAheadOfChain
<1>2. tx[t] \in Tx /\ tx'[t] \in Tx
  BY <1>1 DEF TypeOK
<1>3. /\ tx[t].nonce \in Entries /\ tx'[t].nonce \in Entries
      /\ tx[t].hash \in Int /\ tx'[t].hash \in Int
  BY <1>2 DEF Tx, Hash, BadHash
<1>4. CASE tx'[t].nonce = tx[t].nonce /\ tx'[t].hash = tx[t].hash
  BY <1>1, <1>3, <1>4, ChainGrows
<1>5. CASE tx'[t] = NoTx
  <2>1. tx'[t].hash = 0 /\ chain'[tx'[t].nonce] \in Nat
    BY <1>1, <1>3, <1>5, ChainGrows DEF NoTx
  <2> QED BY <2>1
<1>6. CASE TakeStep
  <2> DEFINE i == Looking
  <2>1. i \in Entries
    BY <1>1, ScanIsEntry
  <2> HIDE DEF i
  <2>2. state[i].hash <= chain[i]
    BY <2>1 DEF Inv, NeverAheadOfChain
  <2>3. chain' = chain
    BY <1>6 DEF TakeStep
  <2>4. tx'[t] = tx[t] \/ (tx'[t].nonce = i /\ tx'[t].hash = state[i].hash)
    BY <1>1, <1>6 DEF TakeStep, i, TypeOK
  <2> QED BY <1>1, <2>2, <2>3, <2>4
<1>7. \/ TakeStep
      \/ tx'[t] = NoTx
      \/ tx'[t].nonce = tx[t].nonce /\ tx'[t].hash = tx[t].hash
  <2>1. CASE UNCHANGED tx
    BY <2>1
  <2>2. ASSUME NEW u \in Triggers,
               \/ tx' = [tx EXCEPT ![u] = NoTx]
               \/ \E p \in Phase : tx' = [tx EXCEPT ![u].phase = p]
        PROVE  tx'[t] = NoTx \/ (tx'[t].nonce = tx[t].nonce /\ tx'[t].hash = tx[t].hash)
    <3>1. CASE tx' = [tx EXCEPT ![u] = NoTx]
      BY <1>1, <3>1 DEF TypeOK
    <3>2. ASSUME NEW p \in Phase, tx' = [tx EXCEPT ![u] = [tx[u] EXCEPT !.phase = p]]
          PROVE  tx'[t].nonce = tx[t].nonce /\ tx'[t].hash = tx[t].hash
      BY <1>1, <1>2, <3>2 DEF TypeOK, Tx
    <3> QED BY <2>2, <3>1, <3>2
  <2>3. ASSUME NEW u \in Triggers,
               Dispatch(u) \/ Evict(u) \/ Land(u) \/ Collect(u) \/ Forget(u)
        PROVE  \/ UNCHANGED tx
               \/ tx' = [tx EXCEPT ![u] = NoTx]
               \/ \E p \in Phase : tx' = [tx EXCEPT ![u].phase = p]
    BY <2>3 DEF Dispatch, Evict, Land, Collect, Forget, Phase
  <2>4. CASE HandleMatch
    <3>1. Head(matches) \in Triggers
      BY <1>1, <2>4 DEF HandleMatch, TypeOK
    <3>2. UNCHANGED tx \/ tx' = [tx EXCEPT ![Head(matches)] = NoTx]
      BY <2>4 DEF HandleMatch
    <3> QED BY <2>2, <3>1, <3>2
  <2>5. \/ UNCHANGED tx \/ TakeStep \/ HandleMatch
        \/ \E u \in Triggers : Dispatch(u) \/ Evict(u) \/ Land(u)
                               \/ Collect(u) \/ Forget(u)
    BY DEF Next, vars, PollTick, PollFetch, PollFail, PollApply, PollSkip
  <2> QED BY <2>1, <2>2, <2>3, <2>4, <2>5
<1> QED BY <1>4, <1>5, <1>6, <1>7

(* What a step does to the queue and to the transactions in it. *)
LEMMA StepQueue ==
  ASSUME Inv, [Next]_vars
  PROVE  QueuedHasLanded' /\ QueueDistinct'
<1>1. TypeOK /\ TypeOK' /\ QueuedHasLanded /\ QueueDistinct /\ matches \in Seq(Triggers)
  BY StepTypeOK DEF Inv, NeverAheadOfChain, TypeOK
<1>2. \A k \in 1 .. Len(matches) :
        /\ matches[k] \in Triggers
        /\ tx[matches[k]] \in Tx
        /\ tx[matches[k]].nonce \in Entries
        /\ tx[matches[k]].hash \in Int
        /\ tx[matches[k]].phase \in {"gone", "forgotten"}
        /\ tx[matches[k]].hash + 1 <= chain[tx[matches[k]].nonce]
  <2> SUFFICES ASSUME NEW k \in 1 .. Len(matches)
               PROVE  /\ matches[k] \in Triggers
                      /\ tx[matches[k]] \in Tx
                      /\ tx[matches[k]].nonce \in Entries
                      /\ tx[matches[k]].hash \in Int
    BY <1>1 DEF QueuedHasLanded
  <2>1. matches[k] \in Triggers
    BY <1>1
  <2>2. tx[matches[k]] \in Tx
    BY <1>1, <2>1 DEF TypeOK
  <2> QED BY <2>1, <2>2 DEF Tx, Hash, BadHash
<1>3. \A i \in Entries : chain[i] \in Nat /\ chain'[i] \in Nat /\ chain[i] <= chain'[i]
  BY <1>1, ChainGrows
<1>4. ASSUME matches' = matches,
             \A k \in 1 .. Len(matches) :
               /\ tx'[matches[k]].phase \in {"gone", "forgotten"}
               /\ tx'[matches[k]].hash = tx[matches[k]].hash
               /\ tx'[matches[k]].nonce = tx[matches[k]].nonce
      PROVE  QueuedHasLanded' /\ QueueDistinct'
  <2>1. \A k \in 1 .. Len(matches) :
          tx'[matches[k]].hash + 1 <= chain'[tx'[matches[k]].nonce]
    <3> SUFFICES ASSUME NEW k \in 1 .. Len(matches)
                 PROVE  tx'[matches[k]].hash + 1 <= chain'[tx'[matches[k]].nonce]
      OBVIOUS
    <3> DEFINE h == tx[matches[k]].hash
               i == tx[matches[k]].nonce
    <3>1. h \in Int /\ i \in Entries /\ h + 1 <= chain[i]
      BY <1>2
    <3>2. tx'[matches[k]].hash = h /\ tx'[matches[k]].nonce = i
      BY <1>4
    <3> HIDE DEF h, i
    <3>3. h + 1 <= chain'[i]
      BY <1>3, <3>1
    <3> QED BY <3>2, <3>3
  <2> QED BY <1>1, <1>4, <2>1 DEF QueuedHasLanded, QueueDistinct
<1>5. CASE UNCHANGED <<tx, matches>>
  BY <1>2, <1>4, <1>5
<1>6. ASSUME NEW t \in Triggers, t \notin ToSet(matches), matches' = matches,
             NEW r, tx' = [tx EXCEPT ![t] = r]
      PROVE  QueuedHasLanded' /\ QueueDistinct'
  <2>1. \A k \in 1 .. Len(matches) : matches[k] # t
    BY <1>1, <1>6, QueueRange
  <2>2. \A k \in 1 .. Len(matches) : tx'[matches[k]] = tx[matches[k]]
    BY <1>1, <1>2, <1>6, <2>1 DEF TypeOK
  <2> QED BY <1>2, <1>4, <1>6, <2>2
<1>7. ASSUME NEW t \in Triggers, tx[t].phase \notin {"gone", "forgotten"}
      PROVE  t \notin ToSet(matches)
  BY <1>1, <1>2, <1>7, QueueRange
<1>8. CASE TakeStep
  <2>1. CASE UNCHANGED tx
    BY <1>5, <1>8, <2>1 DEF TakeStep
  <2>2. CASE ~UNCHANGED tx
    BY <1>6, <1>7, <1>8, <2>2 DEF TakeStep
  <2> QED BY <2>1, <2>2
<1>9. ASSUME NEW t \in Triggers, Dispatch(t) \/ Evict(t)
      PROVE  QueuedHasLanded' /\ QueueDistinct'
  <2>1. t \notin ToSet(matches)
    BY <1>7, <1>9 DEF Dispatch, Evict
  <2>2. matches' = matches /\ \E r : tx' = [tx EXCEPT ![t] = r]
    BY <1>9 DEF Dispatch, Evict
  <2> QED BY <1>6, <2>1, <2>2
<1>10. ASSUME NEW t \in Triggers, Collect(t)
       PROVE  QueuedHasLanded' /\ QueueDistinct'
  BY <1>6, <1>10 DEF Collect
<1>11. ASSUME NEW t \in Triggers, Forget(t)
       PROVE  QueuedHasLanded' /\ QueueDistinct'
  <2>1. tx' = [tx EXCEPT ![t] = [tx[t] EXCEPT !.phase = "forgotten"]] /\ matches' = matches
    BY <1>11 DEF Forget
  <2>2. \A k \in 1 .. Len(matches) :
          /\ tx'[matches[k]].phase \in {"gone", "forgotten"}
          /\ tx'[matches[k]].hash = tx[matches[k]].hash
          /\ tx'[matches[k]].nonce = tx[matches[k]].nonce
    BY <1>1, <1>2, <2>1 DEF TypeOK, Tx
  <2> QED BY <1>4, <2>1, <2>2
<1>12. ASSUME NEW t \in Triggers, Land(t)
       PROVE  QueuedHasLanded' /\ QueueDistinct'
  <2> DEFINE i == tx[t].nonce
  <2>1. tx[t] \in Tx
    BY <1>1 DEF TypeOK
  <2>2. i \in Entries /\ tx[t].hash = chain[i] /\ chain'[i] = chain[i] + 1
    BY <1>1, <1>12, <2>1 DEF Land, TypeOK, Tx
  <2>3. CASE tx[t].phase = "forgotten"
    BY <1>5, <1>12, <2>3 DEF Land
  <2>4. CASE tx[t].phase = "sent"
    <3>1. t \notin ToSet(matches)
      BY <1>7, <2>4
    <3>2. /\ tx' = [tx EXCEPT ![t] = [tx[t] EXCEPT !.phase = "gone"]]
          /\ matches' \in {matches, Append(matches, t)}
      BY <1>12, <2>4 DEF Land
    <3>3. CASE matches' = matches
      BY <1>6, <3>1, <3>2, <3>3
    <3>4. CASE matches' = Append(matches, t)
      <4>1. /\ Len(matches') = Len(matches) + 1
            /\ matches'[Len(matches) + 1] = t
            /\ \A k \in 1 .. Len(matches) : matches'[k] = matches[k] /\ matches[k] # t
        BY <1>1, <3>1, <3>4, QueueRange
      <4>2. /\ tx'[t].phase = "gone" /\ tx'[t].nonce = i /\ tx'[t].hash = tx[t].hash
        BY <1>1, <2>1, <3>2 DEF TypeOK, Tx
      <4>3. \A k \in 1 .. Len(matches) : tx'[matches[k]] = tx[matches[k]]
        BY <1>1, <1>2, <3>2, <4>1 DEF TypeOK
      <4>4. Len(matches) \in Nat
        BY <1>1
      <4>5. tx'[t].hash + 1 <= chain'[tx'[t].nonce]
        BY <1>3, <2>2, <4>2
      <4>6. QueuedHasLanded'
        <5> SUFFICES ASSUME NEW k \in 1 .. Len(matches) + 1
                     PROVE  /\ tx'[matches'[k]].phase \in {"gone", "forgotten"}
                            /\ tx'[matches'[k]].hash + 1 <= chain'[tx'[matches'[k]].nonce]
          BY <4>1 DEF QueuedHasLanded
        <5>1. CASE k = Len(matches) + 1
          BY <4>1, <4>2, <4>5, <5>1
        <5>2. CASE k \in 1 .. Len(matches)
          <6> DEFINE h == tx[matches[k]].hash
                     j == tx[matches[k]].nonce
          <6>1. h \in Int /\ j \in Entries /\ h + 1 <= chain[j]
            BY <1>2, <5>2
          <6>2. /\ tx'[matches'[k]].phase \in {"gone", "forgotten"}
                /\ tx'[matches'[k]].hash = h /\ tx'[matches'[k]].nonce = j
            BY <1>2, <4>1, <4>3, <5>2
          <6> HIDE DEF h, j
          <6>3. h + 1 <= chain'[j]
            BY <1>3, <6>1
          <6> QED BY <6>2, <6>3
        <5> QED BY <4>4, <5>1, <5>2
      <4>7. QueueDistinct'
        BY <1>1, <4>1, <4>4 DEF QueueDistinct
      <4> QED BY <4>6, <4>7
    <3> QED BY <3>2, <3>3, <3>4
  <2> QED BY <1>12, <2>3, <2>4 DEF Land
<1>13. CASE HandleMatch
  <2> DEFINE t == Head(matches)
  <2>1. matches # <<>> /\ matches' = Tail(matches) /\ chain' = chain
    BY <1>13 DEF HandleMatch
  <2>2. /\ Len(matches) \in Nat /\ Len(matches') = Len(matches) - 1
        /\ \A k \in 1 .. Len(matches') : matches'[k] = matches[k + 1]
        /\ t = matches[1] /\ 1 \in 1 .. Len(matches)
    BY <1>1, <2>1
  <2>3. t \in Triggers /\ (tx' = tx \/ tx' = [tx EXCEPT ![t] = NoTx])
    BY <1>2, <1>13, <2>2 DEF HandleMatch
  <2> HIDE DEF t
  <2>4. ASSUME NEW k \in 1 .. Len(matches')
        PROVE  k + 1 \in 1 .. Len(matches) /\ tx'[matches'[k]] = tx[matches[k + 1]]
    <3>1. k + 1 \in 1 .. Len(matches) /\ k + 1 # 1
      BY <2>2
    <3>2. matches[k + 1] # t /\ matches[k + 1] \in Triggers
      BY <1>1, <1>2, <2>2, <3>1 DEF QueueDistinct
    <3> QED BY <1>1, <2>2, <2>3, <3>1, <3>2 DEF TypeOK
  <2>5. QueuedHasLanded'
    BY <1>2, <2>1, <2>2, <2>4 DEF QueuedHasLanded
  <2>6. QueueDistinct'
    BY <1>1, <2>2, <2>4 DEF QueueDistinct
  <2> QED BY <2>5, <2>6
<1> QED
  BY <1>5, <1>8, <1>9, <1>10, <1>11, <1>12, <1>13
     DEF Next, vars, PollTick, PollFetch, PollFail, PollApply, PollSkip

(* The manager never runs ahead of the chain: a nonce account may hold a   *)
(* value the pool has not caught up with, never the reverse.               *)
THEOREM NeverAhead == Spec => []NeverAheadOfChain
<1>1. Inv /\ [Next]_vars => Inv'
  BY StepTypeOK, StepHeldValues, StepTxValues, StepQueue DEF Inv, NeverAheadOfChain
<1>2. Inv => NeverAheadOfChain
  BY DEF Inv
<1> QED BY InitInv, <1>1, <1>2, PTL DEF Spec

-----------------------------------------------------------------------------
(* Inductive for ExclusiveLease: until a deadline passes under it, what a  *)
(* live trigger holds is InFlight, so take_ready cannot hand it out; a     *)
(* landing handled for one trigger leaves no other on that account.        *)
SoleUser(t) ==
  /\ state[tx[t].nonce].kind = "InFlight"
  /\ \A u \in Triggers : u # t /\ Live(u) => tx[u].nonce # tx[t].nonce

LeaseInv == \A t \in Triggers : Live(t) /\ tx[t].nonce \notin lapsed => SoleUser(t)

(* Only take_ready brings a trigger to life. *)
LEMMA LiveShrinks ==
  ASSUME TypeOK, [Next]_vars, ~TakeStep, NEW u \in Triggers, Live(u)'
  PROVE  Live(u) /\ tx'[u].nonce = tx[u].nonce
<1>1. tx[u] \in Tx /\ matches \in Seq(Triggers)
  BY DEF TypeOK
<1>2. CASE UNCHANGED <<tx, matches>>
  BY <1>2 DEF Live
<1>3. ASSUME NEW t \in Triggers, matches' = matches,
             \/ tx' = [tx EXCEPT ![t] = NoTx]
             \/ tx' = [tx EXCEPT ![t] = [tx[t] EXCEPT !.phase = "sent"]]
                /\ tx[t].phase = "pooled"
             \/ tx' = [tx EXCEPT ![t] = [tx[t] EXCEPT !.phase = "gone"]]
                /\ tx[t].phase = "sent"
             \/ tx' = [tx EXCEPT ![t] = [tx[t] EXCEPT !.phase = "forgotten"]]
      PROVE  Live(u) /\ tx'[u].nonce = tx[u].nonce
  <2>1. CASE u # t
    <3>1. tx'[u] = tx[u]
      BY <1>3, <2>1 DEF TypeOK
    <3> QED BY <1>3, <3>1 DEF Live
  <2>2. CASE u = t
    BY <1>1, <1>3, <2>2 DEF Live, TypeOK, Tx, NoTx
  <2> QED BY <2>1, <2>2
<1>4. ASSUME NEW t \in Triggers,
             Dispatch(t) \/ Evict(t) \/ Collect(t) \/ Forget(t)
      PROVE  Live(u) /\ tx'[u].nonce = tx[u].nonce
  BY <1>3, <1>4 DEF Dispatch, Evict, Collect, Forget
<1>5. ASSUME NEW t \in Triggers, Land(t)
      PROVE  Live(u) /\ tx'[u].nonce = tx[u].nonce
  <2>1. CASE tx[t].phase = "forgotten"
    BY <1>2, <1>5, <2>1 DEF Land
  <2>2. CASE tx[t].phase = "sent"
    <3>1. /\ tx' = [tx EXCEPT ![t] = [tx[t] EXCEPT !.phase = "gone"]]
          /\ matches' \in {matches, Append(matches, t)}
      BY <1>5, <2>2 DEF Land
    <3>2. ToSet(matches') \subseteq ToSet(matches) \cup {t}
      BY <1>1, <3>1, QueueEnds
    <3>3. CASE u = t
      BY <1>1, <2>2, <3>1, <3>3 DEF Live, TypeOK, Tx
    <3>4. CASE u # t
      <4>1. tx'[u] = tx[u]
        BY <3>1, <3>4 DEF TypeOK
      <4> QED BY <3>2, <3>4, <4>1 DEF Live
    <3> QED BY <3>3, <3>4
  <2> QED BY <1>5, <2>1, <2>2 DEF Land
<1>6. CASE HandleMatch
  <2> DEFINE t == Head(matches)
  <2>1. t \in Triggers /\ ToSet(matches') \subseteq ToSet(matches)
    BY <1>1, <1>6, QueueEnds DEF HandleMatch
  <2>2. tx' = tx \/ tx' = [tx EXCEPT ![t] = NoTx]
    BY <1>6 DEF HandleMatch
  <2> HIDE DEF t
  <2>3. tx'[u] \in {tx[u], NoTx}
    BY <2>1, <2>2 DEF TypeOK
  <2> QED BY <2>1, <2>3 DEF Live, NoTx
<1> QED
  BY <1>2, <1>4, <1>5, <1>6
     DEF Next, vars, PollTick, PollFetch, PollFail, PollApply, PollSkip

(* An account is forgotten to have lapsed only once no live trigger uses it. *)
LEMMA LapsedStays ==
  ASSUME TypeOK, [Next]_vars, NEW u \in Triggers, Live(u)', Live(u), tx'[u].nonce = tx[u].nonce,
         tx'[u].nonce \notin lapsed'
  PROVE  tx[u].nonce \notin lapsed
<1>1. CASE UNCHANGED lapsed
  BY <1>1
<1>2. CASE KeepLapsed
  <2>1. \A j : j \in lapsed /\ (\E t \in Triggers : Live(t)' /\ tx'[t].nonce = j) => j \in lapsed'
    BY <1>2 DEF KeepLapsed, Busy
  <2> QED BY <2>1
<1>3. CASE \E e \in SUBSET Entries : PollTick(e)
  BY <1>3 DEF PollTick
<1> QED
  BY <1>1, <1>2, <1>3
     DEF Next, vars, TakeStep, Dispatch, Evict, Land, Collect, Forget, HandleMatch,
         PollFetch, PollFail, PollApply, PollSkip

(* A live trigger's nonce stays InFlight until its deadline passes. *)
LEMMA LiveStaysInFlight ==
  ASSUME TypeOK, LeaseInv, [Next]_vars, ~TakeStep,
         NEW u \in Triggers, Live(u)', tx'[u].nonce \notin lapsed'
  PROVE  state'[tx'[u].nonce].kind = "InFlight"
<1> DEFINE i == tx[u].nonce
<1>1. Live(u) /\ tx'[u].nonce = i
  BY LiveShrinks
<1>2. i \notin lapsed
  BY <1>1, LapsedStays
<1>3. i \in Entries /\ state[i] \in NonceState /\ state[i].kind = "InFlight"
  BY <1>1, <1>2 DEF LeaseInv, SoleUser, TypeOK, Tx
<1> HIDE DEF i
<1>4. CASE UNCHANGED state
  BY <1>1, <1>3, <1>4
<1>5. CASE HandleMatch
  <2> DEFINE t == Head(matches)
  <2>1. t \in Triggers /\ matches # <<>> /\ t \in ToSet(matches)
    BY <1>5, QueueRange DEF HandleMatch, TypeOK
  <2>2. CASE tx[t].phase = "gone"
    <3>1. Live(t) /\ tx'[t] = NoTx
      BY <1>5, <2>1, <2>2 DEF HandleMatch, Live, TypeOK
    <3>2. u # t
      BY <3>1 DEF Live, NoTx
    <3>3. tx[t].nonce # i
      BY <1>1, <1>2, <2>1, <3>1, <3>2 DEF LeaseInv, SoleUser, i
    <3>4. state'[i] = state[i]
      BY <1>3, <1>5, <2>2, <3>3 DEF HandleMatch, NonceHook, TypeOK
    <3> QED BY <1>1, <1>3, <3>4
  <2>3. CASE tx[t].phase # "gone"
    BY <1>4, <1>5, <2>3 DEF HandleMatch
  <2> QED BY <2>2, <2>3
<1>6. ASSUME NEW expired \in SUBSET Entries, PollTick(expired)
      PROVE  state'[tx'[u].nonce].kind = "InFlight"
  <2>1. Busy(i)
    BY <1>1 DEF Busy, i
  <2>2. i \notin expired
    BY <1>1, <1>3, <1>6, <2>1 DEF PollTick
  <2> QED BY <1>1, <1>3, <1>6, <2>2 DEF PollTick
<1>7. ASSUME NEW j \in Entries, PollApply(j)
      PROVE  state'[tx'[u].nonce].kind = "InFlight"
  BY <1>1, <1>3, <1>7 DEF PollApply, on_fallback_refresh, TypeOK
<1> QED
  BY <1>4, <1>5, <1>6, <1>7
     DEF Next, vars, Dispatch, Evict, Land, Collect, Forget, PollFetch, PollFail, PollSkip

(* Every action keeps leases exclusive.                                    *)
LEMMA StepLease ==
  ASSUME Inv, LeaseInv, [Next]_vars
  PROVE  LeaseInv'
<1> SUFFICES ASSUME NEW t \in Triggers, Live(t)', tx'[t].nonce \notin lapsed'
             PROVE  /\ state'[tx'[t].nonce].kind = "InFlight"
                    /\ \A u \in Triggers : u # t /\ Live(u)' => tx'[u].nonce # tx'[t].nonce
  BY DEF LeaseInv, SoleUser, Live
<1>1. TypeOK /\ matches \in Seq(Triggers)
  BY DEF Inv, TypeOK
<1>2. CASE ~TakeStep
  <2>1. state'[tx'[t].nonce].kind = "InFlight"
    BY <1>1, <1>2, LiveStaysInFlight
  <2>2. \A u \in Triggers : Live(u)' => Live(u) /\ tx'[u].nonce = tx[u].nonce
    BY <1>1, <1>2, LiveShrinks
  <2>3. tx[t].nonce \notin lapsed
    BY <1>1, <2>2, LapsedStays
  <2> QED BY <2>1, <2>2, <2>3 DEF LeaseInv, SoleUser
<1>3. CASE TakeStep
  <2> DEFINE i == Looking
  <2>1. i \in Entries
    BY <1>1, ScanIsEntry
  <2> HIDE DEF i
  <2>2. matches' = matches /\ lapsed' = lapsed
    BY <1>3 DEF TakeStep
  <2>3. CASE Takeable(state[i])
    <3>1. PICK v \in Triggers :
            /\ tx[v].phase = "free"
            /\ tx' = [tx EXCEPT ![v] = [phase |-> "pooled", nonce |-> i,
                                        hash |-> state[i].hash]]
      BY <1>3, <2>3 DEF TakeStep, i
    <3>2. state' = [state EXCEPT ![i] = [state[i] EXCEPT !.kind = "InFlight"]]
      BY <1>3, <2>3 DEF TakeStep, i
    <3>3. state[i].kind = "Ready"
      BY <2>3 DEF Takeable
    <3>4. \A u \in Triggers \ {v} :
            /\ tx'[u] = tx[u]
            /\ Live(u)' <=> Live(u)
            /\ tx[u].nonce \in Entries
            /\ Live(u) /\ tx[u].nonce \notin lapsed => tx[u].nonce # i
      <4> SUFFICES ASSUME NEW u \in Triggers \ {v}
                   PROVE  /\ tx'[u] = tx[u]
                          /\ Live(u)' <=> Live(u)
                          /\ tx[u].nonce \in Entries
                          /\ Live(u) /\ tx[u].nonce \notin lapsed => tx[u].nonce # i
        OBVIOUS
      <4>1. tx'[u] = tx[u]
        BY <1>1, <3>1 DEF TypeOK
      <4>2. Live(u)' <=> Live(u)
        BY <2>2, <4>1 DEF Live
      <4>3. Live(u) /\ tx[u].nonce \notin lapsed => state[tx[u].nonce].kind = "InFlight"
        BY DEF LeaseInv, SoleUser
      <4>4. tx[u].nonce \in Entries
        BY <1>1 DEF TypeOK, Tx
      <4> QED BY <3>3, <4>1, <4>2, <4>3, <4>4
    <3>5. tx'[v].nonce = i /\ state'[i].kind = "InFlight"
      BY <1>1, <2>1, <3>1, <3>2 DEF TypeOK, NonceState
    <3>6. \A j \in Entries \ {i} : state'[j] = state[j]
      BY <1>1, <2>1, <3>2 DEF TypeOK
    <3>7. CASE t = v
      BY <2>2, <3>4, <3>5, <3>7
    <3>8. CASE t # v
      <4>1. Live(t) /\ tx'[t].nonce = tx[t].nonce /\ tx[t].nonce \notin lapsed
        BY <2>2, <3>4, <3>8
      <4>2. SoleUser(t) /\ tx[t].nonce # i /\ tx[t].nonce \in Entries
        BY <3>4, <3>8, <4>1 DEF LeaseInv
      <4> QED BY <3>4, <3>5, <3>6, <4>1, <4>2 DEF SoleUser
    <3> QED BY <3>7, <3>8
  <2>4. CASE ~Takeable(state[i])
    <3>1. UNCHANGED <<state, tx>>
      BY <1>3, <2>4 DEF TakeStep, i
    <3> QED BY <2>2, <3>1 DEF LeaseInv, SoleUser, Live
  <2> QED BY <2>3, <2>4
<1> QED BY <1>2, <1>3

(* Two pooled or sent triggers spend the same account only after a         *)
(* deadline passed under one of them: on an account that has not lapsed,   *)
(* every live trigger is the only one.                                     *)
THEOREM LeaseIsExclusive == Spec => []ExclusiveLease
<1>1. Init => LeaseInv
  BY DEF Init, LeaseInv, Live, NoTx
<1>2. Inv /\ [Next]_vars => Inv'
  BY StepTypeOK, StepHeldValues, StepTxValues, StepQueue DEF Inv, NeverAheadOfChain
<1>3. Inv /\ LeaseInv /\ [Next]_vars => LeaseInv'
  BY StepLease
<1>4. LeaseInv => ExclusiveLease
  BY DEF LeaseInv, SoleUser, ExclusiveLease, Live
<1> QED BY InitInv, <1>1, <1>2, <1>3, <1>4, PTL DEF Spec

-----------------------------------------------------------------------------
(* The transactions in v carry blockhash h and are one for each sender in S. *)
OnePerSender(v, h, S) ==
  /\ v \subseteq PreSignedTx
  /\ \A x \in v : x.blockhash = h
  /\ {x.sender : x \in v} = S
  /\ \A x, y \in v : x.sender = y.sender => x = y

(* A job has signed for the senders it no longer has left, all with the    *)
(* blockhash it read, one of the chain's first top.                        *)
SoundJob(job, top) ==
  /\ IF job.read THEN job.blockhash \in 1 .. top ELSE job.left = Sender
  /\ OnePerSender(job.signed, job.blockhash, Sender \ job.left)

(* No variants, or all of them.                                            *)
Complete(v, top) == v = {} \/ \E h \in 1 .. top : OnePerSender(v, h, Sender)

(* What a set of variants pays for Jito.                                   *)
JitoTipped(v) ==
  \A x \in v : x.sender \in JitoSender => x.tip \in tip_floor .. tip_ceiling

(* A thread signs only once the cache was stamped, and the cache is        *)
(* stamped only after a blockhash of the chain was stored.                 *)
CacheFilled == (stamped \/ refresher = "stored") => inner \in 1 .. latest

JobsSound ==
  /\ preparing # NoJob =>
       stamped /\ SoundJob(preparing, latest) /\ JitoTipped(preparing.signed)
  /\ building # NoJob => stamped /\ SoundJob(building, latest)

SetsComplete ==
  \A t \in Trigger :
    Complete(pool[t], latest) /\ Complete(sent[t], latest) /\ JitoTipped(pool[t])

SupplyInv ==
  /\ SupplyTypeOK /\ current_tip \in tip_floor .. tip_ceiling
  /\ CacheFilled /\ JobsSound /\ SetsComplete

-----------------------------------------------------------------------------
(* A set with one transaction per sender has as many as there are senders. *)
LEMMA OnePerSenderCount ==
  ASSUME NEW v, NEW h, OnePerSender(v, h, Sender)
  PROVE  Cardinality(v) = Cardinality(Sender)
<1> DEFINE of == [s \in Sender |-> CHOOSE x \in v : x.sender = s]
<1>1. \A s \in Sender : of[s] \in v /\ of[s].sender = s
  <2> SUFFICES ASSUME NEW s \in Sender
               PROVE  \E x \in v : x.sender = s
    OBVIOUS
  <2> QED BY DEF OnePerSender
<1>2. \A x \in v : x.sender \in Sender /\ of[x.sender] = x
  <2> SUFFICES ASSUME NEW x \in v
               PROVE  x.sender \in Sender /\ of[x.sender] = x
    OBVIOUS
  <2>1. x.sender \in Sender
    BY DEF OnePerSender
  <2> HIDE DEF of
  <2>2. of[x.sender] \in v /\ of[x.sender].sender = x.sender
    BY <1>1, <2>1
  <2> QED BY <2>1, <2>2 DEF OnePerSender
<1>3. of \in [Sender -> v]
  BY <1>1
<1> HIDE DEF of
<1>4. of \in Bijection(Sender, v)
  <2>1. IsInjective(of)
    BY <1>1, <1>3 DEF IsInjective
  <2> QED BY <1>2, <1>3, <2>1 DEF Bijection, Injection, Surjection
<1> QED BY <1>4, FS_Bijection, SupplyAssumption DEF ExistsBijection

(* A blockhash of the chain stays one.                                     *)
LEMMA CompleteStays ==
  ASSUME NEW top \in Nat, NEW more \in Nat, top <= more
  PROVE  /\ \A v : Complete(v, top) => Complete(v, more)
         /\ \A job : SoundJob(job, top) => SoundJob(job, more)
<1>1. 1 .. top \subseteq 1 .. more
  OBVIOUS
<1> QED BY <1>1 DEF Complete, SoundJob

(* A job at its start, when it reads the cache, and when it signs.         *)
LEMMA NewJobSound ==
  ASSUME NEW t \in Trigger, NEW top
  PROVE  NewJob(t) \in Job /\ SoundJob(NewJob(t), top) /\ JitoTipped(NewJob(t).signed)
<1>1. NewJob(t) \in Job
  BY SupplyAssumption DEF NewJob, Job, Blockhash, NoHash
<1>2. /\ ~NewJob(t).read /\ NewJob(t).left = Sender /\ NewJob(t).signed = {}
      /\ NewJob(t).blockhash = NoHash
  BY DEF NewJob
<1> QED BY <1>1, <1>2 DEF SoundJob, OnePerSender, JitoTipped

LEMMA ReadHashSound ==
  ASSUME SupplyTypeOK, NEW top, inner \in 1 .. top,
         NEW job \in Job, SoundJob(job, top), ~job.read
  PROVE  /\ ReadHash(job) \in Job /\ SoundJob(ReadHash(job), top)
         /\ ReadHash(job).signed = job.signed
<1>1. ReadHash(job) \in Job
  BY DEF ReadHash, Job, SupplyTypeOK
<1>2. /\ ReadHash(job).read /\ ReadHash(job).blockhash = inner
      /\ ReadHash(job).left = job.left /\ ReadHash(job).signed = job.signed
  BY DEF ReadHash, Job
<1>3. job.left = Sender /\ OnePerSender(job.signed, job.blockhash, {})
  BY DEF SoundJob
<1>4. job.signed = {}
  BY <1>3 DEF OnePerSender
<1> QED BY <1>1, <1>2, <1>3, <1>4 DEF SoundJob, OnePerSender

LEMMA SignedSound ==
  ASSUME NEW top, NEW job \in Job, SoundJob(job, top), job.read,
         NEW s \in job.left, NEW tip \in Nat
  PROVE  /\ Signed(job, s, tip) \in Job /\ SoundJob(Signed(job, s, tip), top)
         /\ Signed(job, s, tip).signed = job.signed \cup {build(s, job.blockhash, tip)}
<1> DEFINE x == build(s, job.blockhash, tip)
           next == Signed(job, s, tip)
<1>1. /\ job.left \subseteq Sender /\ job.blockhash \in Blockhash
      /\ job.signed \subseteq PreSignedTx
  BY DEF Job
<1>2. x \in PreSignedTx /\ x.sender = s /\ x.blockhash = job.blockhash
  BY <1>1 DEF build, PreSignedTx
<1> HIDE DEF x
<1>3. /\ next.read /\ next.blockhash = job.blockhash
      /\ next.left = job.left \ {s} /\ next.signed = job.signed \cup {x}
  BY DEF Signed, Job, x
<1>4. next \in Job
  BY <1>1, <1>2 DEF Signed, Job, x
<1> HIDE DEF next
<1>5. OnePerSender(job.signed, job.blockhash, Sender \ job.left)
  BY DEF SoundJob
<1>6. \A y \in job.signed : y.sender \in Sender \ job.left /\ y.sender # s
  BY <1>5 DEF OnePerSender
<1>7. {y.sender : y \in job.signed \cup {x}} = Sender \ (job.left \ {s})
  <2>1. {y.sender : y \in job.signed} = Sender \ job.left
    BY <1>5 DEF OnePerSender
  <2>2. {y.sender : y \in job.signed \cup {x}} = {y.sender : y \in job.signed} \cup {s}
    BY <1>2
  <2> QED BY <1>1, <2>1, <2>2
<1>8. OnePerSender(job.signed \cup {x}, job.blockhash, Sender \ (job.left \ {s}))
  <2>1. \A y \in job.signed \cup {x} : y.blockhash = job.blockhash
    BY <1>2, <1>5 DEF OnePerSender
  <2>2. \A y, z \in job.signed \cup {x} : y.sender = z.sender => y = z
    BY <1>2, <1>5, <1>6 DEF OnePerSender
  <2> QED BY <1>1, <1>2, <1>7, <2>1, <2>2 DEF OnePerSender
<1>9. SoundJob(next, top)
  BY <1>3, <1>8 DEF SoundJob
<1> QED BY <1>3, <1>4, <1>9 DEF next, x

(* A job that has signed for every sender.                                 *)
LEMMA FinishedComplete ==
  ASSUME NEW top, NEW job \in Job, SoundJob(job, top), job.left = {}
  PROVE  Complete(job.signed, top)
<1>1. job.read
  BY SupplyAssumption DEF SoundJob
<1> QED BY <1>1 DEF SoundJob, Complete

-----------------------------------------------------------------------------
(* Empty cache, empty pool, nothing signed. *)
LEMMA InitSupply == SupplyInit => SupplyInv
<1> SUFFICES ASSUME SupplyInit PROVE SupplyInv
  OBVIOUS
<1>1. SupplyTypeOK
  <2>1. latest \in 1 .. MaxHash /\ inner \in Blockhash /\ current_tip \in Nat
    BY SupplyAssumption DEF SupplyInit, Blockhash, NoHash
  <2>2. pool \in [Trigger -> SUBSET PreSignedTx] /\ sent \in [Trigger -> SUBSET PreSignedTx]
    BY DEF SupplyInit
  <2> QED BY <2>1, <2>2 DEF SupplyInit, SupplyTypeOK
<1>2. current_tip \in tip_floor .. tip_ceiling
  BY SupplyAssumption DEF SupplyInit
<1>3. CacheFilled /\ JobsSound
  BY DEF SupplyInit, CacheFilled, JobsSound
<1>4. SetsComplete
  <2>1. \A t \in Trigger : pool[t] = {} /\ sent[t] = {}
    BY DEF SupplyInit
  <2> QED BY <2>1 DEF SetsComplete, Complete, JitoTipped
<1> QED BY <1>1, <1>2, <1>3, <1>4 DEF SupplyInv

(* What a step that leaves the jobs, the pool and the sent variants alone  *)
(* has to establish.                                                       *)
LEMMA StepOthers ==
  ASSUME SupplyInv, SupplyTypeOK', latest <= latest', stamped => stamped',
         UNCHANGED <<preparing, pool, building, sent>>,
         CacheFilled', current_tip' \in tip_floor .. tip_ceiling
  PROVE  SupplyInv'
<1>1. latest \in Nat /\ latest' \in Nat
  BY SupplyAssumption DEF SupplyInv, SupplyTypeOK
<1>2. /\ \A v : Complete(v, latest) => Complete(v, latest')
      /\ \A job : SoundJob(job, latest) => SoundJob(job, latest')
  BY <1>1, CompleteStays
<1>3. JobsSound'
  BY <1>2 DEF SupplyInv, JobsSound
<1>4. SetsComplete'
  BY <1>2 DEF SupplyInv, SetsComplete
<1> QED BY <1>3, <1>4 DEF SupplyInv

(* The chain, the refresh thread, the tip task and the end of the run.     *)
LEMMA StepSources ==
  ASSUME SupplyInv,
         \/ ChainAdvances \/ StoreHash \/ update_last_refresh \/ UpdateTip \/ Stop
  PROVE  SupplyInv'
<1>1. /\ SupplyTypeOK /\ latest \in 1 .. MaxHash /\ MaxHash \in Nat /\ CacheFilled
      /\ inner \in Blockhash /\ Blockhash = 0 .. MaxHash /\ current_tip \in tip_floor .. tip_ceiling
  BY SupplyAssumption DEF SupplyInv, SupplyTypeOK, Blockhash, NoHash
<1>2. /\ latest' \in 1 .. MaxHash /\ latest <= latest'
      /\ inner' \in Blockhash /\ CacheFilled'
      /\ stamped' \in BOOLEAN /\ (stamped => stamped') /\ refresher' \in {"fetch", "stored"}
  <2>1. CASE ChainAdvances
    <3>1. /\ latest' = latest + 1 /\ latest < MaxHash
          /\ UNCHANGED <<inner, stamped, refresher>>
      BY <2>1 DEF ChainAdvances, cache
    <3>2. latest' \in 1 .. MaxHash /\ latest <= latest' /\ 1 .. latest \subseteq 1 .. latest'
      BY <1>1, <3>1
    <3> QED BY <1>1, <3>1, <3>2 DEF CacheFilled, SupplyTypeOK
  <2>2. CASE StoreHash
    <3>1. UNCHANGED <<latest, stamped>> /\ inner' = latest /\ refresher' = "stored"
      BY <2>2 DEF StoreHash
    <3>2. inner' \in 1 .. latest /\ inner' \in Blockhash
      BY <1>1, <3>1
    <3> QED BY <1>1, <3>1, <3>2 DEF CacheFilled, SupplyTypeOK
  <2>3. CASE update_last_refresh
    <3>1. /\ UNCHANGED <<latest, inner>> /\ refresher = "stored"
          /\ stamped' = TRUE /\ refresher' = "fetch"
      BY <2>3 DEF update_last_refresh
    <3> QED BY <1>1, <3>1 DEF CacheFilled, SupplyTypeOK
  <2>4. CASE UpdateTip \/ Stop
    <3>1. UNCHANGED <<latest, inner, stamped, refresher>>
      BY <2>4 DEF UpdateTip, Stop, cache
    <3> QED BY <1>1, <3>1 DEF CacheFilled, SupplyTypeOK
  <2> QED BY <2>1, <2>2, <2>3, <2>4
<1>3. current_tip' \in tip_floor .. tip_ceiling
  <2>1. CASE UpdateTip
    <3>1. \A tip \in Nat : clamp(tip) \in tip_floor .. tip_ceiling
      BY SupplyAssumption DEF clamp
    <3>2. PICK tip \in TipFloors : current_tip' = clamp(tip)
      BY <2>1 DEF UpdateTip
    <3>3. tip \in Nat
      BY SupplyAssumption
    <3> QED BY <3>1, <3>2, <3>3
  <2>2. CASE UNCHANGED current_tip
    BY <1>1, <2>2
  <2> QED BY <2>1, <2>2 DEF ChainAdvances, StoreHash, update_last_refresh, Stop
<1>4. UNCHANGED <<preparing, pool, building, sent, waiting, fired>> /\ running' \in BOOLEAN
  BY <1>1 DEF ChainAdvances, StoreHash, update_last_refresh, UpdateTip, Stop, prepVars,
     dispVars, SupplyTypeOK
<1>5. current_tip' \in Nat
  BY <1>3, SupplyAssumption
<1>6. SupplyTypeOK'
  BY <1>1, <1>2, <1>4, <1>5 DEF SupplyTypeOK
<1> QED BY <1>2, <1>3, <1>4, <1>6, StepOthers

(* The preparer's job and the set it ends in.                              *)
LEMMA StepPreparer ==
  ASSUME SupplyInv,
         \/ \E t \in Trigger : DropPast(t) \/ StartSigning(t)
         \/ PreparerReads \/ insert_all
         \/ \E s \in Sender : SignVariant(s)
  PROVE  SupplyInv'
<1>1. /\ SupplyTypeOK /\ UNCHANGED <<latest, inner, stamped, refresher, current_tip, building,
                                    fired, sent, running>>
  BY DEF SupplyInv, DropPast, StartSigning, PreparerReads, insert_all, SignVariant, cache, dispVars
<1>2. ASSUME preparing' \in Job \cup {NoJob}, waiting' \subseteq Trigger, UNCHANGED pool,
             preparing' # NoJob => /\ stamped /\ SoundJob(preparing', latest)
                                   /\ JitoTipped(preparing'.signed)
      PROVE  SupplyInv'
  <2>1. SupplyTypeOK'
    BY <1>1, <1>2 DEF SupplyTypeOK
  <2>2. CacheFilled' /\ JobsSound' /\ SetsComplete'
    BY <1>1, <1>2 DEF SupplyInv, CacheFilled, JobsSound, SetsComplete
  <2> QED BY <1>1, <2>1, <2>2 DEF SupplyInv
<1>3. ASSUME preparing # NoJob
      PROVE  /\ preparing \in Job /\ stamped /\ SoundJob(preparing, latest)
             /\ JitoTipped(preparing.signed)
  BY <1>3 DEF SupplyInv, SupplyTypeOK, JobsSound
<1>4. ASSUME NEW t \in Trigger, DropPast(t) PROVE SupplyInv'
  <2>1. UNCHANGED <<preparing, pool>> /\ waiting' = waiting \ {t}
    BY <1>4 DEF DropPast
  <2> QED BY <1>1, <1>2, <1>3, <2>1 DEF SupplyTypeOK
<1>5. ASSUME NEW t \in Trigger, StartSigning(t) PROVE SupplyInv'
  <2>1. stamped /\ UNCHANGED pool /\ waiting' = waiting \ {t} /\ preparing' = NewJob(t)
    BY <1>5 DEF StartSigning
  <2>2. NewJob(t) \in Job /\ SoundJob(NewJob(t), latest) /\ JitoTipped(NewJob(t).signed)
    BY NewJobSound
  <2> QED BY <1>1, <1>2, <2>1, <2>2 DEF SupplyTypeOK
<1>6. CASE PreparerReads
  <2>1. /\ preparing # NoJob /\ ~preparing.read /\ UNCHANGED <<pool, waiting>>
        /\ preparing' = ReadHash(preparing)
    BY <1>6 DEF PreparerReads
  <2>2. inner \in 1 .. latest
    BY <1>3, <2>1 DEF SupplyInv, CacheFilled
  <2>3. /\ ReadHash(preparing) \in Job /\ SoundJob(ReadHash(preparing), latest)
        /\ ReadHash(preparing).signed = preparing.signed
    BY <1>1, <1>3, <2>1, <2>2, ReadHashSound
  <2> QED BY <1>1, <1>2, <1>3, <2>1, <2>3 DEF SupplyTypeOK
<1>7. ASSUME NEW s \in Sender, SignVariant(s) PROVE SupplyInv'
  <2> DEFINE tip == IF s \in JitoSender THEN current_tip ELSE tip_lamports[s]
             x == build(s, preparing.blockhash, tip)
  <2>1. /\ preparing # NoJob /\ preparing.read /\ s \in preparing.left
        /\ UNCHANGED <<pool, waiting>> /\ preparing' = Signed(preparing, s, tip)
    BY <1>7 DEF SignVariant
  <2>2. tip \in Nat
    BY SupplyAssumption DEF SupplyInv, SupplyTypeOK
  <2>3. x.sender = s /\ (s \in JitoSender => x.tip = current_tip)
    BY SupplyAssumption DEF build, TipAccount
  <2> HIDE DEF tip
  <2>4. /\ preparing' \in Job /\ SoundJob(preparing', latest)
        /\ preparing'.signed = preparing.signed \cup {x}
    BY <1>3, <2>1, <2>2, SignedSound
  <2> HIDE DEF x
  <2>5. JitoTipped(preparing'.signed)
    BY <1>3, <2>1, <2>3, <2>4 DEF JitoTipped, SupplyInv
  <2> QED BY <1>1, <1>2, <1>3, <2>1, <2>4, <2>5 DEF SupplyTypeOK
<1>8. CASE insert_all
  <2> DEFINE t == preparing.trigger
             v == preparing.signed
  <2>1. /\ preparing # NoJob /\ preparing.left = {} /\ preparing' = NoJob /\ UNCHANGED waiting
        /\ pool' = [pool EXCEPT ![t] = v]
    BY <1>8 DEF insert_all
  <2>2. t \in Trigger /\ v \subseteq PreSignedTx
    BY <1>3, <2>1 DEF Job
  <2>3. Complete(v, latest) /\ JitoTipped(v)
    BY <1>3, <2>1, FinishedComplete
  <2> HIDE DEF t, v
  <2>4. SupplyTypeOK'
    BY <1>1, <2>1, <2>2 DEF SupplyTypeOK
  <2>5. SetsComplete'
    BY <1>1, <2>1, <2>2, <2>3 DEF SupplyInv, SetsComplete, SupplyTypeOK
  <2>6. CacheFilled' /\ JobsSound'
    BY <1>1, <2>1 DEF SupplyInv, CacheFilled, JobsSound
  <2> QED BY <1>1, <2>4, <2>5, <2>6 DEF SupplyInv
<1> QED BY <1>4, <1>5, <1>6, <1>7, <1>8

(* The dispatcher takes the pool's variants, or builds them.               *)
LEMMA StepDispatcher ==
  ASSUME SupplyInv,
         \/ \E t \in Trigger : Fire(t)
         \/ DispatcherReads \/ SendBuilt
         \/ \E s \in Sender : BuildVariant(s)
  PROVE  SupplyInv'
<1>1. /\ SupplyTypeOK /\ UNCHANGED <<latest, inner, stamped, refresher, current_tip, waiting,
                                    preparing, running>>
  BY DEF SupplyInv, Fire, DispatcherReads, SendBuilt, BuildVariant, cache, prepVars
<1>2. ASSUME building' \in Job \cup {NoJob}, fired' \subseteq Trigger, UNCHANGED <<pool, sent>>,
             building' # NoJob => stamped /\ SoundJob(building', latest)
      PROVE  SupplyInv'
  <2>1. SupplyTypeOK'
    BY <1>1, <1>2 DEF SupplyTypeOK
  <2>2. CacheFilled' /\ JobsSound' /\ SetsComplete'
    BY <1>1, <1>2 DEF SupplyInv, CacheFilled, JobsSound, SetsComplete
  <2> QED BY <1>1, <2>1, <2>2 DEF SupplyInv
<1>3. ASSUME building # NoJob
      PROVE  building \in Job /\ stamped /\ SoundJob(building, latest)
  BY <1>3 DEF SupplyInv, SupplyTypeOK, JobsSound
<1>4. ASSUME NEW t \in Trigger, Fire(t) PROVE SupplyInv'
  <2>1. fired' \subseteq Trigger
    BY <1>1, <1>4 DEF Fire, SupplyTypeOK
  <2>2. CASE /\ sent' = [sent EXCEPT ![t] = pool[t]]
             /\ pool' = [pool EXCEPT ![t] = {}]
             /\ UNCHANGED building
    <3>1. SupplyTypeOK'
      BY <1>1, <2>1, <2>2 DEF SupplyTypeOK
    <3>2. ASSUME NEW u \in Trigger
          PROVE  /\ Complete(pool'[u], latest) /\ Complete(sent'[u], latest)
                 /\ JitoTipped(pool'[u])
      <4>1. /\ Complete(pool[u], latest) /\ Complete(sent[u], latest)
            /\ Complete(pool[t], latest) /\ JitoTipped(pool[u])
        BY DEF SupplyInv, SetsComplete
      <4>2. Complete({}, latest) /\ JitoTipped({})
        BY DEF Complete, JitoTipped
      <4>3. pool'[u] = IF u = t THEN {} ELSE pool[u]
        BY <1>1, <2>2 DEF SupplyTypeOK
      <4>4. sent'[u] = IF u = t THEN pool[t] ELSE sent[u]
        BY <1>1, <2>2 DEF SupplyTypeOK
      <4> QED BY <4>1, <4>2, <4>3, <4>4
    <3>3. SetsComplete'
      BY <1>1, <3>2 DEF SetsComplete
    <3>4. CacheFilled' /\ JobsSound'
      BY <1>1, <2>2 DEF SupplyInv, CacheFilled, JobsSound
    <3> QED BY <1>1, <3>1, <3>3, <3>4 DEF SupplyInv
  <2>3. CASE stamped /\ building' = NewJob(t) /\ UNCHANGED <<sent, pool>>
    <3>1. NewJob(t) \in Job /\ SoundJob(NewJob(t), latest)
      BY NewJobSound
    <3> QED BY <1>2, <2>1, <2>3, <3>1
  <2>4. CASE UNCHANGED <<building, sent, pool>>
    BY <1>1, <1>2, <1>3, <2>1, <2>4 DEF SupplyTypeOK
  <2> QED BY <1>4, <2>2, <2>3, <2>4 DEF Fire
<1>5. CASE DispatcherReads
  <2>1. /\ building # NoJob /\ ~building.read /\ UNCHANGED <<pool, fired, sent>>
        /\ building' = ReadHash(building)
    BY <1>5 DEF DispatcherReads
  <2>2. inner \in 1 .. latest
    BY <1>3, <2>1 DEF SupplyInv, CacheFilled
  <2>3. ReadHash(building) \in Job /\ SoundJob(ReadHash(building), latest)
    BY <1>1, <1>3, <2>1, <2>2, ReadHashSound
  <2> QED BY <1>1, <1>2, <1>3, <2>1, <2>3 DEF SupplyTypeOK
<1>6. ASSUME NEW s \in Sender, BuildVariant(s) PROVE SupplyInv'
  <2>1. /\ building # NoJob /\ building.read /\ s \in building.left
        /\ UNCHANGED <<pool, fired, sent>> /\ building' = Signed(building, s, tip_lamports[s])
    BY <1>6 DEF BuildVariant
  <2>2. tip_lamports[s] \in Nat
    BY SupplyAssumption
  <2>3. building' \in Job /\ SoundJob(building', latest)
    BY <1>3, <2>1, <2>2, SignedSound
  <2> QED BY <1>1, <1>2, <1>3, <2>1, <2>3 DEF SupplyTypeOK
<1>7. CASE SendBuilt
  <2> DEFINE t == building.trigger
             v == building.signed
  <2>1. /\ building # NoJob /\ building.left = {} /\ building' = NoJob /\ UNCHANGED <<pool, fired>>
        /\ sent' = [sent EXCEPT ![t] = v]
    BY <1>7 DEF SendBuilt
  <2>2. t \in Trigger /\ v \subseteq PreSignedTx
    BY <1>3, <2>1 DEF Job
  <2>3. Complete(v, latest)
    BY <1>3, <2>1, FinishedComplete
  <2> HIDE DEF t, v
  <2>4. SupplyTypeOK'
    BY <1>1, <2>1, <2>2 DEF SupplyTypeOK
  <2>5. SetsComplete'
    BY <1>1, <2>1, <2>2, <2>3 DEF SupplyInv, SetsComplete, SupplyTypeOK
  <2>6. CacheFilled' /\ JobsSound'
    BY <1>1, <2>1 DEF SupplyInv, CacheFilled, JobsSound
  <2> QED BY <1>1, <2>4, <2>5, <2>6 DEF SupplyInv
<1> QED BY <1>4, <1>5, <1>6, <1>7

LEMMA StepSupply == SupplyInv /\ [SupplyNext]_supplyVars => SupplyInv'
<1> SUFFICES ASSUME SupplyInv, [SupplyNext]_supplyVars PROVE SupplyInv'
  OBVIOUS
<1>1. CASE SupplyNext
  BY <1>1, StepSources, StepPreparer, StepDispatcher DEF SupplyNext
<1>2. CASE UNCHANGED supplyVars
  BY <1>2 DEF supplyVars, cache, prepVars, dispVars, SupplyInv, SupplyTypeOK, CacheFilled,
     JobsSound, SetsComplete
<1> QED BY <1>1, <1>2

(* What the invariant says of the variants.                                *)
LEMMA CompleteWellFormed == SupplyInv => VariantsWellFormed
<1> SUFFICES ASSUME SupplyInv PROVE VariantsWellFormed
  OBVIOUS
<1>1. ASSUME NEW v \in Variants, v # {}
      PROVE  /\ \E h \in 1 .. latest : \A x \in v : x.blockhash = h
             /\ {x.sender : x \in v} = Sender /\ Cardinality(v) = Cardinality(Sender)
  <2>1. Complete(v, latest)
    BY DEF SupplyInv, SetsComplete, Variants
  <2>2. PICK h \in 1 .. latest : OnePerSender(v, h, Sender)
    BY <1>1, <2>1 DEF Complete
  <2>3. Cardinality(v) = Cardinality(Sender)
    BY <2>2, OnePerSenderCount
  <2> QED BY <2>2, <2>3 DEF OnePerSender
<1>2. \A t \in Trigger : \A x \in pool[t] :
         x.sender \in JitoSender => x.tip \in tip_floor .. tip_ceiling
  BY DEF SupplyInv, SetsComplete, JitoTipped
<1> QED BY <1>1, <1>2 DEF VariantsWellFormed

(* The supply's state keeps its types, for any triggers and senders.       *)
THEOREM SupplyTypeCorrect == SupplySpec => []SupplyTypeOK
<1>1. SupplyInv => SupplyTypeOK
  BY DEF SupplyInv
<1> QED BY <1>1, InitSupply, StepSupply, PTL DEF SupplySpec

(* However the stores of the refresh thread, the tip updates and the two   *)
(* signers interleave, the variants of a trigger are one per sender with   *)
(* one blockhash of the chain, and Jito's tips keep to their range: for    *)
(* any triggers, senders, tips and answers of the tip floor API.           *)
THEOREM VariantsSound == SupplySpec => []VariantsWellFormed
BY InitSupply, StepSupply, CompleteWellFormed, PTL DEF SupplySpec

================================================================================
