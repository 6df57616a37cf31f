------------------------ MODULE AttemptRecorderProofs ------------------------
(***************************************************************************)
(* Proofs about the dispatcher, the send tasks and the recorder.           *)
(***************************************************************************)
EXTENDS AttemptRecorder, FiniteSetTheorems, TLAPS

(* A channel keeps its element type and its capacity.                      *)
LEMMA TrySendType ==
  ASSUME NEW S, NEW q \in Seq(S), Len(q) <= ChannelCapacity, NEW e \in S
  PROVE  TrySend(q, e) \in Seq(S) /\ Len(TrySend(q, e)) <= ChannelCapacity
<1>1. CASE Len(q) < ChannelCapacity
  <2>1. TrySend(q, e) = Append(q, e)
    BY <1>1 DEF TrySend
  <2> QED BY <1>1, <2>1, RecorderAssumption
<1>2. CASE ~(Len(q) < ChannelCapacity)
  BY <1>2 DEF TrySend
<1> QED BY <1>1, <1>2

LEMMA TailType ==
  ASSUME NEW S, NEW q \in Seq(S), Len(q) <= ChannelCapacity, q # <<>>
  PROVE  Head(q) \in S /\ Tail(q) \in Seq(S) /\ Len(Tail(q)) <= ChannelCapacity
BY RecorderAssumption

(* What an attempt's end does to the recorder's own state.                 *)
RecordingType ==
  attempts \subseteq Key /\ stats \in [Senders -> PerSenderStats] /\ rows \in [Key -> Seq(FinalOutcome)]

LEMMA CountType ==
  ASSUME stats \in [Senders -> PerSenderStats], NEW k \in Key,
         NEW c \in {"attempts"} \cup FinalOutcome, Count(k, c)
  PROVE  stats' \in [Senders -> PerSenderStats]
<1>1. k[2] \in Senders
  BY DEF Key
<1>2. stats[k[2]] \in [{"attempts"} \cup FinalOutcome -> Nat]
  BY <1>1 DEF PerSenderStats
<1>3. [stats[k[2]] EXCEPT ![c] = @ + 1] \in PerSenderStats
  BY <1>2 DEF PerSenderStats
<1>4. stats' = [stats EXCEPT ![k[2]] = [stats[k[2]] EXCEPT ![c] = @ + 1]]
  BY DEF Count
<1> QED BY <1>3, <1>4

LEMMA FinishType ==
  ASSUME RecordingType, NEW k \in Key, NEW o \in FinalOutcome, Finish(k, o)
  PROVE  RecordingType'
<1>1. stats' \in [Senders -> PerSenderStats]
  BY CountType DEF Finish, RecordingType
<1>2. rows' \in [Key -> Seq(FinalOutcome)]
  BY DEF Finish, RecordingType
<1> QED BY <1>1, <1>2 DEF Finish, RecordingType

(* Counting what has gone needs its set to be finite.                      *)
LEMMA FinishAllType ==
  ASSUME RecordingType, NEW gone \in SUBSET attempts, IsFiniteSet(attempts), FinishAll(gone)
  PROVE  RecordingType' /\ IsFiniteSet(attempts')
<1>1. IsFiniteSet(attempts')
  BY FS_Subset DEF FinishAll
<1>2. \A s \in Senders : Cardinality({k \in gone : k[2] = s}) \in Nat
  <2> TAKE s \in Senders
  <2>1. IsFiniteSet({k \in gone : k[2] = s})
    BY FS_Subset
  <2> QED BY <2>1, FS_CardinalityType
<1>3. stats' \in [Senders -> PerSenderStats]
  <2>1. ASSUME NEW s \in Senders
        PROVE  [stats[s] EXCEPT !["UnknownPending"] = @ + Cardinality({k \in gone : k[2] = s})]
                 \in PerSenderStats
    <3> DEFINE n == Cardinality({k \in gone : k[2] = s})
    <3>1. n \in Nat
      BY <1>2
    <3>2. stats[s] \in [{"attempts"} \cup FinalOutcome -> Nat]
      BY DEF RecordingType, PerSenderStats
    <3> HIDE DEF n
    <3>3. [stats[s] EXCEPT !["UnknownPending"] = @ + n] \in PerSenderStats
      BY <3>1, <3>2 DEF PerSenderStats, FinalOutcome
    <3> QED BY <3>3 DEF n
  <2> QED BY <2>1 DEF FinishAll
<1>4. rows' \in [Key -> Seq(FinalOutcome)]
  BY DEF FinishAll, RecordingType, FinalOutcome
<1> QED BY <1>1, <1>3, <1>4 DEF FinishAll, RecordingType

Typed == TypeOK /\ IsFiniteSet(attempts)

LEMMA InitType == Init => Typed
<1> SUFFICES ASSUME Init PROVE Typed
  OBVIOUS
<1>1. IsFiniteSet(attempts)
  BY FS_EmptySet DEF Init
<1>2. stats \in [Senders -> PerSenderStats]
  BY DEF Init, PerSenderStats
<1>3. \A S : <<>> \in Seq(S) /\ Len(<<>>) <= ChannelCapacity
  BY RecorderAssumption
<1>4. rows \in [Key -> Seq(FinalOutcome)]
  BY DEF Init
<1>5. sightings \in [Key -> 0 .. MaxSightings] /\ matches \in [Key -> Nat]
  BY RecorderAssumption DEF Init
<1> QED BY <1>1, <1>2, <1>3, <1>4, <1>5 DEF Init, Typed, TypeOK

LEMMA StepType == Typed /\ [Next]_vars => Typed'
<1> SUFFICES ASSUME Typed, [Next]_vars PROVE Typed'
  OBVIOUS
<1>0. TypeOK /\ IsFiniteSet(attempts) /\ RecordingType
  BY DEF Typed, TypeOK, RecordingType
<1>1. ASSUME NEW t \in Triggers, Fire(t) PROVE Typed'
  <2>1. trigger_rx' \in Seq(Triggers) /\ Len(trigger_rx') <= ChannelCapacity
    BY <1>0, <1>1, TrySendType DEF Fire, TypeOK
  <2> QED BY <1>0, <1>1, <2>1 DEF Fire, Typed, TypeOK, recording
<1>2. ASSUME TakeTrigger PROVE Typed'
  <2>1. trigger_rx' \in Seq(Triggers) /\ Len(trigger_rx') <= ChannelCapacity /\ Head(trigger_rx) \in Triggers
    BY <1>0, <1>2, TailType DEF TakeTrigger, TypeOK
  <2>2. current' = NoTrigger \/ current' \in [trigger : Triggers, left : SUBSET Senders]
    BY <1>0, <1>2, <2>1 DEF TakeTrigger, TypeOK
  <2> QED BY <1>0, <1>2, <2>1, <2>2 DEF TakeTrigger, Typed, TypeOK, recording
<1>3. ASSUME (\E s \in Senders : WaitFor(s)) \/ Announce \/ Spawn PROVE Typed'
  <2>1. CASE \E s \in Senders : WaitFor(s)
    <3>1. PICK s \in Senders : WaitFor(s)
      BY <2>1
    <3>2. current \in [trigger : Triggers, left : SUBSET Senders]
      BY <1>0, <3>1 DEF WaitFor, TypeOK, NoTrigger
    <3>3. <<current.trigger, s>> \in Key
      BY <3>2 DEF Key
    <3>4. /\ current' \in [trigger : Triggers, left : SUBSET Senders]
          /\ variant' \in [sender : Senders, step : {"announce", "spawn"}]
          /\ pending_sigs' \subseteq Key
      BY <1>0, <3>1, <3>2, <3>3 DEF WaitFor, TypeOK
    <3> QED BY <1>0, <3>1, <3>4 DEF WaitFor, Typed, TypeOK, recording
  <2>2. CASE Announce
    <3>1. <<current.trigger, variant.sender>> \in Key /\ variant'.sender = variant.sender
      BY <1>0, <2>2 DEF Announce, TypeOK, NoVariant, Key
    <3>2. register_rx' \in Seq(Key) /\ Len(register_rx') <= ChannelCapacity
      BY <1>0, <2>2, <3>1, TrySendType DEF Announce, TypeOK
    <3>3. /\ current' \in [trigger : Triggers, left : SUBSET Senders]
          /\ variant' \in [sender : Senders, step : {"announce", "spawn"}]
      <4>1. /\ current \in [trigger : Triggers, left : SUBSET Senders]
            /\ variant \in [sender : Senders, step : {"announce", "spawn"}]
        BY <1>0, <2>2 DEF Announce, TypeOK, NoVariant
      <4>2. current' = current /\ variant' = [variant EXCEPT !.step = "spawn"]
        BY <2>2 DEF Announce
      <4> QED BY <4>1, <4>2
    <3> QED BY <1>0, <2>2, <3>2, <3>3 DEF Announce, Typed, TypeOK, recording
  <2>3. CASE Spawn
    <3>1. <<current.trigger, variant.sender>> \in Key
      BY <1>0, <2>3 DEF Spawn, TypeOK, NoVariant, Key
    <3>2. task' \in [Key -> {"none", "sending", "done"}]
      BY <1>0, <2>3, <3>1 DEF Spawn, TypeOK
    <3> QED BY <1>0, <2>3, <3>2 DEF Spawn, Typed, TypeOK, recording
  <2> QED BY <1>3, <2>1, <2>2, <2>3
<1>4. ASSUME NEW k \in Key, Transmit(k) PROVE Typed'
  BY <1>0, <1>4 DEF Transmit, Typed, TypeOK, recording, dispatching
<1>5. ASSUME NEW k \in Key, Land(k) PROVE Typed'
  BY <1>0, <1>5 DEF Land, Typed, TypeOK, recording, dispatching
<1>6. ASSUME NEW k \in Key, Observe(k) PROVE Typed'
  <2>1. match_rx' \in Seq(Key) /\ Len(match_rx') <= ChannelCapacity
    BY <1>0, <1>6, TrySendType DEF Observe, TypeOK
  <2>2. sightings' \in [Key -> 0 .. MaxSightings]
    BY <1>0, <1>6, RecorderAssumption DEF Observe, TypeOK
  <2>3. matches' \in [Key -> Nat]
    <3>1. matches \in [Key -> Nat]
      BY <1>0 DEF TypeOK
    <3>2. matches' = [matches EXCEPT ![k] = @ + 1] \/ matches' = matches
      BY <1>6 DEF Observe
    <3> QED BY <3>1, <3>2
  <2>4. pending_sigs' \subseteq Key
    BY <1>0, <1>6 DEF Observe, TypeOK
  <2>5. UNCHANGED <<pool, fired, trigger_rx, current, variant, task, wire, register_rx, send_rx, attempts,
                    stats, rows, running>>
    BY <1>6 DEF Observe, recording, dispatching
  <2> QED BY <1>0, <2>1, <2>2, <2>3, <2>4, <2>5 DEF Typed, TypeOK
<1>7. ASSUME NEW k \in Key, NEW error \in BOOLEAN, SendReturns(k, error) PROVE Typed'
  <2>1. [key |-> k, error |-> error] \in SendEvent
    BY DEF SendEvent
  <2>2. send_rx' \in Seq(SendEvent) /\ Len(send_rx') <= ChannelCapacity
    BY <1>0, <1>7, <2>1, TrySendType DEF SendReturns, TypeOK
  <2> QED BY <1>0, <1>7, <2>2 DEF SendReturns, Typed, TypeOK, recording, dispatching
<1>8. ASSUME HandleRegister PROVE Typed'
  <2>1. register_rx' \in Seq(Key) /\ Len(register_rx') <= ChannelCapacity /\ Head(register_rx) \in Key
    BY <1>0, <1>8, TailType DEF HandleRegister, TypeOK
  <2>2. stats' \in [Senders -> PerSenderStats]
    BY <1>0, <1>8, <2>1, CountType DEF HandleRegister, RecordingType
  <2>3. IsFiniteSet(attempts') /\ attempts' \subseteq Key
    BY <1>0, <1>8, <2>1, FS_AddElement DEF HandleRegister, RecordingType
  <2> QED BY <1>0, <1>8, <2>1, <2>2, <2>3 DEF HandleRegister, Typed, TypeOK, dispatching
<1>9. ASSUME HandleSend PROVE Typed'
  <2>1. send_rx' \in Seq(SendEvent) /\ Len(send_rx') <= ChannelCapacity /\ Head(send_rx) \in SendEvent
    BY <1>0, <1>9, TailType DEF HandleSend, TypeOK
  <2>2. RecordingType' /\ IsFiniteSet(attempts')
    <3>1. CASE Finish(Head(send_rx).key, "SendError")
      <4>1. RecordingType'
        BY <1>0, <2>1, <3>1, FinishType DEF SendEvent, FinalOutcome
      <4> QED BY <1>0, <3>1, <4>1, FS_Subset DEF Finish
    <3>2. CASE UNCHANGED recording
      BY <1>0, <3>2 DEF recording, RecordingType
    <3> QED BY <1>9, <3>1, <3>2 DEF HandleSend
  <2> QED BY <1>0, <1>9, <2>1, <2>2 DEF HandleSend, Typed, TypeOK, dispatching, RecordingType
<1>10. ASSUME HandleMatch PROVE Typed'
  <2>1. match_rx' \in Seq(Key) /\ Len(match_rx') <= ChannelCapacity /\ Head(match_rx) \in Key
    BY <1>0, <1>10, TailType DEF HandleMatch, TypeOK
  <2>2. RecordingType' /\ IsFiniteSet(attempts')
    <3>1. CASE Finish(Head(match_rx), "Landed")
      <4>1. RecordingType'
        BY <1>0, <2>1, <3>1, FinishType DEF FinalOutcome
      <4> QED BY <1>0, <3>1, <4>1, FS_Subset DEF Finish
    <3>2. CASE UNCHANGED recording
      BY <1>0, <3>2 DEF recording, RecordingType
    <3> QED BY <1>10, <3>1, <3>2 DEF HandleMatch
  <2> QED BY <1>0, <1>10, <2>1, <2>2 DEF HandleMatch, Typed, TypeOK, dispatching, RecordingType
<1>11. ASSUME SweepDeadlines PROVE Typed'
  <2>1. PICK late \in SUBSET Triggers : FinishAll(AttemptsOf(late))
    BY <1>11 DEF SweepDeadlines
  <2> DEFINE gone == AttemptsOf(late)
  <2>2. gone \in SUBSET attempts
    BY DEF AttemptsOf
  <2>3. RecordingType' /\ IsFiniteSet(attempts')
    BY <1>0, <2>1, <2>2, FinishAllType
  <2> QED BY <1>0, <1>11, <2>3 DEF SweepDeadlines, Typed, TypeOK, dispatching, RecordingType
<1>12. ASSUME Stop PROVE Typed'
  <2>1. RecordingType' /\ IsFiniteSet(attempts')
    BY <1>0, <1>12, FinishAllType DEF Stop
  <2> QED BY <1>0, <1>12, <2>1 DEF Stop, Typed, TypeOK, dispatching, RecordingType
<1>13. ASSUME UNCHANGED vars PROVE Typed'
  BY <1>13 DEF vars, Typed, TypeOK
<1> QED
  BY <1>1, <1>2, <1>3, <1>4, <1>5, <1>6, <1>7, <1>8, <1>9, <1>10, <1>11, <1>12, <1>13 DEF Next

(* Every variable of the dispatcher, the tasks and the recorder keeps its  *)
(* type, and each of the four channels its capacity.                       *)
THEOREM TypeCorrect == Spec => []TypeOK
<1>1. Typed => TypeOK
  BY DEF Typed
<1> QED BY InitType, StepType, <1>1, PTL DEF Spec

-----------------------------------------------------------------------------
(* A key is dispatched once, because its trigger is fired once and is in   *)
(* one place: the channel, or the dispatcher's hands with some senders     *)
(* left.  From the time the dispatcher is at its variant the key is        *)
(* announced once, in the channel, open, or ended.                         *)
Distinct(q) == \A i, j \in 1 .. Len(q) : i # j => q[i] # q[j]

Has(q, x) == \E i \in 1 .. Len(q) : q[i] = x

TriggersOnce ==
  /\ Distinct(trigger_rx)
  /\ \A t \in Triggers : Has(trigger_rx, t) => t \in fired
  /\ current # NoTrigger =>
       current.trigger \in fired /\ ~Has(trigger_rx, current.trigger)

Reached(k) ==
  /\ k[1] \in fired /\ ~Has(trigger_rx, k[1])
  /\ current # NoTrigger /\ current.trigger = k[1] => k[2] \notin current.left

InHand(k) ==
  variant.step # "none" /\ current.trigger = k[1] /\ variant.sender = k[2]

Begun(k) == task[k] # "none" \/ InHand(k)

Unannounced(k) == ~Has(register_rx, k) /\ k \notin attempts /\ rows[k] = <<>>

KeyOnce(k) ==
  /\ Begun(k) => Reached(k)
  /\ ~Begun(k) => Unannounced(k) /\ k \notin pending_sigs /\ matches[k] = 0
  /\ InHand(k) /\ variant.step = "announce" => Unannounced(k)
  /\ Has(register_rx, k) => k \notin attempts /\ rows[k] = <<>>
  /\ k \in attempts => rows[k] = <<>>
  /\ k \in pending_sigs => matches[k] = 0

LedgerInv ==
  /\ TriggersOnce
  /\ Distinct(register_rx)
  /\ \A k \in Key : KeyOnce(k)
  /\ ~running => attempts = {}

(* A message is added to a channel behind the others, or lost.             *)
LEMMA TrySendOnce ==
  ASSUME NEW S, NEW q \in Seq(S), NEW e \in S
  PROVE  /\ \A x : Has(TrySend(q, e), x) => Has(q, x) \/ x = e
         /\ Distinct(q) /\ ~Has(q, e) => Distinct(TrySend(q, e))
<1>1. CASE Len(q) < ChannelCapacity
  <2>1. TrySend(q, e) = Append(q, e)
    BY <1>1 DEF TrySend
  <2>2. /\ Len(Append(q, e)) = Len(q) + 1
        /\ \A i \in 1 .. Len(q) : Append(q, e)[i] = q[i]
        /\ Append(q, e)[Len(q) + 1] = e
    OBVIOUS
  <2>3. \A i \in 1 .. Len(q) + 1 : i \in 1 .. Len(q) \/ i = Len(q) + 1
    OBVIOUS
  <2> QED BY <2>1, <2>2, <2>3 DEF Has, Distinct
<1>2. CASE ~(Len(q) < ChannelCapacity)
  BY <1>2 DEF TrySend
<1> QED BY <1>1, <1>2

(* Reading a channel leaves the messages behind the first.                 *)
LEMMA TailOnce ==
  ASSUME NEW S, NEW q \in Seq(S), q # <<>>
  PROVE  /\ Has(q, Head(q))
         /\ \A x : Has(Tail(q), x) => Has(q, x)
         /\ Distinct(q) => Distinct(Tail(q)) /\ ~Has(Tail(q), Head(q))
<1>1. /\ Len(Tail(q)) = Len(q) - 1 /\ Len(q) \in Nat \ {0}
      /\ \A i \in 1 .. Len(q) - 1 : Tail(q)[i] = q[i + 1]
      /\ Head(q) = q[1]
  OBVIOUS
<1>2. \A i \in 1 .. Len(q) - 1 : i + 1 \in 1 .. Len(q) /\ i + 1 # 1
  BY <1>1
<1>3. 1 \in 1 .. Len(q)
  BY <1>1
<1>4. \A i, j \in 1 .. Len(q) - 1 : i # j => i + 1 # j + 1
  BY <1>1
<1> QED BY <1>1, <1>2, <1>3, <1>4 DEF Has, Distinct

LEMMA InitLedger == Init => LedgerInv
<1> SUFFICES ASSUME Init PROVE LedgerInv
  OBVIOUS
<1>1. \A x : ~Has(<<>>, x)
  BY DEF Has
<1>2. Distinct(<<>>)
  BY DEF Distinct
<1>3. \A k \in Key : KeyOnce(k)
  BY <1>1 DEF Init, KeyOnce, Begun, InHand, Unannounced, NoVariant
<1>4. TriggersOnce
  BY <1>1, <1>2 DEF Init, TriggersOnce
<1> QED BY <1>2, <1>3, <1>4 DEF Init, LedgerInv

LEMMA StepLedger == Typed /\ LedgerInv /\ [Next]_vars => LedgerInv'
<1> SUFFICES ASSUME Typed, LedgerInv, [Next]_vars PROVE LedgerInv'
  OBVIOUS
<1>0. /\ TypeOK /\ TriggersOnce /\ Distinct(register_rx) /\ (~running => attempts = {})
      /\ \A k \in Key : KeyOnce(k)
  BY DEF Typed, LedgerInv
<1>1. ASSUME NEW t \in Triggers, Fire(t) PROVE LedgerInv'
  <2>1. /\ \A x : Has(trigger_rx', x) => Has(trigger_rx, x) \/ x = t
        /\ Distinct(trigger_rx) /\ ~Has(trigger_rx, t) => Distinct(trigger_rx')
    BY <1>0, <1>1, TrySendOnce DEF Fire, TypeOK
  <2>2. ~Has(trigger_rx, t) /\ t \notin fired /\ fired' = fired \cup {t} /\ current' = current
    BY <1>0, <1>1 DEF Fire, TriggersOnce
  <2>3. TriggersOnce'
    BY <1>0, <2>1, <2>2 DEF TriggersOnce
  <2>4. ASSUME NEW k \in Key PROVE KeyOnce(k)'
    <3>1. KeyOnce(k)
      BY <1>0
    <3>2. Reached(k) => Reached(k)'
      BY <2>1, <2>2 DEF Reached
    <3>3. UNCHANGED <<task, variant, current, register_rx, attempts, rows, pending_sigs, matches>>
      BY <1>1 DEF Fire, recording
    <3> QED BY <3>1, <3>2, <3>3 DEF KeyOnce, Begun, InHand, Unannounced
  <2> QED BY <1>0, <1>1, <2>3, <2>4 DEF LedgerInv, Fire, recording
<1>2. ASSUME TakeTrigger PROVE LedgerInv'
  <2> DEFINE t == Head(trigger_rx)
  <2>1. /\ Has(trigger_rx, t)
        /\ \A x : Has(trigger_rx', x) => Has(trigger_rx, x)
        /\ Distinct(trigger_rx') /\ ~Has(trigger_rx', t) /\ t \in Triggers
    BY <1>0, <1>2, TailOnce DEF TakeTrigger, TypeOK, TriggersOnce
  <2>2. /\ current' = [trigger |-> t, left |-> Senders] \/ current' = current
        /\ current = NoTrigger /\ fired' = fired
    BY <1>2 DEF TakeTrigger
  <2> HIDE DEF t
  <2>3. TriggersOnce'
    BY <1>0, <2>1, <2>2 DEF TriggersOnce
  <2>4. ASSUME NEW k \in Key PROVE KeyOnce(k)'
    <3>1. KeyOnce(k)
      BY <1>0
    <3>2. Reached(k) => Reached(k)'
      BY <2>1, <2>2 DEF Reached
    <3>3. /\ UNCHANGED <<task, register_rx, attempts, rows, pending_sigs, matches>>
          /\ variant.step = "none" /\ variant'.step = "none"
      BY <1>2 DEF TakeTrigger, recording, NoVariant
    <3> QED BY <3>1, <3>2, <3>3 DEF KeyOnce, Begun, InHand, Unannounced
  <2> QED BY <1>0, <1>2, <2>3, <2>4 DEF LedgerInv, TakeTrigger, recording
<1>3. ASSUME (\E s \in Senders : WaitFor(s)) \/ Announce \/ Spawn PROVE LedgerInv'
  <2>1. CASE \E s \in Senders : WaitFor(s)
    <3>1. PICK s \in Senders : WaitFor(s)
      BY <2>1
    <3> DEFINE k0 == <<current.trigger, s>>
    <3>2. /\ current # NoTrigger /\ current \in [trigger : Triggers, left : SUBSET Senders]
          /\ s \in current.left /\ variant.step = "none"
      BY <1>0, <3>1 DEF WaitFor, TypeOK, NoTrigger, NoVariant
    <3>3. k0 \in Key /\ k0[1] = current.trigger /\ k0[2] = s
      BY <3>2 DEF Key
    <3>4. ~Begun(k0) /\ Unannounced(k0) /\ k0 \notin pending_sigs /\ matches[k0] = 0
      BY <1>0, <3>2, <3>3 DEF KeyOnce, Reached
    <3>5. /\ current'.trigger = current.trigger /\ current'.left = current.left \ {s}
          /\ variant'.step = "announce" /\ variant'.sender = s
          /\ pending_sigs' = pending_sigs \cup {k0}
          /\ UNCHANGED <<fired, trigger_rx, task, register_rx, attempts, rows, matches, running>>
      BY <3>1, <3>2 DEF WaitFor, recording
    <3>6. TriggersOnce'
      BY <1>0, <3>2, <3>5 DEF TriggersOnce
    <3>7. ASSUME NEW k \in Key PROVE KeyOnce(k)'
      <4>1. KeyOnce(k)
        BY <1>0
      <4>2. Reached(k) => Reached(k)'
        BY <3>2, <3>5 DEF Reached
      <4>3. CASE k = k0
        <5>1. Reached(k)'
          BY <1>0, <3>2, <3>3, <3>5, <4>3 DEF Reached, TriggersOnce
        <5>2. Begun(k)'
          BY <3>3, <3>5, <4>3 DEF Begun, InHand
        <5>3. Unannounced(k)'
          BY <3>4, <3>5, <4>3 DEF Unannounced
        <5> QED BY <3>4, <3>5, <4>3, <5>1, <5>2, <5>3 DEF KeyOnce, Unannounced
      <4>4. CASE k # k0
        <5>1. ~InHand(k) /\ ~InHand(k)'
          <6>1. k = <<k[1], k[2]>>
            BY DEF Key
          <6> QED BY <3>2, <3>3, <3>5, <4>4, <6>1 DEF InHand
        <5>2. Begun(k)' <=> Begun(k)
          BY <3>5, <5>1 DEF Begun
        <5>3. k \in pending_sigs' <=> k \in pending_sigs
          BY <3>5, <4>4
        <5>4. Unannounced(k)' <=> Unannounced(k)
          BY <3>5 DEF Unannounced
        <5> QED BY <3>5, <4>1, <4>2, <5>1, <5>2, <5>3, <5>4 DEF KeyOnce
      <4> QED BY <4>3, <4>4
    <3> QED BY <1>0, <3>5, <3>6, <3>7 DEF LedgerInv
  <2>2. CASE Announce
    <3> DEFINE k0 == <<current.trigger, variant.sender>>
    <3>1. k0 \in Key /\ k0[1] = current.trigger /\ k0[2] = variant.sender
      BY <1>0, <2>2 DEF Announce, TypeOK, NoVariant, Key
    <3>2. InHand(k0) /\ variant.step = "announce"
      BY <2>2, <3>1 DEF Announce, InHand
    <3>3. Unannounced(k0) /\ Begun(k0)
      BY <1>0, <3>1, <3>2 DEF KeyOnce, Begun
    <3>4. /\ variant'.step = "spawn" /\ variant'.sender = variant.sender
          /\ UNCHANGED <<fired, trigger_rx, current, task, pending_sigs, attempts, rows, matches,
                         running>>
      BY <1>0, <2>2 DEF Announce, TypeOK, NoVariant, recording
    <3> HIDE DEF k0
    <3>5. /\ \A x : Has(register_rx', x) => Has(register_rx, x) \/ x = k0
          /\ Distinct(register_rx')
      BY <1>0, <2>2, <3>1, <3>3, TrySendOnce DEF Announce, TypeOK, Unannounced, k0
    <3>6. ASSUME NEW k \in Key PROVE KeyOnce(k)'
      <4>1. KeyOnce(k)
        BY <1>0
      <4>2. (Reached(k)' <=> Reached(k)) /\ (Begun(k)' <=> Begun(k))
        BY <3>2, <3>4 DEF Reached, Begun, InHand
      <4>3. CASE k = k0
        BY <3>3, <3>4, <4>1, <4>2, <4>3 DEF KeyOnce, Unannounced
      <4>4. CASE k # k0
        <5>1. Has(register_rx', k) => Has(register_rx, k)
          BY <3>5, <4>4
        <5>2. Unannounced(k) => Unannounced(k)'
          BY <3>4, <5>1 DEF Unannounced
        <5> QED BY <3>4, <4>1, <4>2, <5>1, <5>2 DEF KeyOnce
      <4> QED BY <4>3, <4>4
    <3>7. TriggersOnce'
      BY <1>0, <3>4 DEF TriggersOnce
    <3> QED BY <1>0, <3>4, <3>5, <3>6, <3>7 DEF LedgerInv
  <2>3. CASE Spawn
    <3> DEFINE k0 == <<current.trigger, variant.sender>>
    <3>1. k0 \in Key /\ k0[1] = current.trigger /\ k0[2] = variant.sender
      BY <1>0, <2>3 DEF Spawn, TypeOK, NoVariant, Key
    <3>2. InHand(k0) /\ variant.step = "spawn"
      BY <2>3, <3>1 DEF Spawn, InHand
    <3>3. /\ variant'.step = "none" /\ (current' = NoTrigger \/ current' = current)
          /\ task' = [task EXCEPT ![k0] = "sending"] /\ task \in [Key -> {"none", "sending", "done"}]
          /\ UNCHANGED <<fired, trigger_rx, register_rx, pending_sigs, attempts, rows, matches, running>>
      BY <1>0, <2>3 DEF Spawn, TypeOK, NoVariant, recording
    <3> HIDE DEF k0
    <3>4. ASSUME NEW k \in Key PROVE KeyOnce(k)'
      <4>1. KeyOnce(k) /\ k = <<k[1], k[2]>>
        BY <1>0 DEF Key
      <4>2. Reached(k) => Reached(k)'
        BY <3>3 DEF Reached
      <4>3. Begun(k)' <=> Begun(k)
        <5>1. CASE k = k0
          BY <3>1, <3>2, <3>3, <5>1 DEF Begun
        <5>2. CASE k # k0
          <6>1. ~InHand(k) /\ ~InHand(k)'
            BY <3>3, <4>1, <5>2 DEF InHand, k0
          <6> QED BY <3>3, <5>2, <6>1 DEF Begun
        <5> QED BY <5>1, <5>2
      <4>4. (Unannounced(k)' <=> Unannounced(k)) /\ ~InHand(k)'
        BY <3>3 DEF Unannounced, InHand
      <4> QED BY <3>3, <4>1, <4>2, <4>3, <4>4 DEF KeyOnce
    <3>5. TriggersOnce'
      BY <1>0, <3>3 DEF TriggersOnce
    <3> QED BY <1>0, <3>3, <3>4, <3>5 DEF LedgerInv
  <2> QED BY <1>3, <2>1, <2>2, <2>3
<1>4. ASSUME NEW k \in Key, Transmit(k) \/ Land(k) PROVE LedgerInv'
  <2>1. UNCHANGED <<dispatching, task, register_rx, recording, pending_sigs, matches, running>>
    BY <1>4 DEF Transmit, Land
  <2> QED BY <1>0, <2>1 DEF LedgerInv, TriggersOnce, KeyOnce, Reached, Begun, InHand, Unannounced,
          dispatching, recording
<1>5. ASSUME NEW j \in Key, Observe(j) PROVE LedgerInv'
  <2>1. /\ UNCHANGED <<dispatching, task, register_rx, recording, running>>
        /\ pending_sigs' = pending_sigs \ {j}
        /\ IF j \in pending_sigs THEN matches' = [matches EXCEPT ![j] = @ + 1] ELSE matches' = matches
        /\ matches \in [Key -> Nat]
    BY <1>0, <1>5 DEF Observe, TypeOK
  <2>2. ASSUME NEW k \in Key PROVE KeyOnce(k)'
    <3>1. KeyOnce(k)
      BY <1>0
    <3>2. Reached(k) => Reached(k)'
      BY <2>1 DEF Reached, dispatching
    <3>3. (k # j \/ j \notin pending_sigs) => matches'[k] = matches[k]
      BY <2>1
    <3>4. k \in pending_sigs' => k \in pending_sigs /\ k # j
      BY <2>1
    <3>5. UNCHANGED <<task, current, variant, register_rx, attempts, rows>>
      BY <2>1 DEF recording, dispatching
    <3>6. (Begun(k)' <=> Begun(k)) /\ (InHand(k)' <=> InHand(k)) /\ (Unannounced(k)' <=> Unannounced(k))
      BY <3>5 DEF Begun, InHand, Unannounced
    <3> QED BY <3>1, <3>2, <3>3, <3>4, <3>5, <3>6 DEF KeyOnce
  <2> QED BY <1>0, <2>1, <2>2 DEF LedgerInv, TriggersOnce, dispatching, recording
<1>6. ASSUME NEW k \in Key, NEW error \in BOOLEAN, SendReturns(k, error) PROVE LedgerInv'
  <2>1. /\ UNCHANGED <<dispatching, register_rx, recording, pending_sigs, matches, running>>
        /\ \A x \in Key : task'[x] = "none" <=> task[x] = "none"
    BY <1>0, <1>6 DEF SendReturns, TypeOK
  <2> QED BY <1>0, <2>1 DEF LedgerInv, TriggersOnce, KeyOnce, Reached, Begun, InHand, Unannounced,
          dispatching, recording
<1>7. ASSUME HandleRegister PROVE LedgerInv'
  <2> DEFINE k0 == Head(register_rx)
  <2>1. /\ Has(register_rx, k0)
        /\ \A x : Has(register_rx', x) => Has(register_rx, x)
        /\ Distinct(register_rx') /\ ~Has(register_rx', k0) /\ k0 \in Key
    BY <1>0, <1>7, TailOnce DEF HandleRegister, TypeOK
  <2>2. /\ UNCHANGED <<dispatching, task, rows, pending_sigs, matches, running>>
        /\ attempts' = attempts \cup {k0} /\ running
    BY <1>7 DEF HandleRegister
  <2> HIDE DEF k0
  <2>3. ASSUME NEW k \in Key PROVE KeyOnce(k)'
    <3>1. KeyOnce(k)
      BY <1>0
    <3>2. Reached(k) => Reached(k)'
      BY <2>2 DEF Reached, dispatching
    <3>3. UNCHANGED <<task, current, variant>>
      BY <2>2 DEF dispatching
    <3> QED BY <2>1, <2>2, <3>1, <3>2, <3>3 DEF KeyOnce, Begun, InHand, Unannounced
  <2> QED BY <1>0, <2>1, <2>2, <2>3 DEF LedgerInv, TriggersOnce, dispatching
<1>8. ASSUME NEW gone \in SUBSET attempts, attempts' = attempts \ gone,
             \A k \in Key : k \notin gone => rows'[k] = rows[k],
             UNCHANGED <<dispatching, task, register_rx, pending_sigs, matches>>,
             ~running' => attempts' = {}
      PROVE  LedgerInv'
  <2>1. ASSUME NEW k \in Key PROVE KeyOnce(k)'
    <3>1. KeyOnce(k)
      BY <1>0
    <3>2. Reached(k) => Reached(k)'
      BY <1>8 DEF Reached, dispatching
    <3>3. (Begun(k)' <=> Begun(k)) /\ (InHand(k)' <=> InHand(k)) /\ variant' = variant
      BY <1>8 DEF Begun, InHand, dispatching
    <3>4. CASE k \in gone
      BY <1>8, <3>1, <3>2, <3>3, <3>4 DEF KeyOnce, Unannounced
    <3>5. CASE k \notin gone
      BY <1>8, <3>1, <3>2, <3>3, <3>5 DEF KeyOnce, Unannounced
    <3> QED BY <3>4, <3>5
  <2> QED BY <1>0, <1>8, <2>1 DEF LedgerInv, TriggersOnce, dispatching
<1>9. ASSUME NEW k \in Key, NEW o, k \in attempts, Finish(k, o), running' = running,
             UNCHANGED <<dispatching, task, register_rx, pending_sigs, matches>>
      PROVE  LedgerInv'
  <2>1. attempts' = attempts \ {k} /\ \A x \in Key : x \notin {k} => rows'[x] = rows[x]
    BY <1>0, <1>9 DEF Finish, TypeOK
  <2> QED BY <1>0, <1>8, <1>9, <2>1
<1>10. ASSUME NEW gone \in SUBSET attempts, FinishAll(gone), running' = running \/ gone = attempts,
              UNCHANGED <<dispatching, task, register_rx, pending_sigs, matches>>
       PROVE  LedgerInv'
  <2>1. attempts' = attempts \ gone /\ \A x \in Key : x \notin gone => rows'[x] = rows[x]
    BY <1>0, <1>10 DEF FinishAll, TypeOK
  <2> QED BY <1>0, <1>8, <1>10, <2>1
<1>11. ASSUME UNCHANGED <<dispatching, task, register_rx, pending_sigs, matches, recording, running>>
       PROVE  LedgerInv'
  BY <1>0, <1>11 DEF LedgerInv, TriggersOnce, KeyOnce, Reached, Begun, InHand, Unannounced,
          dispatching, recording
<1>12. ASSUME HandleSend PROVE LedgerInv'
  <2>1. Head(send_rx) \in SendEvent
    BY <1>0, <1>12, TailType DEF HandleSend, TypeOK
  <2>2. Head(send_rx).key \in Key
    BY <2>1 DEF SendEvent
  <2>3. UNCHANGED <<dispatching, task, register_rx, pending_sigs, matches, running>>
    BY <1>12 DEF HandleSend
  <2>4. \/ Head(send_rx).key \in attempts /\ Finish(Head(send_rx).key, "SendError")
        \/ UNCHANGED recording
    BY <1>12 DEF HandleSend
  <2> QED BY <1>9, <1>11, <2>2, <2>3, <2>4
<1>13. ASSUME HandleMatch PROVE LedgerInv'
  <2>1. Head(match_rx) \in Key
    BY <1>0, <1>13, TailType DEF HandleMatch, TypeOK
  <2>2. UNCHANGED <<dispatching, task, register_rx, pending_sigs, matches, running>>
    BY <1>13 DEF HandleMatch
  <2>3. \/ Head(match_rx) \in attempts /\ Finish(Head(match_rx), "Landed")
        \/ UNCHANGED recording
    BY <1>13 DEF HandleMatch
  <2> QED BY <1>9, <1>11, <2>1, <2>2, <2>3
<1>14. ASSUME SweepDeadlines PROVE LedgerInv'
  <2>1. PICK late \in SUBSET Triggers : FinishAll(AttemptsOf(late))
    BY <1>14 DEF SweepDeadlines
  <2> DEFINE gone == AttemptsOf(late)
  <2>2. gone \in SUBSET attempts
    BY DEF AttemptsOf
  <2>3. UNCHANGED <<dispatching, task, register_rx, pending_sigs, matches, running>>
    BY <1>14 DEF SweepDeadlines
  <2> QED BY <1>10, <2>1, <2>2, <2>3
<1>15. ASSUME Stop PROVE LedgerInv'
  BY <1>10, <1>15 DEF Stop
<1>16. ASSUME UNCHANGED vars PROVE LedgerInv'
  BY <1>11, <1>16 DEF vars, dispatching, recording
<1> QED
  BY <1>1, <1>2, <1>3, <1>4, <1>5, <1>6, <1>7, <1>12, <1>13, <1>14, <1>15, <1>16 DEF Next

(* The invariant the refinement and the summary rest on.                   *)
LEMMA LedgerInvariant == Spec => [](Typed /\ LedgerInv)
<1>1. Init => Typed /\ LedgerInv
  BY InitType, InitLedger
<1>2. Typed /\ LedgerInv /\ [Next]_vars => (Typed /\ LedgerInv)'
  BY StepType, StepLedger
<1> QED BY <1>1, <1>2, PTL DEF Spec

-----------------------------------------------------------------------------
(* Attempts that end with an outcome are an End step of the ledger.        *)
LEMMA EndStep ==
  ASSUME TypeOK, LedgerInv, NEW gone \in SUBSET attempts, NEW o \in FinalOutcome,
         attempts' = attempts \ gone,
         rows' = [k \in Key |-> IF k \in gone THEN Append(rows[k], o) ELSE rows[k]],
         matches' = matches
  PROVE  Ledger!End(gone)
<1>1. \A k \in gone : k \in Key /\ rows[k] = <<>>
  BY DEF TypeOK, LedgerInv, KeyOnce
<1>2. \A k \in gone : Append(rows[k], o) = <<o>>
  <2>1. Append(<<>>, o) = <<o>>
    OBVIOUS
  <2> QED BY <1>1, <2>1
<1> DEFINE choice == [k \in gone |-> o]
<1>3. choice \in [gone -> FinalOutcome]
  OBVIOUS
<1>4. rows' = [k \in Key |-> IF k \in gone THEN <<choice[k]>> ELSE rows[k]]
  BY <1>2
<1> HIDE DEF choice
<1> QED BY <1>3, <1>4 DEF Ledger!End

LEMMA FinishEnds ==
  ASSUME TypeOK, LedgerInv, NEW k \in attempts, NEW o \in FinalOutcome, Finish(k, o),
         matches' = matches
  PROVE  Ledger!End({k})
<1>1. rows' = [x \in Key |-> IF x \in {k} THEN Append(rows[x], o) ELSE rows[x]]
  BY DEF Finish, TypeOK
<1>2. attempts' = attempts \ {k}
  BY DEF Finish
<1> QED BY <1>1, <1>2, EndStep

LEMMA InitRefines == Init => Ledger!Init
BY DEF Init, Ledger!Init

LEMMA StepRefines == Typed /\ LedgerInv /\ [Next]_vars => [Ledger!Next]_Ledger!vars
<1> SUFFICES ASSUME Typed, LedgerInv, [Next]_vars
             PROVE  Ledger!Next \/ UNCHANGED <<attempts, rows, matches, running>>
  BY DEF Ledger!vars
<1>0. TypeOK
  BY DEF Typed
<1>1. ASSUME NEW j \in Key, Observe(j)
      PROVE  Ledger!Next \/ UNCHANGED <<attempts, rows, matches, running>>
  <2>1. CASE j \in pending_sigs
    <3>1. matches[j] = 0 /\ matches \in [Key -> Nat]
      BY <1>0, <2>1 DEF LedgerInv, KeyOnce, TypeOK
    <3>2. matches' = [matches EXCEPT ![j] = 1] /\ running /\ UNCHANGED <<attempts, rows, running>>
      BY <1>1, <2>1, <3>1 DEF Observe, recording
    <3>3. Ledger!Match(j)
      BY <3>1, <3>2 DEF Ledger!Match
    <3> QED BY <3>3 DEF Ledger!Next
  <2>2. CASE j \notin pending_sigs
    BY <1>1, <2>2 DEF Observe, recording
  <2> QED BY <2>1, <2>2
<1>2. ASSUME HandleRegister PROVE Ledger!Next
  <2>1. Has(register_rx, Head(register_rx)) /\ Head(register_rx) \in Key
    BY <1>0, <1>2, TailOnce DEF HandleRegister, TypeOK
  <2>2. Head(register_rx) \notin attempts /\ rows[Head(register_rx)] = <<>>
    BY <2>1 DEF LedgerInv, KeyOnce
  <2>3. Ledger!Register(Head(register_rx))
    BY <1>2, <2>2 DEF HandleRegister, Ledger!Register
  <2> QED BY <2>1, <2>3 DEF Ledger!Next
<1>3. ASSUME NEW k \in attempts, NEW o \in FinalOutcome, Finish(k, o), running,
             UNCHANGED <<matches, running>>
      PROVE  Ledger!Next
  <2>1. Ledger!End({k})
    BY <1>0, <1>3, FinishEnds
  <2> QED BY <1>3, <2>1 DEF Ledger!Next
<1>4. ASSUME HandleSend PROVE Ledger!Next \/ UNCHANGED <<attempts, rows, matches, running>>
  <2>1. CASE Head(send_rx).key \in attempts /\ Head(send_rx).error
    BY <1>3, <1>4, <2>1 DEF HandleSend, FinalOutcome
  <2>2. CASE ~(Head(send_rx).key \in attempts /\ Head(send_rx).error)
    BY <1>4, <2>2 DEF HandleSend, recording
  <2> QED BY <2>1, <2>2
<1>5. ASSUME HandleMatch PROVE Ledger!Next \/ UNCHANGED <<attempts, rows, matches, running>>
  <2>1. CASE Head(match_rx) \in attempts
    BY <1>3, <1>5, <2>1 DEF HandleMatch, FinalOutcome
  <2>2. CASE Head(match_rx) \notin attempts
    BY <1>5, <2>2 DEF HandleMatch, recording
  <2> QED BY <2>1, <2>2
<1>6. ASSUME NEW gone \in SUBSET attempts, FinishAll(gone), matches' = matches
      PROVE  Ledger!End(gone)
  BY <1>0, <1>6, EndStep DEF FinishAll, FinalOutcome
<1>7. ASSUME SweepDeadlines PROVE Ledger!Next
  <2>1. PICK late \in SUBSET Triggers : FinishAll(AttemptsOf(late))
    BY <1>7 DEF SweepDeadlines
  <2> DEFINE gone == AttemptsOf(late)
  <2>2. gone \in SUBSET attempts
    BY DEF AttemptsOf
  <2>3. Ledger!End(gone)
    BY <1>6, <1>7, <2>1, <2>2 DEF SweepDeadlines
  <2> QED BY <1>7, <2>2, <2>3 DEF SweepDeadlines, Ledger!Next
<1>8. ASSUME Stop PROVE Ledger!Next
  <2>1. Ledger!End(attempts)
    BY <1>6, <1>8 DEF Stop
  <2> QED BY <1>8, <2>1 DEF Stop, Ledger!Next
<1>9. ASSUME \/ \E t \in Triggers : Fire(t)
             \/ TakeTrigger
             \/ \E s \in Senders : WaitFor(s)
             \/ Announce \/ Spawn
             \/ \E k \in Key : \/ Transmit(k) \/ Land(k)
                               \/ \E error \in BOOLEAN : SendReturns(k, error)
             \/ UNCHANGED vars
      PROVE  UNCHANGED <<attempts, rows, matches, running>>
  BY <1>9 DEF Fire, TakeTrigger, WaitFor, Announce, Spawn, Transmit, Land, SendReturns, recording, vars
<1> QED BY <1>1, <1>2, <1>4, <1>5, <1>7, <1>8, <1>9 DEF Next

(* The dispatcher, the send tasks, the engine's matches and the recorder   *)
(* together implement the ledger: each attempt is taken in once, ends once *)
(* with one outcome, is matched at most once, and none is open after the   *)
(* stop, for any number of triggers and senders and any channel capacity.  *)
THEOREM LedgerImplemented == Spec => LedgerKept
<1>1. Init => Ledger!Init
  BY InitRefines
<1>2. Typed /\ LedgerInv /\ [Next]_vars => [Ledger!Next]_Ledger!vars
  BY StepRefines
<1> QED BY <1>1, <1>2, LedgerInvariant, PTL DEF Spec, LedgerKept, Ledger!Spec

-----------------------------------------------------------------------------
(* The open attempts of one sender. *)
OpenOf(s) == {k \in attempts : k[2] = s}

Balanced(s) ==
  stats[s]["attempts"] = Cardinality(OpenOf(s))
    + stats[s]["Landed"] + stats[s]["SendError"] + stats[s]["UnknownPending"]

LEMMA StatsAreNat ==
  TypeOK => \A s \in Senders : \A c \in {"attempts"} \cup FinalOutcome : stats[s][c] \in Nat
BY DEF TypeOK, PerSenderStats

LEMMA OpenIsFinite ==
  Typed => \A s \in Senders : IsFiniteSet(OpenOf(s)) /\ Cardinality(OpenOf(s)) \in Nat
<1> SUFFICES ASSUME Typed, NEW s \in Senders
             PROVE  IsFiniteSet(OpenOf(s)) /\ Cardinality(OpenOf(s)) \in Nat
  OBVIOUS
<1>1. IsFiniteSet(OpenOf(s))
  BY FS_Subset DEF OpenOf, Typed
<1> QED BY <1>1, FS_CardinalityType

(* One count of one sender goes up by one.                                 *)
Bumped(k, c) ==
  \A s \in Senders : \A d \in {"attempts"} \cup FinalOutcome :
    stats'[s][d] = IF s = k[2] /\ d = c THEN stats[s][d] + 1 ELSE stats[s][d]

LEMMA CountOne ==
  ASSUME TypeOK, NEW k \in Key, NEW c \in {"attempts"} \cup FinalOutcome, Count(k, c)
  PROVE  Bumped(k, c)
<1>1. k[2] \in Senders
  BY DEF Key
<1>2. stats \in [Senders -> [{"attempts"} \cup FinalOutcome -> Nat]]
  BY DEF TypeOK, PerSenderStats
<1> QED BY <1>1, <1>2 DEF Count, Bumped

(* The end of one attempt moves it from the open ones to an outcome.       *)
LEMMA FinishAddsUp ==
  ASSUME Typed, SummaryAddsUp, NEW k \in attempts, NEW o \in FinalOutcome, Finish(k, o)
  PROVE  SummaryAddsUp'
<1>0. TypeOK /\ k \in Key
  BY DEF Typed, TypeOK
<1>1. SUFFICES ASSUME NEW s \in Senders
               PROVE  Balanced(s)'
  BY DEF SummaryAddsUp, OpenOf, Balanced
<1>2. Balanced(s)
  BY DEF SummaryAddsUp, OpenOf, Balanced
<1>3. /\ \A c \in {"attempts"} \cup FinalOutcome : stats[s][c] \in Nat
      /\ IsFiniteSet(OpenOf(s)) /\ Cardinality(OpenOf(s)) \in Nat
  BY <1>0, StatsAreNat, OpenIsFinite
<1>4. \A d \in {"attempts"} \cup FinalOutcome :
        stats'[s][d] = IF s = k[2] /\ d = o THEN stats[s][d] + 1 ELSE stats[s][d]
  <2>1. Count(k, o) /\ o \in {"attempts"} \cup FinalOutcome
    BY DEF Finish
  <2>2. Bumped(k, o)
    BY <1>0, <2>1, CountOne
  <2> QED BY <2>2 DEF Bumped
<1>5. CASE s = k[2]
  <2>1. OpenOf(s)' = OpenOf(s) \ {k} /\ k \in OpenOf(s)
    BY <1>5 DEF Finish, OpenOf
  <2>2. Cardinality(OpenOf(s)') = Cardinality(OpenOf(s)) - 1
    BY <1>3, <2>1, FS_RemoveElement
  <2>3. \A d \in {"attempts"} \cup FinalOutcome :
          stats'[s][d] = IF d = o THEN stats[s][d] + 1 ELSE stats[s][d]
    BY <1>4, <1>5
  <2> DEFINE n(d) == stats[s][d]
             n1(d) == stats'[s][d]
  <2>4. \A d \in {"attempts", "Landed", "SendError", "UnknownPending"} :
          n(d) \in Nat /\ n1(d) = IF d = o THEN n(d) + 1 ELSE n(d)
    BY <1>3, <2>3 DEF FinalOutcome
  <2>5. n("attempts") = Cardinality(OpenOf(s)) + n("Landed") + n("SendError") + n("UnknownPending")
    BY <1>2 DEF Balanced
  <2> HIDE DEF n, n1
  <2>6. o \in {"Landed", "SendError", "UnknownPending"}
    BY DEF FinalOutcome
  <2>7. n1("attempts") = Cardinality(OpenOf(s)) - 1 + n1("Landed") + n1("SendError")
          + n1("UnknownPending")
    BY <1>3, <2>4, <2>5, <2>6
  <2> QED BY <2>2, <2>7 DEF Balanced, n1
<1>6. CASE s # k[2]
  <2>1. OpenOf(s)' = OpenOf(s)
    BY <1>6 DEF Finish, OpenOf
  <2>2. \A d \in {"attempts"} \cup FinalOutcome : stats'[s][d] = stats[s][d]
    BY <1>4, <1>6
  <2> QED BY <1>2, <2>1, <2>2 DEF Balanced, FinalOutcome
<1> QED BY <1>5, <1>6

(* So does a sweep or the final flush, for each of those it ends.          *)
LEMMA FinishAllAddsUp ==
  ASSUME Typed, SummaryAddsUp, NEW gone \in SUBSET attempts, FinishAll(gone)
  PROVE  SummaryAddsUp'
<1>0. TypeOK
  BY DEF Typed
<1>1. SUFFICES ASSUME NEW s \in Senders
               PROVE  Balanced(s)'
  BY DEF SummaryAddsUp, OpenOf, Balanced
<1>2. Balanced(s)
  BY DEF SummaryAddsUp, OpenOf, Balanced
<1>3. /\ \A c \in {"attempts"} \cup FinalOutcome : stats[s][c] \in Nat
      /\ IsFiniteSet(OpenOf(s)) /\ Cardinality(OpenOf(s)) \in Nat
  BY <1>0, StatsAreNat, OpenIsFinite
<1> DEFINE G == {k \in gone : k[2] = s}
<1>4. OpenOf(s)' = OpenOf(s) \ G /\ G \subseteq OpenOf(s)
  BY DEF FinishAll, OpenOf
<1>5. IsFiniteSet(G) /\ Cardinality(G) \in Nat
  BY <1>3, <1>4, FS_Subset, FS_CardinalityType
<1>6. Cardinality(OpenOf(s)') = Cardinality(OpenOf(s)) - Cardinality(G)
  <2>1. OpenOf(s) \cap G = G
    BY <1>4
  <2>2. Cardinality(OpenOf(s) \ G) = Cardinality(OpenOf(s)) - Cardinality(OpenOf(s) \cap G)
    BY <1>3, FS_Difference
  <2> QED BY <1>4, <2>1, <2>2
<1>7. stats[s] \in [{"attempts"} \cup FinalOutcome -> Nat]
  BY <1>0 DEF TypeOK, PerSenderStats
<1>8. stats'[s] = [stats[s] EXCEPT !["UnknownPending"] = @ + Cardinality(G)]
  BY DEF FinishAll
<1> HIDE DEF G
<1>9. /\ stats'[s]["attempts"] = stats[s]["attempts"]
      /\ stats'[s]["Landed"] = stats[s]["Landed"]
      /\ stats'[s]["SendError"] = stats[s]["SendError"]
      /\ stats'[s]["UnknownPending"] = stats[s]["UnknownPending"] + Cardinality(G)
  BY <1>7, <1>8 DEF FinalOutcome
<1> QED BY <1>2, <1>3, <1>5, <1>6, <1>9 DEF Balanced, FinalOutcome

LEMMA InitAddsUp == Init => SummaryAddsUp
<1> SUFFICES ASSUME Init, NEW s \in Senders
             PROVE  Balanced(s)
  BY DEF SummaryAddsUp, OpenOf, Balanced
<1>1. OpenOf(s) = {}
  BY DEF Init, OpenOf
<1>2. Cardinality(OpenOf(s)) = 0
  BY <1>1, FS_EmptySet
<1>3. \A c \in {"attempts"} \cup FinalOutcome : stats[s][c] = 0
  BY DEF Init
<1> QED BY <1>2, <1>3 DEF Balanced, FinalOutcome

LEMMA StepAddsUp == Typed /\ LedgerInv /\ SummaryAddsUp /\ [Next]_vars => SummaryAddsUp'
<1> SUFFICES ASSUME Typed, LedgerInv, SummaryAddsUp, [Next]_vars PROVE SummaryAddsUp'
  OBVIOUS
<1>0. TypeOK
  BY DEF Typed
<1>1. ASSUME UNCHANGED <<attempts, stats>> PROVE SummaryAddsUp'
  BY <1>1 DEF SummaryAddsUp
<1>2. ASSUME HandleRegister PROVE SummaryAddsUp'
  <2> DEFINE k0 == Head(register_rx)
  <2>1. k0 \in Key /\ k0 \notin attempts
    <3>1. Has(register_rx, k0) /\ k0 \in Key
      BY <1>0, <1>2, TailOnce DEF HandleRegister, TypeOK
    <3> QED BY <3>1 DEF LedgerInv, KeyOnce
  <2>2. attempts' = attempts \cup {k0} /\ Count(k0, "attempts")
    BY <1>2 DEF HandleRegister
  <2> HIDE DEF k0
  <2>3. SUFFICES ASSUME NEW s \in Senders
                 PROVE  Balanced(s)'
    BY DEF SummaryAddsUp, OpenOf, Balanced
  <2>4. Balanced(s)
    BY DEF SummaryAddsUp, OpenOf, Balanced
  <2>5. /\ \A c \in {"attempts"} \cup FinalOutcome : stats[s][c] \in Nat
        /\ IsFiniteSet(OpenOf(s)) /\ Cardinality(OpenOf(s)) \in Nat
    BY <1>0, StatsAreNat, OpenIsFinite
  <2>6. \A d \in {"attempts"} \cup FinalOutcome :
          stats'[s][d] = IF s = k0[2] /\ d = "attempts" THEN stats[s][d] + 1 ELSE stats[s][d]
    <3>1. Bumped(k0, "attempts")
      BY <1>0, <2>1, <2>2, CountOne
    <3> QED BY <3>1 DEF Bumped
  <2>7. CASE s = k0[2]
    <3>1. OpenOf(s)' = OpenOf(s) \cup {k0} /\ k0 \notin OpenOf(s)
      BY <2>1, <2>2, <2>7 DEF OpenOf
    <3>2. Cardinality(OpenOf(s)') = Cardinality(OpenOf(s)) + 1
      BY <2>5, <3>1, FS_AddElement
    <3> QED BY <2>4, <2>5, <2>6, <2>7, <3>2 DEF Balanced, FinalOutcome
  <2>8. CASE s # k0[2]
    <3>1. OpenOf(s)' = OpenOf(s)
      BY <2>2, <2>8 DEF OpenOf
    <3> QED BY <2>4, <2>6, <2>8, <3>1 DEF Balanced, FinalOutcome
  <2> QED BY <2>7, <2>8
<1>3. ASSUME HandleSend PROVE SummaryAddsUp'
  <2>1. \/ Head(send_rx).key \in attempts /\ Finish(Head(send_rx).key, "SendError")
        \/ UNCHANGED recording
    BY <1>3 DEF HandleSend
  <2> QED BY <1>1, <2>1, FinishAddsUp DEF FinalOutcome, recording
<1>4. ASSUME HandleMatch PROVE SummaryAddsUp'
  <2>1. \/ Head(match_rx) \in attempts /\ Finish(Head(match_rx), "Landed")
        \/ UNCHANGED recording
    BY <1>4 DEF HandleMatch
  <2> QED BY <1>1, <2>1, FinishAddsUp DEF FinalOutcome, recording
<1>5. ASSUME SweepDeadlines PROVE SummaryAddsUp'
  <2>1. PICK late \in SUBSET Triggers : FinishAll(AttemptsOf(late))
    BY <1>5 DEF SweepDeadlines
  <2> DEFINE gone == AttemptsOf(late)
  <2>2. gone \in SUBSET attempts
    BY DEF AttemptsOf
  <2> QED BY <2>1, <2>2, FinishAllAddsUp
<1>6. ASSUME Stop PROVE SummaryAddsUp'
  BY <1>6, FinishAllAddsUp DEF Stop
<1>7. ASSUME \/ \E t \in Triggers : Fire(t)
             \/ TakeTrigger
             \/ \E s \in Senders : WaitFor(s)
             \/ Announce \/ Spawn
             \/ \E k \in Key : \/ Transmit(k) \/ Land(k) \/ Observe(k)
                               \/ \E error \in BOOLEAN : SendReturns(k, error)
             \/ UNCHANGED vars
      PROVE  UNCHANGED <<attempts, stats>>
  BY <1>7 DEF Fire, TakeTrigger, WaitFor, Announce, Spawn, Transmit, Land, Observe, SendReturns,
              recording, vars
<1> QED BY <1>1, <1>2, <1>3, <1>4, <1>5, <1>6, <1>7 DEF Next

(* Each sender's attempts are its open ones and those of each outcome, for *)
(* any number of triggers and senders.  An attempt counted twice, because  *)
(* it was announced twice, would break it: hence the ledger's invariant.   *)
THEOREM Summary == Spec => []SummaryAddsUp
<1>1. Init => SummaryAddsUp
  BY InitAddsUp
<1>2. Typed /\ LedgerInv /\ SummaryAddsUp /\ [Next]_vars => SummaryAddsUp'
  BY StepAddsUp
<1> QED BY <1>1, <1>2, LedgerInvariant, PTL DEF Spec

=============================================================================
