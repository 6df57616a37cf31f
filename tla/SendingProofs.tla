----------------------------- MODULE SendingProofs -----------------------------
(***************************************************************************)
(* Proofs about what sends: the senders of the fan-out bench, for any      *)
(* number of concurrent sends and of regions, any interval and any number  *)
(* of connections that break; then the pipeline of the tick-trigger bench, *)
(* for any chain, schedule, channel capacity and number of cycles.         *)
(***************************************************************************)
EXTENDS Senders, TickTriggerBench, FiniteSetTheorems, TLAPS

-----------------------------------------------------------------------------
(* What the table of senders says.                                         *)

FirstSuccess == "first success"

LEMMA KindsAre ==
  Kind = {"Helius", "Triton", "TritonSendTx", "Syncro", "ZeroSlot", "BlockRazor", "Nextblock",
          "Jito", "Nozomi", "Astralane", "Bloxroute", "AllenHark", "AstralaneQuic",
          "NextblockQuic", "BloxrouteQuic"}
BY DEF Kind, SenderOf

LEMMA Table ==
  ASSUME NEW k \in Kind
  PROVE  /\ SenderOf[k].quic \in BOOLEAN /\ SenderOf[k].throttles \in BOOLEAN
         /\ SenderOf[k].rule \in {"first", FirstSuccess}
         /\ SenderOf[k].uni \in BOOLEAN /\ (SenderOf[k].rule = FirstSuccess => SenderOf[k].uni = TRUE)
<1>1. CASE k = "Helius"
  BY <1>1 DEF SenderOf, FirstSuccess, Http, Helius
<1>2. CASE k = "Triton"
  BY <1>2 DEF SenderOf, FirstSuccess, Http, Triton
<1>3. CASE k = "TritonSendTx"
  BY <1>3 DEF SenderOf, FirstSuccess, Http, TritonSendTx
<1>4. CASE k = "Syncro"
  BY <1>4 DEF SenderOf, FirstSuccess, Http, Syncro
<1>5. CASE k = "ZeroSlot"
  BY <1>5 DEF SenderOf, FirstSuccess, Http, ZeroSlot
<1>6. CASE k = "BlockRazor"
  BY <1>6 DEF SenderOf, FirstSuccess, Http, BlockRazor
<1>7. CASE k = "Nextblock"
  BY <1>7 DEF SenderOf, FirstSuccess, Http, Nextblock
<1>8. CASE k = "Jito"
  BY <1>8 DEF SenderOf, FirstSuccess, Http, Jito
<1>9. CASE k = "Nozomi"
  BY <1>9 DEF SenderOf, FirstSuccess, Http, Nozomi
<1>10. CASE k = "Astralane"
  BY <1>10 DEF SenderOf, FirstSuccess, Http, Astralane
<1>11. CASE k = "Bloxroute"
  BY <1>11 DEF SenderOf, FirstSuccess, Http, Bloxroute
<1>12. CASE k = "AllenHark"
  BY <1>12 DEF SenderOf, FirstSuccess, QuicReply, AllenHark
<1>13. CASE k = "AstralaneQuic"
  BY <1>13 DEF SenderOf, FirstSuccess, QuicUni, AstralaneQuic
<1>14. CASE k = "NextblockQuic"
  BY <1>14 DEF SenderOf, FirstSuccess, QuicUni, NextblockQuic
<1>15. CASE k = "BloxrouteQuic"
  BY <1>15 DEF SenderOf, FirstSuccess, QuicUni, BloxrouteQuic
<1> QED BY KindsAre, <1>1, <1>2, <1>3, <1>4, <1>5, <1>6, <1>7, <1>8, <1>9,
          <1>10, <1>11, <1>12, <1>13, <1>14, <1>15

(* What a sender with replies reads as a success is no refusal but a listed*)
(* one, and what it reads as a failure is none and no acceptance.          *)
Sound(k) ==
  \A a \in Answer :
    /\ a \in SenderOf[k].success => Meaning(k, a) # "refused"
    /\ a \notin SenderOf[k].success => Meaning(k, a) \in {"refused", "unclear"}

LEMMA Parsers == \A k \in Kind : SenderOf[k].uni \/ Sound(k)
<1> SUFFICES ASSUME NEW k \in Kind, ~SenderOf[k].uni, NEW a \in Answer
             PROVE  /\ a \in SenderOf[k].success => Meaning(k, a) # "refused"
                    /\ a \notin SenderOf[k].success => Meaning(k, a) \in {"refused", "unclear"}
  BY DEF Sound
<1>0. PICK status \in {200, 429}, body \in Body : a = [status |-> status, body |-> body]
  BY DEF Answer
<1> USE DEF Meaning, Acceptance, Refusal, Misread, ByStatusKind, JsonRpcKind, Body
<1>1. CASE k \in {"Nozomi", "Astralane", "TritonSendTx"}
  <2>1. SenderOf[k].success = ByStatus
    BY <1>1 DEF SenderOf, Nozomi, Astralane, TritonSendTx, Http
  <2> QED BY <1>0, <1>1, <2>1 DEF ByStatus
<1>2. CASE k \in {"Helius", "Triton", "Syncro", "ZeroSlot"}
  <2>1. SenderOf[k].success = JsonRpcReply
    BY <1>2 DEF SenderOf, Helius, Triton, Syncro, ZeroSlot, Http
  <2> QED BY <1>0, <1>2, <2>1 DEF JsonRpcReply
<1>3. CASE k = "Jito"
  <2>1. SenderOf[k].success = parse_json_rpc_reply
    BY <1>3 DEF SenderOf, Jito, Http
  <2> QED BY <1>0, <1>3, <2>1 DEF parse_json_rpc_reply
<1>4. CASE k = "Nextblock"
  <2>1. SenderOf[k].success = NextblockReply
    BY <1>4 DEF SenderOf, Nextblock, Http
  <2> QED BY <1>0, <1>4, <2>1 DEF NextblockReply
<1>5. CASE k = "Bloxroute"
  <2>1. SenderOf[k].success = BloxrouteReply
    BY <1>5 DEF SenderOf, Bloxroute, Http
  <2> QED BY <1>0, <1>5, <2>1 DEF BloxrouteReply
<1>6. CASE k = "BlockRazor"
  <2>1. SenderOf[k].success = BlockrazorReply
    BY <1>6 DEF SenderOf, BlockRazor, Http
  <2> QED BY <1>0, <1>6, <2>1 DEF BlockrazorReply
<1>7. CASE k = "AllenHark"
  <2>1. SenderOf[k].success = AllenharkReply
    BY <1>7 DEF SenderOf, AllenHark, QuicReply
  <2> QED BY <1>0, <1>7, <2>1 DEF AllenharkReply
<1>8. CASE k = "AstralaneQuic"
  <2>1. SenderOf[k].uni = TRUE
    BY <1>8 DEF SenderOf, QuicUni, AstralaneQuic
  <2> QED BY <2>1
<1>9. CASE k = "NextblockQuic"
  <2>1. SenderOf[k].uni = TRUE
    BY <1>9 DEF SenderOf, QuicUni, NextblockQuic
  <2> QED BY <2>1
<1>10. CASE k = "BloxrouteQuic"
  <2>1. SenderOf[k].uni = TRUE
    BY <1>10 DEF SenderOf, QuicUni, BloxrouteQuic
  <2> QED BY <2>1
<1> QED BY <1>1, <1>2, <1>3, <1>4, <1>5, <1>6, <1>7, <1>8, <1>9, <1>10, KindsAre

Meanings == {"accepted", "refused", "misread", "unclear"}
Written == {"finished", "dropped"}

(* What a sender may hear, with success and without. *)
Good(k) == IF SenderOf[k].uni THEN Written ELSE {"accepted", "unclear", "misread"}
Bad == {"lost", "refused", "unclear"}

LEMMA ReadingsAre ==
  ASSUME NEW k \in Kind, NEW reading \in Readings[k]
  PROVE  /\ reading.meaning \in Meanings \cup {"finished"} /\ reading.success \in BOOLEAN
         /\ reading.success => reading.meaning \in Good(k)
         /\ ~reading.success => reading.meaning \in Bad
         /\ SenderOf[k].rule = FirstSuccess => reading.success
<1>0. SenderOf[k].uni \in BOOLEAN /\ (SenderOf[k].rule = FirstSuccess => SenderOf[k].uni = TRUE)
  BY Table
<1>1. CASE SenderOf[k].uni
  <2>1. reading = [meaning |-> "finished", success |-> TRUE]
    BY <1>1 DEF Readings
  <2> QED BY <1>1, <2>1 DEF Good, Written
<1>2. CASE ~SenderOf[k].uni
  <2>1. PICK a \in Answer :
          reading = [meaning |-> Meaning(k, a), success |-> a \in SenderOf[k].success]
    BY <1>2 DEF Readings
  <2>2. /\ reading.meaning = Meaning(k, a) /\ reading.success \in BOOLEAN
        /\ reading.success <=> a \in SenderOf[k].success
    <3> DEFINE good == a \in SenderOf[k].success
    <3>1. good \in BOOLEAN
      OBVIOUS
    <3> HIDE DEF good
    <3>2. reading.meaning = Meaning(k, a) /\ reading.success = good
      BY <2>1 DEF good
    <3> QED BY <3>1, <3>2 DEF good
  <2>3. Meaning(k, a) \in Meanings
    BY DEF Meaning, Meanings
  <2>4. /\ a \in SenderOf[k].success => Meaning(k, a) # "refused"
        /\ a \notin SenderOf[k].success => Meaning(k, a) \in {"refused", "unclear"}
    BY <1>2, Parsers DEF Sound
  <2>5. Good(k) = {"accepted", "unclear", "misread"}
    BY <1>2 DEF Good
  <2> QED BY <1>0, <1>2, <2>2, <2>3, <2>4, <2>5 DEF Bad, Meanings
<1> QED BY <1>0, <1>1, <1>2

-----------------------------------------------------------------------------
(* The replies of a send, as a sequence of verdicts.                       *)

Says(q, verdict) == \E n \in DOMAIN q : q[n] = verdict

LEMMA SaysAppend ==
  ASSUME NEW S, NEW q \in Seq(S), NEW e \in S
  PROVE  /\ Append(q, e) \in Seq(S) /\ Len(q) \in Nat /\ Len(Append(q, e)) = Len(q) + 1
         /\ \A c \in S : Says(Append(q, e), c) <=> (e = c \/ Says(q, c))
BY DEF Says

LEMMA SaysHead ==
  ASSUME NEW S, NEW q \in Seq(S), q # <<>>
  PROVE  Says(q, Head(q))
BY DEF Says

LEMMA DecidesSays ==
  ASSUME NEW s \in Send, replies[s] \in Seq(BOOLEAN), NEW success \in BOOLEAN,
         Decides(s, success)
  PROVE  /\ success => Says(replies[s], TRUE)
         /\ ~success /\ Sender.rule = "first" => Says(replies[s], FALSE)
         /\ ~success /\ Sender.rule # "first" =>
              ~Says(replies[s], TRUE) /\ Len(replies[s]) = Cardinality(targets)
<1>1. CASE Sender.rule = "first"
  <2>1. replies[s] # <<>> /\ Head(replies[s]) = success
    BY <1>1 DEF Decides
  <2>2. Says(replies[s], success)
    BY <2>1, SaysHead
  <2> QED BY <1>1, <2>2, Zenon
<1>2. CASE Sender.rule # "first"
  <2>1. \A n \in DOMAIN replies[s] : replies[s][n] \in BOOLEAN
    BY SMT
  <2>2. (\E n \in DOMAIN replies[s] : replies[s][n]) <=> Says(replies[s], TRUE)
    BY <2>1, Zenon DEF Says
  <2> QED BY <1>2, <2>2, Zenon DEF Decides
<1> QED BY <1>1, <1>2

-----------------------------------------------------------------------------
(* Types, and where the warm-up and the HTTP senders never are.            *)

Place == {"Idle", "Lock", "Connect", "Write", "Clear", "Done"}
Word == {"nothing", "lost", "accepted", "refused", "misread", "unclear", "finished", "dropped"}

Types ==
  /\ kind \in Kind /\ targets \subseteq Region
  /\ clock \in Nat /\ last_send_at \in Int
  /\ call \in [Send -> {"Idle", "Timed", "Sending"} \cup Ended]
  /\ called_at \in [Send -> Nat]
  /\ task \in [Caller -> [targets -> Place]]
  /\ handle \in [Caller -> [targets -> Nat]]
  /\ heard \in [Send -> [targets -> Word]]
  /\ replies \in [Send -> Seq(BOOLEAN)]
  /\ slot \in [targets -> Nat] /\ made \in [targets -> Nat] /\ cleared \in [targets -> Nat]
  /\ guard \in [targets -> Caller \cup {Free}]
  /\ closed \in [targets -> SUBSET Nat]

Places ==
  /\ \A t \in targets : task[Warmup][t] \notin {"Write", "Clear"}
  /\ ~Sender.quic => \A s \in Caller, t \in targets : task[s][t] \notin {"Lock", "Connect", "Clear"}

LEMMA Callers == Warmup \notin Send /\ Free \notin Caller /\ Send \subseteq Caller /\ Warmup \in Caller
BY SendersAssumption DEF Caller, Warmup, Free

LEMMA TypesInit == Init => Types
<1> SUFFICES ASSUME Init PROVE Types
  OBVIOUS
<1>1. kind \in Kind /\ targets \subseteq Region
  <2>1. CASE Sender.fanout
    BY <2>1 DEF Init
  <2>2. CASE ~Sender.fanout
    BY <2>2, SendersAssumption DEF Init
  <2> QED BY <2>1, <2>2
<1>2. replies \in [Send -> Seq(BOOLEAN)]
  <2>1. <<>> \in Seq(BOOLEAN)
    OBVIOUS
  <2> QED BY <2>1, Zenon DEF Init
<1>3. task \in [Caller -> [targets -> Place]]
  BY DEF Init, Place
<1>4. heard \in [Send -> [targets -> Word]]
  BY DEF Init, Word
<1>5. handle \in [Caller -> [targets -> Nat]]
  BY DEF Init
<1> QED BY <1>1, <1>2, <1>3, <1>4, <1>5 DEF Init, Types, Ended, Free

(* The same sender and the same targets throughout. *)
LEMMA Fixed == [Next]_vars => kind' = kind /\ targets' = targets
<1> SUFFICES ASSUME [Next]_vars PROVE kind' = kind /\ targets' = targets
  OBVIOUS
<1> USE DEF setup
<1>1. ASSUME NEW s \in Send, Call(s) \/ TakeThrottle(s) \/ Outcome(s)
      PROVE  kind' = kind /\ targets' = targets
  BY <1>1 DEF Call, TakeThrottle, Outcome
<1>2. ASSUME NEW s \in Caller, NEW t \in targets, Work(s, t)
      PROVE  kind' = kind /\ targets' = targets
  BY <1>2 DEF Work, GetConn, Connected, ConnectFails, Answered, Lost, ClearSlot
<1>3. ASSUME NEW t \in targets, PeerCloses(t) PROVE kind' = kind /\ targets' = targets
  BY <1>3 DEF PeerCloses
<1>4. Tick \/ UNCHANGED vars => kind' = kind /\ targets' = targets
  BY DEF Tick, vars
<1>5. ASSUME NEW s \in Send, NEW t \in targets, CopyDropped(s, t)
      PROVE  kind' = kind /\ targets' = targets
  BY <1>5 DEF CopyDropped
<1> QED BY <1>1, <1>2, <1>3, <1>4, <1>5 DEF Next

(* A task moves to a place and its neighbours stay. *)
LEMMA Moves ==
  ASSUME Types, NEW s \in Caller, NEW t \in targets, NEW there \in Place, At(s, t, there)
  PROVE  /\ task' \in [Caller -> [targets -> Place]]
         /\ task'[s][t] = there
         /\ \A s2 \in Caller, t2 \in targets :
              (s2 # s \/ t2 # t) => task'[s2][t2] = task[s2][t2]
BY DEF Types, At

LEMMA MovesTo ==
  ASSUME Types, Places, kind' = kind, targets' = targets,
         NEW s \in Caller, NEW t \in targets, NEW there \in Place, At(s, t, there),
         there \in {"Write", "Clear"} => s # Warmup,
         there \in {"Lock", "Connect", "Clear"} => Sender.quic
  PROVE  task' \in [Caller -> [targets -> Place]] /\ Places'
<1>1. /\ task' \in [Caller -> [targets -> Place]] /\ task'[s][t] = there
      /\ \A s2 \in Caller, t2 \in targets :
           (s2 # s \/ t2 # t) => task'[s2][t2] = task[s2][t2]
  BY Moves
<1>2. Sender' = Sender
  BY DEF Sender
<1>3. \A t2 \in targets : task'[Warmup][t2] \notin {"Write", "Clear"}
  BY <1>1, Callers DEF Places
<1>4. ~Sender.quic =>
        \A s2 \in Caller, t2 \in targets : task'[s2][t2] \notin {"Lock", "Connect", "Clear"}
  BY <1>1 DEF Places
<1> QED BY <1>1, <1>2, <1>3, <1>4 DEF Places

LEMMA Replied ==
  ASSUME Types, NEW s \in Send, NEW verdict \in BOOLEAN,
         replies' = [replies EXCEPT ![s] = Append(@, verdict)]
  PROVE  /\ replies' \in [Send -> Seq(BOOLEAN)]
         /\ replies'[s] = Append(replies[s], verdict)
         /\ \A s2 \in Send : s2 # s => replies'[s2] = replies[s2]
<1>1. replies[s] \in Seq(BOOLEAN) /\ replies \in [Send -> Seq(BOOLEAN)]
  BY DEF Types
<1>2. Append(replies[s], verdict) \in Seq(BOOLEAN)
  BY <1>1, SaysAppend
<1> DEFINE more == Append(replies[s], verdict)
           Verdicts == Seq(BOOLEAN)
<1>3. /\ replies' = [replies EXCEPT ![s] = more]
      /\ more \in Verdicts /\ replies \in [Send -> Verdicts]
  BY <1>1, <1>2
<1> HIDE DEF more, Verdicts
<1>4. /\ replies' \in [Send -> Verdicts] /\ replies'[s] = more
      /\ \A s2 \in Send : s2 # s => replies'[s2] = replies[s2]
  BY <1>3
<1> QED BY <1>4 DEF more, Verdicts

LEMMA TypesStep == Types /\ Places /\ [Next]_vars => Types' /\ Places'
<1> SUFFICES ASSUME Types, Places, [Next]_vars PROVE Types' /\ Places'
  OBVIOUS
<1> USE Callers
<1>0. kind' = kind /\ targets' = targets
  BY Fixed
<1>t. ASSUME NEW s \in Send, task' = task \/ StartTasks(s)
      PROVE  task' \in [Caller -> [targets -> Place]] /\ Places'
  <2>1. CASE task' = task
    BY <1>0, <2>1 DEF Types, Places, Sender
  <2>2. CASE task' = [task EXCEPT ![s] = [t \in targets |-> IF Sender.quic THEN "Lock" ELSE "Write"]]
    BY <1>0, <2>2 DEF Types, Places, Place, Sender
  <2> QED BY <1>t, <2>1, <2>2 DEF StartTasks
<1>1. ASSUME NEW s \in Send, Call(s) \/ TakeThrottle(s) PROVE Types' /\ Places'
  <2>1. task' \in [Caller -> [targets -> Place]] /\ Places'
    BY <1>1, <1>t DEF Call, TakeThrottle
  <2>2. /\ call' \in [Send -> {"Idle", "Timed", "Sending"} \cup Ended]
        /\ called_at' \in [Send -> Nat] /\ clock' \in Nat
    <3>1. \/ call' = [call EXCEPT ![s] = "Timed"] \/ call' = [call EXCEPT ![s] = "Throttled"]
          \/ call' = [call EXCEPT ![s] = "Sending"]
      BY <1>1 DEF Call, TakeThrottle, StartTasks
    <3>2. called_at' = called_at \/ called_at' = [called_at EXCEPT ![s] = clock]
      BY <1>1 DEF Call, TakeThrottle
    <3>3. clock' = clock
      BY <1>1 DEF Call, TakeThrottle
    <3>4. call' \in [Send -> {"Idle", "Timed", "Sending"} \cup Ended]
      BY <3>1 DEF Types, Ended
    <3>5. called_at' \in [Send -> Nat]
      BY <3>2 DEF Types
    <3> QED BY <3>3, <3>4, <3>5 DEF Types
  <2>3. last_send_at' \in Int
    <3>1. last_send_at' = last_send_at \/ last_send_at' = called_at[s]
      BY <1>1 DEF Call, TakeThrottle
    <3> QED BY <3>1 DEF Types
  <2>4. UNCHANGED <<handle, heard, replies, connVars>>
    BY <1>1 DEF Call, TakeThrottle
  <2> QED BY <1>0, <2>1, <2>2, <2>3, <2>4 DEF Types, connVars
<1>2. ASSUME NEW s \in Send, Outcome(s) PROVE Types' /\ Places'
  <2>1. call' \in [Send -> {"Idle", "Timed", "Sending"} \cup Ended]
    BY <1>2 DEF Outcome, Types, Ended
  <2> QED BY <1>0, <1>2, <2>1 DEF Outcome, Types, Places, Sender, throttleVars, taskVars, connVars
<1>3. ASSUME NEW s \in Caller, NEW t \in targets, GetConn(s, t) PROVE Types' /\ Places'
  <2>1. PICK there \in Place : At(s, t, there) /\ there \in {"Write", "Done", "Connect"}
                               /\ (there = "Write" => s # Warmup)
    BY <1>3 DEF GetConn, Place
  <2>2. Sender.quic
    BY <1>3 DEF GetConn, Places
  <2>3. task' \in [Caller -> [targets -> Place]] /\ Places'
    BY <1>0, <2>1, <2>2, MovesTo
  <2>4. handle' \in [Caller -> [targets -> Nat]] /\ guard' \in [targets -> Caller \cup {Free}]
    <3>1. CASE Live(t, slot[t])
      <4>1. handle' = [handle EXCEPT ![s][t] = IF s = Warmup THEN 0 ELSE slot[t]] /\ guard' = guard
        BY <1>3, <3>1 DEF GetConn
      <4> QED BY <4>1 DEF Types
    <3>2. CASE ~Live(t, slot[t])
      <4>1. handle' = handle /\ guard' = [guard EXCEPT ![t] = s]
        BY <1>3, <3>2 DEF GetConn
      <4> QED BY <4>1 DEF Types
    <3> QED BY <3>1, <3>2
  <2> QED BY <1>0, <1>3, <2>3, <2>4 DEF Types, GetConn, throttleVars
<1>4. ASSUME NEW s \in Caller, NEW t \in targets, Connected(s, t) PROVE Types' /\ Places'
  <2>1. PICK there \in Place : At(s, t, there) /\ there \in {"Write", "Done"}
                               /\ (there = "Write" => s # Warmup)
    BY <1>4 DEF Connected, Place
  <2>2. Sender.quic
    BY <1>4 DEF Connected, Places
  <2>3. task' \in [Caller -> [targets -> Place]] /\ Places'
    BY <1>0, <2>1, <2>2, MovesTo
  <2>4. /\ handle' \in [Caller -> [targets -> Nat]] /\ guard' \in [targets -> Caller \cup {Free}]
        /\ made' \in [targets -> Nat] /\ slot' \in [targets -> Nat]
    BY <1>4 DEF Connected, Types
  <2> QED BY <1>0, <1>4, <2>3, <2>4 DEF Types, Connected, throttleVars
<1>5. ASSUME NEW s \in Caller, NEW t \in targets, ConnectFails(s, t) PROVE Types' /\ Places'
  <2>1. PICK there \in Place : At(s, t, there) /\ there \in {"Clear", "Done"}
                               /\ (there = "Clear" => s # Warmup)
    BY <1>5 DEF ConnectFails, Place
  <2>2. Sender.quic
    BY <1>5 DEF ConnectFails, Places
  <2>3. task' \in [Caller -> [targets -> Place]] /\ Places'
    BY <1>0, <2>1, <2>2, MovesTo
  <2>4. guard' \in [targets -> Caller \cup {Free}] /\ heard' \in [Send -> [targets -> Word]]
    BY <1>5 DEF ConnectFails, Types, Word
  <2> QED BY <1>0, <1>5, <2>3, <2>4 DEF Types, ConnectFails, throttleVars
<1>6. ASSUME NEW s \in Caller, NEW t \in targets, NEW reading \in Readings[kind],
             Answered(s, t, reading)
      PROVE  Types' /\ Places'
  <2>1. s \in Send /\ At(s, t, "Done") /\ "Done" \in Place
    BY <1>6 DEF Answered, Places, Place, Caller
  <2>3. task' \in [Caller -> [targets -> Place]] /\ Places'
    BY <1>0, <2>1, MovesTo
  <2>4. reading.meaning \in Word /\ reading.success \in BOOLEAN
    BY ReadingsAre DEF Types, Word, Meanings
  <2>5. heard' \in [Send -> [targets -> Word]] /\ handle' \in [Caller -> [targets -> Nat]]
    BY <1>6, <2>4 DEF Answered, Types
  <2>6. replies' \in [Send -> Seq(BOOLEAN)]
    BY <1>6, <2>1, <2>4, Replied DEF Answered
  <2> QED BY <1>0, <1>6, <2>3, <2>5, <2>6 DEF Types, Answered, throttleVars, connVars
<1>7. ASSUME NEW s \in Caller, NEW t \in targets, Lost(s, t) PROVE Types' /\ Places'
  <2>1. PICK there \in Place : At(s, t, there) /\ there \in {"Clear", "Done"}
                               /\ (there = "Clear" => Sender.quic)
    BY <1>7 DEF Lost, Place
  <2>2. s \in Send
    BY <1>7 DEF Lost, Places, Caller
  <2>3. task' \in [Caller -> [targets -> Place]] /\ Places'
    BY <1>0, <2>1, <2>2, MovesTo
  <2>5. heard' \in [Send -> [targets -> Word]] /\ handle' \in [Caller -> [targets -> Nat]]
    BY <1>7 DEF Lost, Types, Word
  <2>6. replies' \in [Send -> Seq(BOOLEAN)]
    <3>1. replies' = replies \/ replies' = [replies EXCEPT ![s] = Append(@, FALSE)]
      BY <1>7 DEF Lost
    <3>2. FALSE \in BOOLEAN
      OBVIOUS
    <3> QED BY <2>2, <3>1, <3>2, Replied DEF Types
  <2> QED BY <1>0, <1>7, <2>3, <2>5, <2>6 DEF Types, Lost, throttleVars, connVars
<1>8. ASSUME NEW s \in Caller, NEW t \in targets, ClearSlot(s, t) PROVE Types' /\ Places'
  <2>1. s \in Send /\ At(s, t, "Done") /\ "Done" \in Place
    BY <1>8 DEF ClearSlot, Places, Place, Caller
  <2>3. task' \in [Caller -> [targets -> Place]] /\ Places'
    BY <1>0, <2>1, MovesTo
  <2>5. slot' \in [targets -> Nat] /\ cleared' \in [targets -> Nat]
    BY <1>8 DEF ClearSlot, Types
  <2>6. replies' \in [Send -> Seq(BOOLEAN)]
    <3>1. FALSE \in BOOLEAN
      OBVIOUS
    <3> QED BY <1>8, <2>1, <3>1, Replied DEF ClearSlot
  <2> QED BY <1>0, <1>8, <2>3, <2>5, <2>6 DEF Types, ClearSlot, throttleVars
<1>9. ASSUME NEW t \in targets, PeerCloses(t) PROVE Types' /\ Places'
  <2>1. PICK c \in {slot[t]} \cup {handle[s][t] : s \in Send} :
          closed' = [closed EXCEPT ![t] = @ \cup {c}]
    BY <1>9 DEF PeerCloses
  <2>2. c \in Nat
    BY <2>1 DEF Types
  <2>3. closed' \in [targets -> SUBSET Nat]
    BY <2>1, <2>2 DEF Types
  <2> QED BY <1>0, <1>9, <2>3 DEF Types, Places, Sender, PeerCloses, throttleVars, taskVars
<1>10. CASE Tick
  BY <1>0, <1>10 DEF Types, Places, Sender, Tick, taskVars, connVars
<1>11. CASE UNCHANGED vars
  BY <1>0, <1>11 DEF Types, Places, Sender, vars, throttleVars, taskVars, connVars
<1>12. ASSUME NEW s \in Send, NEW t \in targets, CopyDropped(s, t) PROVE Types' /\ Places'
  <2>1. heard' \in [Send -> [targets -> Word]]
    BY <1>12 DEF CopyDropped, Types, Word
  <2> QED BY <1>0, <1>12, <2>1 DEF Types, Places, Sender, CopyDropped, throttleVars, connVars
<1> QED
  BY <1>1, <1>2, <1>3, <1>4, <1>5, <1>6, <1>7, <1>8, <1>9, <1>10, <1>11, <1>12 DEF Next, Work

-----------------------------------------------------------------------------
(* The connections of a target.  Every one made but the last was closed by *)
(* the peer or dropped from the slot, and the one being made is needed:    *)
(* whoever holds the lock found no live connection, and none comes alive   *)
(* while the lock is held.                                                 *)

Alive(t) == IF Live(t, slot[t]) THEN 1 ELSE 0

ConnAt(t) ==
  /\ slot[t] \in {0, made[t]} /\ closed[t] \subseteq 1 .. made[t]
  /\ \A s \in Caller : handle[s][t] \in 0 .. made[t]
  /\ \A s \in Caller : guard[t] = s <=> task[s][t] = "Connect"
  /\ guard[t] # Free => ~Live(t, slot[t])
  /\ made[t] <= Alive(t) + Cardinality(closed[t]) + cleared[t]
  /\ ~Sender.quic => made[t] = 0

Conn == \A t \in targets : ConnAt(t)

LEMMA Closed ==
  ASSUME Types, NEW t \in targets, closed[t] \subseteq 1 .. made[t]
  PROVE  /\ IsFiniteSet(closed[t]) /\ Cardinality(closed[t]) \in Nat
         /\ \A c : c \notin closed[t] =>
              Cardinality(closed[t] \cup {c}) = Cardinality(closed[t]) + 1
<1>1. 1 \in Int /\ made[t] \in Int
  BY DEF Types
<1>2. IsFiniteSet(1 .. made[t])
  BY <1>1, FS_Interval
<1>3. IsFiniteSet(closed[t])
  BY <1>2, FS_Subset
<1> QED BY <1>3, FS_CardinalityType, FS_AddElement

LEMMA ConnInit == Init => Conn
<1> SUFFICES ASSUME Init, NEW t \in targets PROVE ConnAt(t)
  BY DEF Conn
<1>1. /\ slot[t] = 0 /\ made[t] = 0 /\ closed[t] = {} /\ cleared[t] = 0 /\ guard[t] = Free
      /\ \A s \in Caller : handle[s][t] = 0 /\ task[s][t] \in {"Idle", "Lock"}
  BY DEF Init
<1>2. Cardinality(closed[t]) = 0
  BY <1>1, FS_EmptySet
<1>3. /\ ~Live(t, slot[t]) /\ Alive(t) = 0
      /\ \A s \in Caller : guard[t] # s /\ task[s][t] # "Connect"
  BY <1>1, Callers DEF Alive, Live
<1> QED BY <1>1, <1>2, <1>3 DEF ConnAt

(* A target that a step leaves alone, or only lets go of.                  *)
LEMMA Elsewhere ==
  ASSUME Types, NEW t \in targets, ConnAt(t), kind' = kind,
         slot'[t] = slot[t], made'[t] = made[t], closed'[t] = closed[t],
         cleared'[t] = cleared[t], guard'[t] = guard[t],
         \A s \in Caller : handle'[s][t] \in {0, made[t], handle[s][t]},
         \A s \in Caller : task'[s][t] = "Connect" <=> task[s][t] = "Connect"
  PROVE  ConnAt(t)'
<1>1. made[t] \in Nat
  BY DEF Types
<1>2. Live(t, slot[t])' <=> Live(t, slot[t])
  BY DEF Live
<1>3. Alive(t)' = Alive(t)
  BY <1>2 DEF Alive
<1>4. \A s \in Caller : handle'[s][t] \in 0 .. made[t]
  BY <1>1 DEF ConnAt
<1>5. \A s \in Caller : guard[t] = s <=> task'[s][t] = "Connect"
  BY DEF ConnAt
<1>6. Sender' = Sender
  BY DEF Sender
<1> QED BY <1>2, <1>3, <1>4, <1>5, <1>6 DEF ConnAt

(* A call spawns the tasks of a send that had none. *)
NoTasks ==
  \A s \in Send : call[s] \in {"Idle", "Timed", "Throttled"} => \A t \in targets : task[s][t] = "Idle"

(* What a step on target t does to the others. *)
LEMMA OnlyAt ==
  ASSUME Types, Conn, kind' = kind, targets' = targets,
         NEW s \in Caller, NEW t \in targets, NEW there \in Place, At(s, t, there),
         \A t2 \in targets : t2 # t =>
           /\ slot'[t2] = slot[t2] /\ made'[t2] = made[t2] /\ closed'[t2] = closed[t2]
           /\ cleared'[t2] = cleared[t2] /\ guard'[t2] = guard[t2]
           /\ \A s2 \in Caller : handle'[s2][t2] = handle[s2][t2],
         ConnAt(t)'
  PROVE  Conn'
<1> SUFFICES ASSUME NEW t2 \in targets, t2 # t PROVE ConnAt(t2)'
  BY DEF Conn
<1>1. \A s2 \in Caller : task'[s2][t2] = task[s2][t2]
  BY Moves
<1>2. ConnAt(t2)
  BY DEF Conn
<1> QED BY <1>1, <1>2, Elsewhere

LEMMA ConnStep == Types /\ Places /\ NoTasks /\ Conn /\ [Next]_vars => Conn'
<1> SUFFICES ASSUME Types, Places, NoTasks, Conn, [Next]_vars PROVE Conn'
  OBVIOUS
<1> USE Callers
<1>0. kind' = kind /\ targets' = targets
  BY Fixed
<1>a. Sender' = Sender
  BY <1>0 DEF Sender
<1>b. \A t \in targets : ConnAt(t) /\ made[t] \in Nat /\ slot[t] \in Nat /\ cleared[t] \in Nat
  BY DEF Conn, Types
<1>1. ASSUME NEW s \in Send, Call(s) \/ TakeThrottle(s) PROVE Conn'
  <2> SUFFICES ASSUME NEW t \in targets PROVE ConnAt(t)'
    BY <1>0 DEF Conn
  <2>1. \A s2 \in Caller : task'[s2][t] = "Connect" <=> task[s2][t] = "Connect"
    <3>1. CASE task' = task
      BY <3>1
    <3>2. CASE task' = [task EXCEPT ![s] = [t2 \in targets |-> IF Sender.quic THEN "Lock" ELSE "Write"]]
      <4>1. task[s][t] = "Idle" /\ task'[s][t] \in {"Lock", "Write"}
        BY <1>1, <3>2 DEF Call, TakeThrottle, NoTasks, Types
      <4>2. \A s2 \in Caller : s2 # s => task'[s2][t] = task[s2][t]
        BY <3>2 DEF Types
      <4> QED BY <4>1, <4>2
    <3> QED BY <1>1, <3>1, <3>2 DEF Call, TakeThrottle, StartTasks
  <2>2. UNCHANGED <<handle, connVars>>
    BY <1>1 DEF Call, TakeThrottle
  <2> QED BY <1>0, <1>b, <2>1, <2>2, Elsewhere DEF connVars
<1>2. ASSUME NEW s \in Send, Outcome(s) PROVE Conn'
  <2> SUFFICES ASSUME NEW t \in targets PROVE ConnAt(t)'
    BY <1>0 DEF Conn
  <2> QED BY <1>0, <1>2, <1>b, Elsewhere DEF Outcome, taskVars, connVars
<1>3. ASSUME NEW s \in Caller, NEW t \in targets, GetConn(s, t) PROVE Conn'
  <2>1. CASE Live(t, slot[t])
    <3>1. PICK there \in Place : At(s, t, there) /\ there \in {"Write", "Done"}
      BY <1>3, <2>1 DEF GetConn, Place
    <3>2. /\ handle' = [handle EXCEPT ![s][t] = IF s = Warmup THEN 0 ELSE slot[t]]
          /\ guard' = guard /\ slot' = slot /\ made' = made /\ closed' = closed /\ cleared' = cleared
          /\ task[s][t] = "Lock"
      BY <1>3, <2>1 DEF GetConn
    <3>3. /\ handle'[s][t] \in {0, made[t]}
          /\ \A s2 \in Caller, t2 \in targets :
               (s2 # s \/ t2 # t) => handle'[s2][t2] = handle[s2][t2]
      BY <1>b, <3>2 DEF Types, ConnAt
    <3>4. \A s2 \in Caller : task'[s2][t] = "Connect" <=> task[s2][t] = "Connect"
      <4>1. task'[s][t] \in {"Write", "Done"} /\ \A s2 \in Caller : s2 # s => task'[s2][t] = task[s2][t]
        BY <3>1, Moves
      <4> QED BY <3>2, <4>1
    <3>5. ConnAt(t)'
      BY <1>0, <1>b, <3>2, <3>3, <3>4, Elsewhere
    <3> QED BY <1>0, <3>1, <3>2, <3>3, <3>5, OnlyAt
  <2>2. CASE ~Live(t, slot[t])
    <3>1. At(s, t, "Connect") /\ "Connect" \in Place
      BY <1>3, <2>2 DEF GetConn, Place
    <3>2. /\ guard' = [guard EXCEPT ![t] = s] /\ guard[t] = Free
          /\ handle' = handle /\ slot' = slot /\ made' = made /\ closed' = closed /\ cleared' = cleared
      BY <1>3, <2>2 DEF GetConn
    <3>3. guard'[t] = s /\ \A t2 \in targets : t2 # t => guard'[t2] = guard[t2]
      BY <3>2 DEF Types
    <3>4. task'[s][t] = "Connect" /\ \A s2 \in Caller : s2 # s => task'[s2][t] = task[s2][t]
      BY <3>1, Moves
    <3>5. \A s2 \in Caller : guard'[t] = s2 <=> task'[s2][t] = "Connect"
      <4>1. \A s2 \in Caller : task[s2][t] # "Connect"
        BY <1>b, <3>2 DEF ConnAt
      <4> QED BY <3>3, <3>4, <4>1
    <3>6. ~Live(t, slot[t])' /\ Alive(t)' = Alive(t)
      BY <2>2, <3>2 DEF Live, Alive
    <3>7. ConnAt(t)'
      BY <1>a, <1>b, <3>2, <3>5, <3>6 DEF ConnAt
    <3> QED BY <1>0, <3>1, <3>2, <3>3, <3>7, OnlyAt
  <2> QED BY <2>1, <2>2
<1>4. ASSUME NEW s \in Caller, NEW t \in targets, Connected(s, t) PROVE Conn'
  <2>1. PICK there \in Place : At(s, t, there) /\ there \in {"Write", "Done"}
    BY <1>4 DEF Connected, Place
  <2>2. /\ made'[t] = made[t] + 1 /\ slot'[t] = made[t] + 1 /\ guard'[t] = Free
        /\ handle'[s][t] \in {0, made[t] + 1}
        /\ \A t2 \in targets : t2 # t =>
             made'[t2] = made[t2] /\ slot'[t2] = slot[t2] /\ guard'[t2] = guard[t2]
        /\ \A s2 \in Caller, t2 \in targets :
             (s2 # s \/ t2 # t) => handle'[s2][t2] = handle[s2][t2]
        /\ closed' = closed /\ cleared' = cleared /\ task[s][t] = "Connect"
    BY <1>4 DEF Connected, Types
  <2>3. task'[s][t] \in {"Write", "Done"} /\ \A s2 \in Caller : s2 # s => task'[s2][t] = task[s2][t]
    BY <2>1, Moves
  <2>4. \A s2 \in Caller : task'[s2][t] # "Connect" /\ guard'[t] # s2
    BY <1>b, <2>2, <2>3 DEF ConnAt
  <2>5. Sender.quic
    BY <2>2 DEF Places
  <2>6. ~Live(t, slot[t]) /\ Alive(t) = 0
    BY <1>b, <2>2 DEF ConnAt, Alive
  <2>7. Alive(t)' = 1
    <3>1. made[t] + 1 \notin closed[t]
      BY <1>b DEF ConnAt
    <3> QED BY <1>b, <2>2, <3>1 DEF Alive, Live
  <2>8. made'[t] <= Alive(t)' + Cardinality(closed'[t]) + cleared'[t]
    <3>1. Cardinality(closed[t]) \in Nat /\ made[t] <= 0 + Cardinality(closed[t]) + cleared[t]
      BY <1>b, <2>6, Closed DEF ConnAt
    <3> QED BY <1>b, <2>2, <2>7, <3>1
  <2>9. /\ \A s2 \in Caller : handle'[s2][t] \in 0 .. made'[t]
        /\ slot'[t] = made'[t] /\ closed'[t] \subseteq 1 .. made'[t]
    BY <1>b, <2>2 DEF ConnAt
  <2>10. ConnAt(t)'
    BY <1>a, <2>2, <2>4, <2>5, <2>8, <2>9 DEF ConnAt
  <2> QED BY <1>0, <2>1, <2>2, <2>10, OnlyAt
<1>5. ASSUME NEW s \in Caller, NEW t \in targets, ConnectFails(s, t) PROVE Conn'
  <2>1. PICK there \in Place : At(s, t, there) /\ there \in {"Clear", "Done"}
    BY <1>5 DEF ConnectFails, Place
  <2>2. /\ guard'[t] = Free /\ task[s][t] = "Connect"
        /\ \A t2 \in targets : t2 # t => guard'[t2] = guard[t2]
        /\ handle' = handle /\ slot' = slot /\ made' = made /\ closed' = closed /\ cleared' = cleared
    BY <1>5 DEF ConnectFails, Types
  <2>3. task'[s][t] \in {"Clear", "Done"} /\ \A s2 \in Caller : s2 # s => task'[s2][t] = task[s2][t]
    BY <2>1, Moves
  <2>4. \A s2 \in Caller : task'[s2][t] # "Connect" /\ guard'[t] # s2
    BY <1>b, <2>2, <2>3 DEF ConnAt
  <2>5. Alive(t)' = Alive(t)
    BY <2>2 DEF Alive, Live
  <2>6. ConnAt(t)'
    BY <1>a, <1>b, <2>2, <2>4, <2>5 DEF ConnAt
  <2> QED BY <1>0, <2>1, <2>2, <2>6, OnlyAt
<1>6. ASSUME NEW s \in Caller, NEW t \in targets, NEW there \in {"Done", "Clear"}, At(s, t, there),
             handle' = [handle EXCEPT ![s][t] = 0], task[s][t] = "Write", UNCHANGED connVars
      PROVE  Conn'
  <2>1. /\ handle'[s][t] = 0
        /\ \A s2 \in Caller, t2 \in targets :
             (s2 # s \/ t2 # t) => handle'[s2][t2] = handle[s2][t2]
    BY <1>6 DEF Types
  <2>2. there \in Place
    BY DEF Place
  <2>3. \A s2 \in Caller : task'[s2][t] = "Connect" <=> task[s2][t] = "Connect"
    <3>1. task'[s][t] = there /\ \A s2 \in Caller : s2 # s => task'[s2][t] = task[s2][t]
      BY <1>6, <2>2, Moves
    <3> QED BY <1>6, <3>1
  <2>4. ConnAt(t)'
    BY <1>0, <1>6, <1>b, <2>1, <2>3, Elsewhere DEF connVars
  <2> QED BY <1>0, <1>6, <2>1, <2>2, <2>4, OnlyAt DEF connVars
<1>7. ASSUME NEW s \in Caller, NEW t \in targets, NEW reading \in Readings[kind],
             Answered(s, t, reading)
      PROVE  Conn'
  BY <1>6, <1>7 DEF Answered
<1>8. ASSUME NEW s \in Caller, NEW t \in targets, Lost(s, t) PROVE Conn'
  BY <1>6, <1>8 DEF Lost
<1>9. ASSUME NEW s \in Caller, NEW t \in targets, ClearSlot(s, t) PROVE Conn'
  <2>1. At(s, t, "Done") /\ "Done" \in Place
    BY <1>9 DEF ClearSlot, Place
  <2>2. /\ slot'[t] = 0 /\ cleared'[t] = cleared[t] + 1 /\ task[s][t] = "Clear" /\ guard[t] = Free
        /\ \A t2 \in targets : t2 # t => slot'[t2] = slot[t2] /\ cleared'[t2] = cleared[t2]
        /\ handle' = handle /\ guard' = guard /\ made' = made /\ closed' = closed
    BY <1>9 DEF ClearSlot, Types
  <2>3. task'[s][t] = "Done" /\ \A s2 \in Caller : s2 # s => task'[s2][t] = task[s2][t]
    BY <2>1, Moves
  <2>4. \A s2 \in Caller : task'[s2][t] # "Connect" /\ guard'[t] # s2
    BY <1>b, <2>2, <2>3 DEF ConnAt
  <2>5. ~Live(t, slot[t])' /\ Alive(t)' = 0 /\ Alive(t) \in {0, 1}
    BY <2>2 DEF Live, Alive
  <2>6. made'[t] <= Alive(t)' + Cardinality(closed'[t]) + cleared'[t]
    <3>1. /\ Cardinality(closed[t]) \in Nat
          /\ made[t] <= Alive(t) + Cardinality(closed[t]) + cleared[t]
      BY <1>b, Closed DEF ConnAt
    <3> QED BY <1>b, <2>2, <2>5, <3>1
  <2>7. ConnAt(t)'
    BY <1>a, <1>b, <2>2, <2>4, <2>5, <2>6 DEF ConnAt
  <2> QED BY <1>0, <2>1, <2>2, <2>7, OnlyAt
<1>10. ASSUME NEW t \in targets, PeerCloses(t) PROVE Conn'
  <2>1. PICK c \in ({slot[t]} \cup {handle[s][t] : s \in Send}) \ (closed[t] \cup {0}) :
          closed' = [closed EXCEPT ![t] = @ \cup {c}]
    BY <1>10 DEF PeerCloses
  <2>2. /\ closed'[t] = closed[t] \cup {c}
        /\ \A t2 \in targets : t2 # t => closed'[t2] = closed[t2]
    BY <2>1 DEF Types
  <2>3. c \in 1 .. made[t] /\ c \notin closed[t]
    BY <1>b, <2>1 DEF ConnAt
  <2>4. UNCHANGED <<task, handle, slot, guard, made, cleared>>
    BY <1>10 DEF PeerCloses, taskVars
  <2>5. ASSUME NEW t2 \in targets, t2 # t PROVE ConnAt(t2)'
    BY <1>0, <1>b, <2>2, <2>4, <2>5, Elsewhere
  <2>6. /\ Live(t, slot[t])' => Live(t, slot[t])
        /\ Alive(t) <= Alive(t)' + 1 /\ Alive(t) \in {0, 1} /\ Alive(t)' \in {0, 1}
    BY <2>2, <2>4 DEF Alive, Live
  <2>7. made[t] <= Alive(t)' + Cardinality(closed'[t]) + cleared[t]
    <3>0. Cardinality(closed[t]) \in Nat /\ Cardinality(closed[t] \cup {c}) = Cardinality(closed[t]) + 1
      <4>1. closed[t] \subseteq 1 .. made[t]
        BY <1>b DEF ConnAt
      <4> QED BY <2>3, <4>1, Closed
    <3>1. /\ Cardinality(closed[t]) \in Nat /\ Cardinality(closed'[t]) = Cardinality(closed[t]) + 1
          /\ made[t] <= Alive(t) + Cardinality(closed[t]) + cleared[t]
      BY <1>b, <2>2, <3>0 DEF ConnAt
    <3>2. made[t] \in Nat /\ cleared[t] \in Nat
      BY <1>b
    <3>3. PICK n \in Nat : n = Cardinality(closed[t])
      BY <3>1
    <3>4. PICK was \in {0, 1}, is \in {0, 1} : was = Alive(t) /\ is = Alive(t)' /\ was <= is + 1
      BY <2>6
    <3>5. made[t] <= is + (n + 1) + cleared[t]
      BY <3>1, <3>2, <3>3, <3>4
    <3> QED BY <3>1, <3>3, <3>4, <3>5
  <2>8. closed'[t] \subseteq 1 .. made[t]
    BY <1>b, <2>2, <2>3 DEF ConnAt
  <2>9. ConnAt(t)'
    BY <1>a, <1>b, <2>4, <2>6, <2>7, <2>8 DEF ConnAt
  <2> QED BY <1>0, <2>5, <2>9 DEF Conn
<1>11. CASE Tick \/ UNCHANGED vars
  <2> SUFFICES ASSUME NEW t \in targets PROVE ConnAt(t)'
    BY <1>0 DEF Conn
  <2>1. UNCHANGED <<task, handle, connVars>>
    BY <1>11 DEF Tick, vars, taskVars
  <2> QED BY <1>0, <1>b, <2>1, Elsewhere DEF connVars
<1>12. ASSUME NEW s \in Send, NEW t \in targets, CopyDropped(s, t) PROVE Conn'
  <2> SUFFICES ASSUME NEW t2 \in targets PROVE ConnAt(t2)'
    BY <1>0 DEF Conn
  <2> QED BY <1>0, <1>12, <1>b, Elsewhere DEF CopyDropped, connVars
<1> QED
  BY <1>1, <1>2, <1>3, <1>4, <1>5, <1>7, <1>8, <1>9, <1>10, <1>11, <1>12 DEF Next, Work

-----------------------------------------------------------------------------
(* The tasks of a send, what they heard and what they replied.  A task     *)
(* hears once and replies once, a reply tells what was heard, and so does  *)
(* the outcome.                                                            *)

DoneAt(s) == {t \in targets : task[s][t] = "Done"}

HearsOnce(s) ==
  \A t \in targets :
    /\ task[s][t] \in {"Idle", "Lock", "Connect", "Write"} => heard[s][t] = "nothing"
    /\ task[s][t] = "Clear" => heard[s][t] = "lost"
    /\ task[s][t] = "Done" => heard[s][t] # "nothing"

RepliesTell(s) ==
  /\ Says(replies[s], TRUE) => \E t \in targets : heard[s][t] \in Good(kind)
  /\ Says(replies[s], FALSE) => \E t \in targets : heard[s][t] \in Bad
  /\ Sender.rule = FirstSuccess =>
       ((\E t \in targets : heard[s][t] \notin {"nothing", "lost"}) => Says(replies[s], TRUE))

OutcomeTells(s) ==
  /\ call[s] = "Success" => \E t \in targets : heard[s][t] \in Good(kind)
  /\ call[s] = "Error" =>
       IF Sender.rule = FirstSuccess
       THEN \A t \in targets : heard[s][t] = "lost"
       ELSE \E t \in targets : heard[s][t] \in Bad

LEMMA NothingIsNeither == "nothing" \notin Good(kind) /\ "nothing" \notin Bad
BY DEF Good, Bad, Written

SendAt(s) ==
  /\ call[s] \in {"Idle", "Timed", "Throttled"} => \A t \in targets : task[s][t] = "Idle"
  /\ HearsOnce(s) /\ RepliesTell(s) /\ OutcomeTells(s)
  /\ Len(replies[s]) = Cardinality(DoneAt(s))

Sends == \A s \in Send : SendAt(s)

LEMMA Done ==
  ASSUME Types, NEW s \in Send
  PROVE  /\ IsFiniteSet(DoneAt(s)) /\ Cardinality(DoneAt(s)) \in Nat
         /\ \A t : t \notin DoneAt(s) =>
              Cardinality(DoneAt(s) \cup {t}) = Cardinality(DoneAt(s)) + 1
         /\ Cardinality(DoneAt(s)) = Cardinality(targets) => DoneAt(s) = targets
<1>1. IsFiniteSet(targets)
  BY SendersAssumption, FS_Subset DEF Types
<1>2. DoneAt(s) \in SUBSET targets
  BY DEF DoneAt
<1>3. /\ IsFiniteSet(DoneAt(s))
      /\ Cardinality(DoneAt(s)) = Cardinality(targets) => DoneAt(s) = targets
  BY <1>1, <1>2, FS_Subset
<1> QED BY <1>3, FS_CardinalityType, FS_AddElement

LEMMA SendsInit == Init => Sends
<1> SUFFICES ASSUME Init, NEW s \in Send PROVE SendAt(s)
  BY DEF Sends
<1>1. /\ call[s] = "Idle" /\ replies[s] = <<>>
      /\ \A t \in targets : heard[s][t] = "nothing" /\ task[s][t] = "Idle"
  BY Callers DEF Init
<1>2. DoneAt(s) = {}
  BY <1>1 DEF DoneAt
<1>3. Len(replies[s]) = Cardinality(DoneAt(s))
  BY <1>1, <1>2, FS_EmptySet
<1>4. ~Says(replies[s], TRUE) /\ ~Says(replies[s], FALSE)
  BY <1>1 DEF Says
<1> QED BY <1>1, <1>3, <1>4 DEF SendAt, HearsOnce, RepliesTell, OutcomeTells

(* A send that a step leaves alone. *)
LEMMA Others ==
  ASSUME NEW s \in Send, SendAt(s), kind' = kind, targets' = targets,
         call'[s] = call[s], replies'[s] = replies[s],
         \A t \in targets : task'[s][t] = task[s][t] /\ heard'[s][t] = heard[s][t]
  PROVE  SendAt(s)'
<1>1. DoneAt(s)' = DoneAt(s)
  BY DEF DoneAt
<1>2. Sender' = Sender
  BY DEF Sender
<1>3. HearsOnce(s)'
  BY DEF SendAt, HearsOnce
<1>4. RepliesTell(s)'
  BY <1>2 DEF SendAt, RepliesTell
<1>5. OutcomeTells(s)'
  BY <1>2 DEF SendAt, OutcomeTells
<1> QED BY <1>1, <1>3, <1>4, <1>5 DEF SendAt

(* A task of the send moves on, and may hear what it had not heard. *)
LEMMA Goes ==
  ASSUME Types, NEW s \in Send, NEW t \in targets, NEW there \in Place, SendAt(s),
         kind' = kind, targets' = targets, call' = call,
         task[s][t] # "Idle", At(s, t, there), there # "Idle",
         \A t2 \in targets : t2 # t => heard'[s][t2] = heard[s][t2],
         heard'[s][t] = heard[s][t] \/ heard[s][t] = "nothing",
         there \in {"Lock", "Connect", "Write"} => heard'[s][t] = "nothing",
         there = "Clear" => heard'[s][t] = "lost",
         there = "Done" => heard'[s][t] # "nothing"
  PROVE  /\ call[s] \notin {"Idle", "Timed", "Throttled"}
         /\ HearsOnce(s)' /\ OutcomeTells(s)'
<1>1. call[s] \notin {"Idle", "Timed", "Throttled"}
  BY DEF SendAt
<1>2. task'[s][t] = there /\ \A t2 \in targets : t2 # t => task'[s][t2] = task[s][t2]
  BY Callers, Moves
<1>3. HearsOnce(s)'
  BY <1>2 DEF SendAt, HearsOnce, Place
<1>4. Sender' = Sender
  BY DEF Sender
<1>5. OutcomeTells(s)'
  <2>1. Good(kind)' = Good(kind)
    OBVIOUS
  <2> QED BY <1>4, <2>1, NothingIsNeither DEF SendAt, OutcomeTells
<1> QED BY <1>1, <1>3, <1>5

(* ... without a reply *)
LEMMA Silent ==
  ASSUME Types, NEW s \in Send, NEW t \in targets, SendAt(s),
         NEW there \in {"Connect", "Write", "Clear"}, At(s, t, there),
         kind' = kind, targets' = targets, call' = call, replies'[s] = replies[s],
         task[s][t] \in {"Lock", "Connect", "Write"},
         \A t2 \in targets : t2 # t => heard'[s][t2] = heard[s][t2],
         heard'[s][t] = IF there = "Clear" THEN "lost" ELSE heard[s][t]
  PROVE  SendAt(s)'
<1>1. heard[s][t] = "nothing" /\ there \in Place
  BY DEF SendAt, HearsOnce, Place
<1>2. call[s] \notin {"Idle", "Timed", "Throttled"} /\ HearsOnce(s)' /\ OutcomeTells(s)'
  BY <1>1, Goes
<1>3. DoneAt(s)' = DoneAt(s)
  <2>1. task'[s][t] = there /\ \A t2 \in targets : t2 # t => task'[s][t2] = task[s][t2]
    BY <1>1, Callers, Moves
  <2> QED BY <2>1 DEF DoneAt
<1>4. RepliesTell(s)'
  <2>1. Sender' = Sender
    BY DEF Sender
  <2>2. Good(kind)' = Good(kind)
    OBVIOUS
  <2> QED BY <1>1, <2>1, <2>2, NothingIsNeither DEF SendAt, RepliesTell
<1> QED BY <1>2, <1>3, <1>4 DEF SendAt

(* ... with its only one *)
LEMMA Replies ==
  ASSUME Types, NEW s \in Send, NEW t \in targets, SendAt(s), NEW verdict \in BOOLEAN,
         At(s, t, "Done"), replies' = [replies EXCEPT ![s] = Append(@, verdict)],
         kind' = kind, targets' = targets, call' = call,
         task[s][t] \in {"Write", "Clear"},
         \A t2 \in targets : t2 # t => heard'[s][t2] = heard[s][t2],
         heard'[s][t] = heard[s][t] \/ heard[s][t] = "nothing",
         heard'[s][t] # "nothing",
         verdict => heard'[s][t] \in Good(kind),
         ~verdict => heard'[s][t] \in Bad,
         Sender.rule = FirstSuccess /\ heard'[s][t] # "lost" => verdict
  PROVE  SendAt(s)'
<1>1. "Done" \in Place
  BY DEF Place
<1>2. call[s] \notin {"Idle", "Timed", "Throttled"} /\ HearsOnce(s)' /\ OutcomeTells(s)'
  BY <1>1, Goes
<1>3. task'[s][t] = "Done" /\ \A t2 \in targets : t2 # t => task'[s][t2] = task[s][t2]
  BY <1>1, Callers, Moves
<1>4. DoneAt(s)' = DoneAt(s) \cup {t} /\ t \notin DoneAt(s)
  BY <1>3 DEF DoneAt
<1>5. replies[s] \in Seq(BOOLEAN) /\ replies'[s] = Append(replies[s], verdict)
  BY Replied DEF Types
<1>6. Len(replies'[s]) = Cardinality(DoneAt(s))'
  <2>1. Len(replies'[s]) = Len(replies[s]) + 1
    BY <1>5, SaysAppend
  <2>2. Cardinality(DoneAt(s)') = Cardinality(DoneAt(s)) + 1
    BY <1>4, Done
  <2> QED BY <2>1, <2>2 DEF SendAt
<1>7. /\ Says(replies'[s], TRUE) <=> (verdict \/ Says(replies[s], TRUE))
      /\ Says(replies'[s], FALSE) <=> (~verdict \/ Says(replies[s], FALSE))
  <2>1. \A c \in BOOLEAN : Says(replies'[s], c) <=> (verdict = c \/ Says(replies[s], c))
    <3> DEFINE Verdicts == BOOLEAN
               q == replies[s]
    <3>1. q \in Seq(Verdicts) /\ verdict \in Verdicts
      BY <1>5
    <3> HIDE DEF Verdicts, q
    <3>2. \A c \in Verdicts : Says(Append(q, verdict), c) <=> (verdict = c \/ Says(q, c))
      BY <3>1, SaysAppend, Zenon
    <3>3. replies'[s] = Append(q, verdict)
      BY <1>5 DEF q
    <3> QED BY <3>2, <3>3, Zenon DEF Verdicts, q
  <2>2. /\ Says(replies'[s], TRUE) <=> (verdict = TRUE \/ Says(replies[s], TRUE))
        /\ Says(replies'[s], FALSE) <=> (verdict = FALSE \/ Says(replies[s], FALSE))
    BY <2>1, TRUE \in BOOLEAN, FALSE \in BOOLEAN, Zenon
  <2>3. (verdict = TRUE <=> verdict) /\ (verdict = FALSE <=> ~verdict)
    OBVIOUS
  <2> QED BY <2>2, <2>3, Zenon
<1>8. RepliesTell(s)'
  <2> DEFINE yes == Says(replies[s], TRUE)
             no == Says(replies[s], FALSE)
             yes2 == Says(replies'[s], TRUE)
             no2 == Says(replies'[s], FALSE)
  <2>1. /\ yes2 <=> (verdict \/ yes)
        /\ no2 <=> (~verdict \/ no)
    BY <1>7
  <2>2. Sender' = Sender
    BY DEF Sender
  <2>3. /\ yes => \E t2 \in targets : heard[s][t2] \in Good(kind)
        /\ no => \E t2 \in targets : heard[s][t2] \in Bad
        /\ Sender.rule = FirstSuccess =>
             ((\E t2 \in targets : heard[s][t2] \notin {"nothing", "lost"}) => yes)
    BY DEF SendAt, RepliesTell
  <2>4. RepliesTell(s)' <=>
          /\ yes2 => \E t2 \in targets : heard'[s][t2] \in Good(kind)
          /\ no2 => \E t2 \in targets : heard'[s][t2] \in Bad
          /\ Sender.rule = FirstSuccess =>
               ((\E t2 \in targets : heard'[s][t2] \notin {"nothing", "lost"}) => yes2)
    BY <2>2 DEF RepliesTell
  <2> HIDE DEF yes, no, yes2, no2
  <2>5. yes2 => \E t2 \in targets : heard'[s][t2] \in Good(kind)
    BY <2>1, <2>3, NothingIsNeither
  <2>6. no2 => \E t2 \in targets : heard'[s][t2] \in Bad
    BY <2>1, <2>3, NothingIsNeither
  <2>7. Sender.rule = FirstSuccess =>
          ((\E t2 \in targets : heard'[s][t2] \notin {"nothing", "lost"}) => yes2)
    BY <2>1, <2>3
  <2> QED BY <2>4, <2>5, <2>6, <2>7
<1> QED BY <1>2, <1>6, <1>8 DEF SendAt

LEMMA SendsStep == Types /\ Places /\ Sends /\ [Next]_vars => Sends'
<1> SUFFICES ASSUME Types, Places, Sends, [Next]_vars, NEW s \in Send PROVE SendAt(s)'
  BY DEF Sends
<1> USE Callers
<1>0. kind' = kind /\ targets' = targets /\ SendAt(s)
  BY Fixed DEF Sends
<1>1. ASSUME NEW r \in Send, Call(r) \/ TakeThrottle(r) PROVE SendAt(s)'
  <2> USE DEF Call, TakeThrottle, StartTasks
  <2>0. heard' = heard /\ replies' = replies
    BY <1>1
  <2>1. CASE r # s
    <3>1. call'[s] = call[s]
      BY <1>1, <2>1 DEF Types
    <3>2. \A t \in targets : task'[s][t] = task[s][t]
      BY <1>1, <2>1 DEF Types
    <3> QED BY <1>0, <2>0, <3>1, <3>2, Others
  <2>2. CASE r = s
    <3>1. call[s] \in {"Idle", "Timed"} /\ \A t \in targets : task[s][t] = "Idle" /\ heard[s][t] = "nothing"
      BY <1>0, <1>1, <2>2 DEF SendAt, HearsOnce
    <3>2. call'[s] \in {"Timed", "Throttled", "Sending"}
      BY <1>1, <2>2 DEF Types
    <3>3. \A t \in targets : /\ task'[s][t] \in {"Idle", "Lock", "Write"}
                             /\ call'[s] # "Sending" => task'[s][t] = "Idle"
      <4>1. CASE call'[s] \in {"Timed", "Throttled"}
        BY <1>1, <2>2, <3>1, <4>1 DEF Types
      <4>2. CASE call'[s] = "Sending"
        <5>1. task' = [task EXCEPT ![s] = [t \in targets |-> IF Sender.quic THEN "Lock" ELSE "Write"]]
          BY <1>1, <2>2, <4>2 DEF Types
        <5> QED BY <4>2, <5>1 DEF Types
      <4> QED BY <3>2, <4>1, <4>2
    <3>4. DoneAt(s)' = DoneAt(s)
      BY <1>0, <3>1, <3>3 DEF DoneAt
    <3>5. HearsOnce(s)'
      BY <1>0, <2>0, <3>1, <3>3 DEF HearsOnce
    <3>6. RepliesTell(s)'
      BY <1>0, <2>0 DEF SendAt, RepliesTell, Sender
    <3>7. OutcomeTells(s)'
      BY <3>2 DEF OutcomeTells
    <3> QED BY <1>0, <2>0, <3>2, <3>3, <3>4, <3>5, <3>6, <3>7 DEF SendAt
  <2> QED BY <2>1, <2>2
<1>2. ASSUME NEW r \in Send, Outcome(r) PROVE SendAt(s)'
  <2>0. task' = task /\ heard' = heard /\ replies' = replies
    BY <1>2 DEF Outcome, taskVars
  <2>1. CASE r # s
    <3>1. call'[s] = call[s]
      BY <1>2, <2>1 DEF Outcome, Types
    <3> QED BY <1>0, <2>0, <3>1, Others
  <2>2. CASE r = s
    <3>1. PICK success \in BOOLEAN :
            /\ Decides(s, success)
            /\ call' = [call EXCEPT ![s] = IF success THEN "Success" ELSE "Error"]
      BY <1>2, <2>2 DEF Outcome
    <3>2. call'[s] = IF success THEN "Success" ELSE "Error"
      BY <3>1 DEF Types
    <3>3. replies[s] \in Seq(BOOLEAN)
      BY DEF Types
    <3>4. /\ success => Says(replies[s], TRUE)
          /\ ~success /\ Sender.rule = "first" => Says(replies[s], FALSE)
          /\ ~success /\ Sender.rule # "first" =>
               ~Says(replies[s], TRUE) /\ Len(replies[s]) = Cardinality(targets)
      BY <3>1, <3>3, DecidesSays
    <3>5. Sender.rule \in {"first", FirstSuccess}
      BY Table DEF Types, Sender
    <3>6. ~success /\ Sender.rule = FirstSuccess => \A t \in targets : heard[s][t] = "lost"
      <4> SUFFICES ASSUME ~success, Sender.rule = FirstSuccess, NEW t \in targets
                   PROVE  heard[s][t] = "lost"
        OBVIOUS
      <4>1. ~Says(replies[s], TRUE) /\ Cardinality(DoneAt(s)) = Cardinality(targets)
        BY <1>0, <3>4 DEF SendAt, FirstSuccess
      <4>2. task[s][t] = "Done"
        BY <4>1, Done DEF DoneAt
      <4> QED BY <1>0, <4>1, <4>2 DEF SendAt, HearsOnce, RepliesTell
    <3>7. OutcomeTells(s)'
      <4>1. Sender' = Sender
        BY <1>0 DEF Sender
      <4>2. CASE success
        BY <1>0, <2>0, <3>2, <3>4, <4>2 DEF OutcomeTells, SendAt, RepliesTell
      <4>3. CASE ~success
        <5>1. Sender.rule # FirstSuccess => \E t \in targets : heard[s][t] \in Bad
          BY <1>0, <3>4, <3>5, <4>3 DEF SendAt, RepliesTell
        <5> QED BY <1>0, <2>0, <3>2, <3>6, <4>1, <4>3, <5>1 DEF OutcomeTells
      <4> QED BY <4>2, <4>3
    <3>8. HearsOnce(s)' /\ DoneAt(s)' = DoneAt(s)
      BY <1>0, <2>0 DEF SendAt, HearsOnce, DoneAt
    <3>9. RepliesTell(s)'
      BY <1>0, <2>0 DEF SendAt, RepliesTell, Sender
    <3> QED BY <1>0, <2>0, <3>2, <3>7, <3>8, <3>9 DEF SendAt
  <2> QED BY <2>1, <2>2
<1>3. ASSUME NEW r \in Caller, r # s, NEW t \in targets, Work(r, t) PROVE SendAt(s)'
  <2>1. call' = call /\ replies'[s] = replies[s]
    BY <1>3 DEF Work, GetConn, Connected, ConnectFails, Answered, Lost, ClearSlot, Types
  <2>2. PICK there \in Place : At(r, t, there)
    BY <1>3 DEF Work, GetConn, Connected, ConnectFails, Answered, Lost, ClearSlot, Place
  <2>3. \A t2 \in targets : task'[s][t2] = task[s][t2]
    BY <1>3, <2>2, Moves
  <2>4. \A t2 \in targets : heard'[s][t2] = heard[s][t2]
    BY <1>3 DEF Work, GetConn, Connected, ConnectFails, Answered, Lost, ClearSlot, Types
  <2> QED BY <1>0, <2>1, <2>3, <2>4, Others
<1> DEFINE Same(t) == \A t2 \in targets : t2 # t => heard'[s][t2] = heard[s][t2]
<1>4. ASSUME NEW t \in targets, GetConn(s, t) PROVE SendAt(s)'
  <2>1. PICK there \in {"Connect", "Write"} : At(s, t, there)
    BY <1>4 DEF GetConn
  <2> QED BY <1>0, <1>4, <2>1, Silent DEF GetConn
<1>5. ASSUME NEW t \in targets, Connected(s, t) PROVE SendAt(s)'
  <2>1. At(s, t, "Write")
    BY <1>5 DEF Connected
  <2> QED BY <1>0, <1>5, <2>1, Silent DEF Connected
<1>6. ASSUME NEW t \in targets, ConnectFails(s, t) PROVE SendAt(s)'
  <2>1. At(s, t, "Clear") /\ Same(t) /\ heard'[s][t] = "lost"
    BY <1>6 DEF ConnectFails, Types
  <2> QED BY <1>0, <1>6, <2>1, Silent DEF ConnectFails
<1>7. ASSUME NEW t \in targets, NEW reading \in Readings[kind], Answered(s, t, reading)
      PROVE  SendAt(s)'
  <2>1. /\ reading.meaning \in Meanings \cup {"finished"} /\ reading.success \in BOOLEAN
        /\ reading.success => reading.meaning \in Good(kind)
        /\ ~reading.success => reading.meaning \in Bad
        /\ Sender.rule = FirstSuccess => reading.success
    BY ReadingsAre DEF Types, Sender
  <2>2. Same(t) /\ heard'[s][t] = reading.meaning
    BY <1>7 DEF Answered, Types
  <2>3. heard[s][t] = "nothing"
    BY <1>0, <1>7 DEF Answered, SendAt, HearsOnce
  <2>4. /\ At(s, t, "Done") /\ call' = call /\ task[s][t] = "Write"
        /\ replies' = [replies EXCEPT ![s] = Append(@, reading.success)]
    BY <1>7 DEF Answered
  <2> DEFINE verdict == reading.success
  <2>5. /\ verdict \in BOOLEAN /\ replies' = [replies EXCEPT ![s] = Append(@, verdict)]
        /\ verdict => heard'[s][t] \in Good(kind)
        /\ ~verdict => heard'[s][t] \in Bad
        /\ Sender.rule = FirstSuccess => verdict
        /\ heard'[s][t] # "nothing"
    BY <2>1, <2>2, <2>4, NothingIsNeither
  <2> HIDE DEF verdict
  <2> QED BY <1>0, <2>2, <2>3, <2>4, <2>5, Replies
<1>8. ASSUME NEW t \in targets, Lost(s, t) PROVE SendAt(s)'
  <2>1. Same(t) /\ heard'[s][t] = "lost" /\ task[s][t] = "Write" /\ call' = call
    BY <1>8 DEF Lost, Types
  <2>2. heard[s][t] = "nothing"
    BY <1>0, <2>1 DEF SendAt, HearsOnce
  <2>3. CASE Sender.quic
    BY <1>0, <1>8, <2>1, <2>3, Silent DEF Lost
  <2>4. CASE ~Sender.quic
    <3>1. FALSE \in BOOLEAN /\ At(s, t, "Done") /\ replies' = [replies EXCEPT ![s] = Append(@, FALSE)]
      BY <1>8, <2>4 DEF Lost
    <3>2. Sender.rule = FirstSuccess /\ heard'[s][t] # "lost" => FALSE
      BY <2>1
    <3> QED BY <1>0, <2>1, <2>2, <3>1, <3>2, Replies DEF Bad
  <2> QED BY <2>3, <2>4
<1>9. ASSUME NEW t \in targets, ClearSlot(s, t) PROVE SendAt(s)'
  <2>1. /\ FALSE \in BOOLEAN /\ At(s, t, "Done") /\ task[s][t] = "Clear"
        /\ replies' = [replies EXCEPT ![s] = Append(@, FALSE)] /\ call' = call /\ heard' = heard
    BY <1>9 DEF ClearSlot
  <2>2. heard[s][t] = "lost"
    BY <1>0, <2>1 DEF SendAt, HearsOnce
  <2> QED BY <1>0, <2>1, <2>2, Replies DEF Bad
<1>10. CASE (\E t \in targets : PeerCloses(t)) \/ Tick \/ UNCHANGED vars
  <2>1. UNCHANGED <<call, task, heard, replies>>
    BY <1>10 DEF PeerCloses, Tick, vars, taskVars
  <2> QED BY <1>0, <2>1, Others
<1>11. ASSUME NEW r \in Send, NEW t \in targets, CopyDropped(r, t) PROVE SendAt(s)'
  <2>0. UNCHANGED <<call, task, replies>>
    BY <1>11 DEF CopyDropped
  <2>1. CASE r # s
    <3>1. \A t2 \in targets : heard'[s][t2] = heard[s][t2]
      BY <1>11, <2>1 DEF CopyDropped, Types
    <3> QED BY <1>0, <2>0, <3>1, Others
  <2>2. CASE r = s
    <3>1. /\ heard[s][t] = "finished" /\ heard'[s][t] = "dropped"
          /\ \A t2 \in targets : t2 # t => heard'[s][t2] = heard[s][t2]
      BY <1>11, <2>2 DEF CopyDropped, Types
    <3>2. /\ Good(kind)' = Good(kind) /\ Sender' = Sender
          /\ "finished" \in Good(kind) => "dropped" \in Good(kind)
          /\ "finished" \notin Bad
      BY <1>0 DEF Good, Bad, Written, Sender
    <3>3. HearsOnce(s)' /\ DoneAt(s)' = DoneAt(s)
      BY <1>0, <2>0, <3>1 DEF SendAt, HearsOnce, DoneAt
    <3>4. \A t2 \in targets :
            /\ heard[s][t2] \in Good(kind) => heard'[s][t2] \in Good(kind)
            /\ heard[s][t2] \in Bad => heard'[s][t2] \in Bad
            /\ heard[s][t2] = "lost" <=> heard'[s][t2] = "lost"
            /\ heard[s][t2] = "nothing" <=> heard'[s][t2] = "nothing"
      BY <3>1, <3>2
    <3>5. RepliesTell(s)'
      BY <1>0, <2>0, <3>2, <3>4 DEF SendAt, RepliesTell
    <3>6. OutcomeTells(s)'
      BY <1>0, <2>0, <3>2, <3>4 DEF SendAt, OutcomeTells
    <3> QED BY <1>0, <2>0, <3>3, <3>5, <3>6 DEF SendAt
  <2> QED BY <2>1, <2>2
<1> QED
  BY <1>1, <1>2, <1>3, <1>4, <1>5, <1>6, <1>7, <1>8, <1>9, <1>10, <1>11 DEF Next, Work

-----------------------------------------------------------------------------
(* The throttle's mark is the latest reading of the sends that passed: a   *)
(* send passes only with a later one.                                      *)

Leaves(s) == call[s] \notin {"Idle", "Timed", "Throttled"}

Pace ==
  /\ last_send_at \in -1 .. clock
  /\ \A s \in Send : call[s] # "Idle" => called_at[s] <= clock
  /\ \A s \in Send : call[s] = "Timed" => Throttling
  /\ Throttling =>
       /\ \A s \in Send : Leaves(s) => called_at[s] <= last_send_at
       /\ last_send_at # -1 => \E s \in Send : Leaves(s) /\ called_at[s] = last_send_at

LEMMA PaceInit == Init => Pace
BY DEF Init, Pace, Leaves

LEMMA Interval == min_send_interval \in Nat
BY SendersAssumption

(* Paced, in two parts. *)
Apart(r, s) ==
  \/ called_at[r] - called_at[s] >= min_send_interval
  \/ called_at[s] - called_at[r] >= min_send_interval

TooSoonAfter(s, q) == Leaves(q) /\ called_at[s] - called_at[q] < min_send_interval

LEMMA PacedIs ==
  Paced <=> (Sender.throttles =>
    /\ \A r, s \in Send : r # s /\ Leaves(r) /\ Leaves(s) => Apart(r, s)
    /\ \A s \in Send : call[s] = "Throttled" => \E q \in Send : TooSoonAfter(s, q))
<1>1. \A r, s \in Send :
        {call[r], call[s]} \cap {"Idle", "Timed", "Throttled"} = {} <=> Leaves(r) /\ Leaves(s)
  BY DEF Leaves
<1>2. Paced => (Sender.throttles =>
        /\ \A r, s \in Send : r # s /\ Leaves(r) /\ Leaves(s) => Apart(r, s)
        /\ \A s \in Send : call[s] = "Throttled" => \E q \in Send : TooSoonAfter(s, q))
  BY <1>1 DEF Paced, Apart, TooSoonAfter, Leaves
<1>3. ASSUME Sender.throttles =>
        /\ \A r, s \in Send : r # s /\ Leaves(r) /\ Leaves(s) => Apart(r, s)
        /\ \A s \in Send : call[s] = "Throttled" => \E q \in Send : TooSoonAfter(s, q)
      PROVE  Paced
  BY <1>1, <1>3 DEF Paced, Apart, TooSoonAfter, Leaves
<1> QED BY <1>2, <1>3

LEMMA PaceStep ==
  ASSUME Types, Pace, Paced, [Next]_vars
  PROVE  Pace' /\ Paced'
<1>0. kind' = kind /\ Sender' = Sender /\ Sender.throttles \in BOOLEAN /\ Throttling' = Throttling
  BY Fixed, Table DEF Sender, Types, Throttling
<1>a. /\ clock \in Nat /\ last_send_at \in -1 .. clock /\ min_send_interval \in Nat
      /\ \A r \in Send : called_at[r] \in Nat
  BY Interval DEF Types, Pace
(* Nobody passes or is turned away. *)
<1>1. ASSUME UNCHANGED last_send_at, clock' \in Nat, clock' >= clock,
             \A s \in Send :
               /\ Leaves(s)' <=> Leaves(s)
               /\ call'[s] = "Throttled" <=> call[s] = "Throttled"
               /\ call'[s] = "Timed" => Throttling
               /\ \/ called_at'[s] = called_at[s] /\ (call'[s] = "Idle" <=> call[s] = "Idle")
                  \/ ~Leaves(s) /\ call[s] # "Throttled" /\ called_at'[s] <= clock'
      PROVE  Pace' /\ Paced'
  <2>1. last_send_at' \in -1 .. clock'
    BY <1>a, <1>1
  <2>2. \A s \in Send : call'[s] # "Idle" => called_at'[s] <= clock'
    <3> SUFFICES ASSUME NEW s \in Send, call'[s] # "Idle" PROVE called_at'[s] <= clock'
      OBVIOUS
    <3>1. CASE called_at'[s] = called_at[s] /\ (call'[s] = "Idle" <=> call[s] = "Idle")
      <4>1. called_at[s] <= clock
        BY <3>1 DEF Pace
      <4> QED BY <1>a, <1>1, <3>1, <4>1
    <3> QED BY <1>1, <3>1
  <2>3. \A s \in Send : Leaves(s) \/ call[s] = "Throttled" => called_at'[s] = called_at[s]
    BY <1>1
  <2>4. Pace'
    <3>1. ASSUME Throttling
          PROVE  /\ \A s \in Send : Leaves(s)' => called_at'[s] <= last_send_at'
                 /\ last_send_at' # -1 => \E s \in Send : Leaves(s)' /\ called_at'[s] = last_send_at'
      <4>1. /\ \A s \in Send : Leaves(s) => called_at[s] <= last_send_at
            /\ last_send_at # -1 => \E s \in Send : Leaves(s) /\ called_at[s] = last_send_at
        BY <3>1 DEF Pace
      <4> QED BY <1>1, <2>3, <4>1
    <3> QED BY <1>0, <1>1, <2>1, <2>2, <3>1 DEF Pace
  <2>5. Paced'
    <3>1. Sender.throttles =>
            /\ \A r, s \in Send : r # s /\ Leaves(r) /\ Leaves(s) => Apart(r, s)
            /\ \A s \in Send : call[s] = "Throttled" => \E q \in Send : TooSoonAfter(s, q)
      BY PacedIs
    <3>2. \A r, s \in Send : Leaves(r) /\ Leaves(s) /\ Apart(r, s) => Apart(r, s)'
      BY <2>3 DEF Apart
    <3>3. \A s, q \in Send : call[s] = "Throttled" /\ TooSoonAfter(s, q) => TooSoonAfter(s, q)'
      BY <1>1, <2>3 DEF TooSoonAfter
    <3>4. Sender'.throttles =>
            /\ \A r, s \in Send : r # s /\ Leaves(r)' /\ Leaves(s)' => Apart(r, s)'
            /\ \A s \in Send : call'[s] = "Throttled" => \E q \in Send : TooSoonAfter(s, q)'
      BY <1>0, <1>1, <3>1, <3>2, <3>3
    <3>5. \A r, s2 \in Send :
            {call'[r], call'[s2]} \cap {"Idle", "Timed", "Throttled"} = {} <=> Leaves(r)' /\ Leaves(s2)'
      BY DEF Leaves
    <3> QED BY <3>4, <3>5 DEF Paced, Apart, TooSoonAfter, Leaves
  <2> QED BY <2>4, <2>5
<1>2. ASSUME NEW s \in Send, Call(s), Throttling PROVE Pace' /\ Paced'
  <2>1. /\ call[s] = "Idle" /\ call'[s] = "Timed" /\ called_at'[s] = clock
        /\ clock' = clock /\ last_send_at' = last_send_at
        /\ \A r \in Send : r # s => called_at'[r] = called_at[r] /\ call'[r] = call[r]
    BY <1>2 DEF Call, Types
  <2>2. \A r \in Send : call[r] = "Timed" => Throttling
    BY DEF Pace
  <2> QED BY <1>a, <1>1, <1>2, <2>1, <2>2 DEF Leaves
(* One send passes, or is turned away: the others stay as they are. *)
<1>3. ASSUME NEW s \in Send, ~Leaves(s), call[s] # "Throttled", clock' = clock,
             call'[s] \in {"Sending", "Throttled"}, called_at'[s] <= clock, called_at'[s] \in Nat,
             \A r \in Send : r # s => called_at'[r] = called_at[r] /\ call'[r] = call[r],
             last_send_at' \in -1 .. clock,
             Throttling =>
               /\ last_send_at' # -1
               /\ \/ last_send_at' = last_send_at
                  \/ last_send_at' > last_send_at /\ last_send_at' = called_at'[s] /\ Leaves(s)'
               /\ Leaves(s)' => called_at'[s] <= last_send_at',
             Sender.throttles => \A r \in Send : r # s /\ Leaves(r) /\ Leaves(s)' => Apart(r, s)',
             Sender.throttles /\ call'[s] = "Throttled" =>
               \E q \in Send : q # s /\ Leaves(q) /\ called_at'[s] - called_at[q] < min_send_interval
      PROVE  Pace' /\ Paced'
  <2>1. \A r \in Send : r # s => (Leaves(r)' <=> Leaves(r))
    BY <1>3 DEF Leaves
  <2>2. Pace'
    <3>1. \A r \in Send : call'[r] # "Idle" => called_at'[r] <= clock'
      BY <1>3 DEF Pace
    <3>2. \A r \in Send : call'[r] = "Timed" => Throttling
      BY <1>3 DEF Pace
    <3>3. ASSUME Throttling
          PROVE  /\ \A r \in Send : Leaves(r)' => called_at'[r] <= last_send_at'
                 /\ \E r \in Send : Leaves(r)' /\ called_at'[r] = last_send_at'
      <4>1. /\ \A r \in Send : Leaves(r) => called_at[r] <= last_send_at
            /\ last_send_at # -1 => \E r \in Send : Leaves(r) /\ called_at[r] = last_send_at
        BY <3>3 DEF Pace
      <4>2. last_send_at' >= last_send_at
        BY <1>a, <1>3, <3>3
      <4>3. ASSUME NEW r \in Send, Leaves(r)' PROVE called_at'[r] <= last_send_at'
        <5>1. CASE r = s
          BY <1>3, <3>3, <4>3, <5>1
        <5>2. CASE r # s
          BY <1>a, <1>3, <2>1, <4>1, <4>2, <4>3, <5>2
        <5> QED BY <5>1, <5>2
      <4>4. \E r \in Send : Leaves(r)' /\ called_at'[r] = last_send_at'
        <5>1. CASE last_send_at' = last_send_at
          <6>1. PICK q \in Send : Leaves(q) /\ called_at[q] = last_send_at
            BY <1>3, <3>3, <4>1, <5>1
          <6> QED BY <1>3, <2>1, <5>1, <6>1
        <5>2. CASE last_send_at' = called_at'[s] /\ Leaves(s)'
          BY <5>2
        <5> QED BY <1>3, <3>3, <5>1, <5>2
      <4> QED BY <4>3, <4>4
    <3> QED BY <1>0, <1>3, <3>1, <3>2, <3>3 DEF Pace
  <2>3. Paced'
    <3>1. Sender.throttles =>
            /\ \A r, r2 \in Send : r # r2 /\ Leaves(r) /\ Leaves(r2) => Apart(r, r2)
            /\ \A r \in Send : call[r] = "Throttled" => \E q \in Send : TooSoonAfter(r, q)
      BY PacedIs
    <3>2. ASSUME Sender.throttles, NEW r \in Send, NEW r2 \in Send, r # r2, Leaves(r)', Leaves(r2)'
          PROVE  Apart(r, r2)'
      <4>1. CASE r = s
        <5>1. Apart(r2, r)'
          BY <1>3, <2>1, <3>2, <4>1
        <5> QED BY <5>1 DEF Apart
      <4>2. CASE r2 = s
        BY <1>3, <2>1, <3>2, <4>2
      <4>3. CASE r # s /\ r2 # s
        <5>1. Apart(r, r2)
          BY <2>1, <3>1, <3>2, <4>3
        <5> QED BY <1>3, <4>3, <5>1 DEF Apart
      <4> QED BY <4>1, <4>2, <4>3
    <3>3. ASSUME Sender.throttles, NEW r \in Send, call'[r] = "Throttled"
          PROVE  \E q \in Send : TooSoonAfter(r, q)'
      <4>1. CASE r = s
        <5>1. PICK q \in Send : q # s /\ Leaves(q) /\ called_at'[s] - called_at[q] < min_send_interval
          BY <1>3, <3>3, <4>1
        <5>2. Leaves(q)' /\ called_at'[q] = called_at[q]
          BY <1>3, <2>1, <5>1
        <5> QED BY <4>1, <5>1, <5>2 DEF TooSoonAfter
      <4>2. CASE r # s
        <5>1. call[r] = "Throttled"
          BY <1>3, <3>3, <4>2
        <5>2. PICK q \in Send : TooSoonAfter(r, q)
          BY <3>1, <3>3, <5>1
        <5>3. q # s
          BY <1>3, <5>2 DEF TooSoonAfter
        <5>4. Leaves(q)' /\ called_at'[q] = called_at[q] /\ called_at'[r] = called_at[r]
          BY <1>3, <2>1, <4>2, <5>2, <5>3 DEF TooSoonAfter
        <5> QED BY <5>2, <5>4 DEF TooSoonAfter
      <4> QED BY <4>1, <4>2
    <3>4. Sender'.throttles =>
            /\ \A r, r2 \in Send : r # r2 /\ Leaves(r)' /\ Leaves(r2)' => Apart(r, r2)'
            /\ \A r \in Send : call'[r] = "Throttled" => \E q \in Send : TooSoonAfter(r, q)'
      BY <1>0, <3>2, <3>3
    <3>5. \A r, s2 \in Send :
            {call'[r], call'[s2]} \cap {"Idle", "Timed", "Throttled"} = {} <=> Leaves(r)' /\ Leaves(s2)'
      BY DEF Leaves
    <3> QED BY <3>4, <3>5 DEF Paced, Apart, TooSoonAfter, Leaves
  <2> QED BY <2>2, <2>3
<1>4. ASSUME NEW s \in Send, Call(s), ~Throttling PROVE Pace' /\ Paced'
  <2>1. /\ call[s] = "Idle" /\ call'[s] = "Sending" /\ called_at'[s] = clock
        /\ clock' = clock /\ last_send_at' = last_send_at
        /\ \A r \in Send : r # s => called_at'[r] = called_at[r] /\ call'[r] = call[r]
    BY <1>4 DEF Call, StartTasks, Types
  <2>2. ~Leaves(s) /\ call[s] # "Throttled"
    BY <2>1 DEF Leaves
  <2>3. Sender.throttles => \A r \in Send : r # s /\ Leaves(r) /\ Leaves(s)' => Apart(r, s)'
    <3> SUFFICES ASSUME Sender.throttles, NEW r \in Send, r # s, Leaves(r) PROVE Apart(r, s)'
      OBVIOUS
    <3>1. min_send_interval = 0
      BY <1>a, <1>4 DEF Throttling
    <3> QED BY <1>a, <2>1, <3>1 DEF Apart
  <2> QED BY <1>3, <1>4, <1>a, <2>1, <2>2, <2>3
<1>5. ASSUME NEW s \in Send, TakeThrottle(s) PROVE Pace' /\ Paced'
  <2>1. /\ call[s] = "Timed" /\ clock' = clock /\ called_at' = called_at
        /\ \A r \in Send : r # s => call'[r] = call[r]
    BY <1>5 DEF TakeThrottle, StartTasks, Types
  <2>2. Throttling /\ called_at[s] <= clock /\ ~Leaves(s)
    BY <2>1 DEF Pace, Leaves
  <2>3. CASE throttled(called_at[s])
    <3>1. call'[s] = "Throttled" /\ last_send_at' = last_send_at
      BY <1>5, <2>3 DEF TakeThrottle, Types
    <3>2. last_send_at # -1 /\ called_at[s] - last_send_at < min_send_interval
      BY <2>3 DEF throttled
    <3>3. PICK q \in Send : Leaves(q) /\ called_at[q] = last_send_at
      BY <2>2, <3>2 DEF Pace
    <3>4. q # s /\ ~Leaves(s)'
      BY <2>2, <3>1, <3>3 DEF Leaves
    <3> QED BY <1>3, <1>a, <2>1, <2>2, <3>1, <3>2, <3>3, <3>4
  <2>4. CASE ~throttled(called_at[s])
    <3>1. call'[s] = "Sending" /\ last_send_at' = called_at[s]
      BY <1>5, <2>4 DEF TakeThrottle, StartTasks, Types
    <3>2. min_send_interval > 0
      BY <2>2 DEF Throttling
    <3>3. last_send_at = -1 \/ called_at[s] - last_send_at >= min_send_interval
      BY <1>a, <2>4, <3>2 DEF throttled
    <3>4. last_send_at' > last_send_at
      BY <1>a, <3>1, <3>2, <3>3
    <3>5. ASSUME NEW r \in Send, Leaves(r) PROVE called_at[s] - called_at[r] >= min_send_interval
      <4>1. called_at[r] <= last_send_at
        BY <2>2, <3>5 DEF Pace
      <4> QED BY <1>a, <3>3, <4>1
    <3>6. \A r \in Send : Leaves(r) => Apart(r, s)'
      BY <2>1, <3>5 DEF Apart
    <3>7. Leaves(s)' /\ last_send_at' \in -1 .. clock /\ last_send_at' # -1
      BY <1>a, <2>2, <3>1 DEF Leaves
    <3> QED BY <1>3, <1>a, <2>1, <2>2, <3>1, <3>4, <3>6, <3>7
  <2> QED BY <2>3, <2>4
<1>6. ASSUME UNCHANGED <<last_send_at, called_at>>, clock' \in Nat, clock' >= clock,
             \A r \in Send :
               \/ call'[r] = call[r]
               \/ call[r] = "Sending" /\ call'[r] \in {"Success", "Error"}
      PROVE  Pace' /\ Paced'
  <2>1. \A r \in Send : call[r] = "Timed" => Throttling
    BY DEF Pace
  <2>2. \A r \in Send :
          /\ Leaves(r)' <=> Leaves(r)
          /\ call'[r] = "Throttled" <=> call[r] = "Throttled"
          /\ call'[r] = "Timed" => Throttling
          /\ called_at'[r] = called_at[r] /\ (call'[r] = "Idle" <=> call[r] = "Idle")
    BY <1>6, <2>1 DEF Leaves
  <2> QED BY <1>1, <1>6, <2>2
<1>7. ASSUME NEW s \in Send, Outcome(s) PROVE Pace' /\ Paced'
  <2>1. UNCHANGED <<clock, last_send_at, called_at>> /\ clock \in Nat
    BY <1>7 DEF Outcome, throttleVars, Types
  <2>2. call[s] = "Sending" /\ call'[s] \in {"Success", "Error"}
        /\ \A r \in Send : r # s => call'[r] = call[r]
    BY <1>7 DEF Outcome, Types
  <2> QED BY <1>6, <2>1, <2>2
<1>8. ASSUME NEW s \in Caller, NEW t \in targets, Work(s, t) PROVE Pace' /\ Paced'
  <2>1. UNCHANGED <<clock, last_send_at, called_at, call>> /\ clock \in Nat
    BY <1>8 DEF Work, GetConn, Connected, ConnectFails, Answered, Lost, ClearSlot,
                throttleVars, Types
  <2> QED BY <1>6, <2>1
<1>9. ASSUME NEW t \in targets, PeerCloses(t) PROVE Pace' /\ Paced'
  BY <1>6, <1>9 DEF PeerCloses, throttleVars, Types
<1>10. ASSUME NEW s \in Send, NEW t \in targets, CopyDropped(s, t) PROVE Pace' /\ Paced'
  BY <1>6, <1>10 DEF CopyDropped, throttleVars, Types
<1>11. CASE Tick
  BY <1>6, <1>11 DEF Tick, Types
<1>12. CASE UNCHANGED vars
  BY <1>6, <1>12 DEF vars, throttleVars, Types
<1> QED BY <1>2, <1>4, <1>5, <1>7, <1>8, <1>9, <1>10, <1>11, <1>12 DEF Next

-----------------------------------------------------------------------------
(* The inductive invariant and what follows from it.                       *)

IInv ==
  /\ Types /\ clock <= MaxClock
  /\ Places /\ Conn /\ Sends /\ Pace /\ Paced

LEMMA InvInit == Init => IInv
<1> SUFFICES ASSUME Init PROVE IInv
  OBVIOUS
<1>1. clock <= MaxClock
  BY SendersAssumption DEF Init
<1>2. Places
  BY Callers DEF Init, Places
<1>3. Paced
  BY DEF Init, Paced
<1> QED BY <1>1, <1>2, <1>3, TypesInit, ConnInit, SendsInit, PaceInit DEF IInv

LEMMA InvStep == IInv /\ [Next]_vars => IInv'
<1> SUFFICES ASSUME IInv, [Next]_vars PROVE IInv'
  OBVIOUS
<1>1. Types' /\ Places'
  BY TypesStep DEF IInv
<1>2. Conn'
  BY ConnStep DEF IInv, Sends, SendAt, NoTasks
<1>3. Sends'
  BY SendsStep DEF IInv
<1>4. Pace' /\ Paced'
  BY PaceStep DEF IInv
<1>5. (clock <= MaxClock)'
  <2>1. clock \in Nat /\ MaxClock \in Nat /\ clock <= MaxClock
    BY SendersAssumption DEF IInv, Types
  <2>2. clock' = clock \/ (clock < MaxClock /\ clock' = clock + 1)
    <3>1. ASSUME NEW s \in Send, Call(s) \/ TakeThrottle(s) \/ Outcome(s) PROVE clock' = clock
      BY <3>1 DEF Call, TakeThrottle, Outcome, throttleVars
    <3>2. ASSUME NEW s \in Caller, NEW t \in targets, Work(s, t) PROVE clock' = clock
      BY <3>2 DEF Work, GetConn, Connected, ConnectFails, Answered, Lost, ClearSlot, throttleVars
    <3>3. ASSUME NEW t \in targets, PeerCloses(t) PROVE clock' = clock
      BY <3>3 DEF PeerCloses, throttleVars
    <3>4. Tick => clock < MaxClock /\ clock' = clock + 1
      BY DEF Tick
    <3>5. UNCHANGED vars => clock' = clock
      BY DEF vars, throttleVars
    <3>6. ASSUME NEW s \in Send, NEW t \in targets, CopyDropped(s, t) PROVE clock' = clock
      BY <3>6 DEF CopyDropped, throttleVars
    <3> QED BY <3>1, <3>2, <3>3, <3>4, <3>5, <3>6 DEF Next
  <2> QED BY <2>1, <2>2
<1> QED BY <1>1, <1>2, <1>3, <1>4, <1>5 DEF IInv

LEMMA Invariance == Spec => []IInv
<1> QED BY InvInit, InvStep, PTL DEF Spec

(* The state is what the sender's fields hold: a cached connection is one  *)
(* that was made, the slot's lock is held exactly by who is connecting,    *)
(* and an HTTP sender never has a connection.                              *)
THEOREM TypeCorrect == Spec => []TypeOK
<1>1. IInv => TypeOK
  <2> SUFFICES ASSUME IInv PROVE TypeOK
    OBVIOUS
  <2>1. /\ kind \in Kind /\ targets \subseteq Region
        /\ clock \in 0 .. MaxClock /\ last_send_at \in -1 .. clock
    <3>1. clock \in Nat /\ MaxClock \in Nat /\ clock <= MaxClock
      BY SendersAssumption DEF IInv, Types
    <3>2. clock \in 0 .. MaxClock
      BY <3>1
    <3> QED BY <3>2 DEF IInv, Types, Pace
  <2>2. /\ call \in [Send -> {"Idle", "Timed", "Sending"} \cup Ended]
        /\ task \in [Caller -> [targets -> {"Idle", "Lock", "Connect", "Write", "Clear", "Done"}]]
        /\ guard \in [targets -> Caller \cup {Free}]
    BY DEF IInv, Types, Place
  <2>3. ASSUME NEW t \in targets
        PROVE  /\ slot[t] \in 0 .. made[t] /\ closed[t] \subseteq 1 .. made[t]
               /\ \A s \in Caller : guard[t] = s <=> task[s][t] = "Connect"
               /\ \A s \in Caller : handle[s][t] \in 0 .. made[t]
               /\ ~Sender.quic => made[t] = 0
    <3>1. ConnAt(t) /\ made[t] \in Nat
      BY DEF IInv, Types, Conn
    <3>2. slot[t] \in 0 .. made[t]
      BY <3>1 DEF ConnAt
    <3> QED BY <3>1, <3>2 DEF ConnAt
  <2>4. ~Sender.quic => \A t \in targets : made[t] = 0
    BY <2>3
  <2>5. \A t \in targets :
          /\ slot[t] \in 0 .. made[t] /\ closed[t] \subseteq 1 .. made[t]
          /\ \A s \in Caller : guard[t] = s <=> task[s][t] = "Connect"
          /\ \A s \in Caller : handle[s][t] \in 0 .. made[t]
    BY <2>3
  <2> QED BY <2>1, <2>2, <2>4, <2>5, Zenon DEF TypeOK
<1> QED BY <1>1, Invariance, PTL

(* send_raw_transaction: a success over a protocol with answers follows an *)
(* answer of some target that is no refusal, or one of the listed refusals *)
(* the parser misreads; over uni streams it follows a finished write and   *)
(* says no more.  An error follows a failed or lost copy, or an answer     *)
(* that is no acceptance (under BloxrouteQuic: every copy was lost), in    *)
(* whatever order the replies come.                                        *)
THEOREM OutcomesAreTrue == Spec => []OutcomeIsTrue
<1>1. IInv => OutcomeIsTrue
  <2> SUFFICES ASSUME IInv, NEW s \in Send
               PROVE  /\ call[s] = "Success" =>
                           \E t \in targets :
                             heard[s][t] \in IF Sender.uni THEN {"finished", "dropped"}
                                                         ELSE {"accepted", "unclear", "misread"}
                      /\ call[s] = "Error" =>
                           IF Sender.rule = "first success"
                           THEN \A t \in targets : heard[s][t] = "lost"
                           ELSE \E t \in targets : heard[s][t] \in {"lost", "refused", "unclear"}
    BY DEF OutcomeIsTrue
  <2>1. OutcomeTells(s)
    BY DEF IInv, Sends, SendAt
  <2>2. Good(kind) = IF Sender.uni THEN {"finished", "dropped"}
                                   ELSE {"accepted", "unclear", "misread"}
    BY DEF Good, Sender, Written
  <2> QED BY <2>1, <2>2 DEF OutcomeTells, Bad, FirstSuccess
<1> QED BY <1>1, Invariance, PTL

(* The local throttle spaces the clock readings of the sends that pass by  *)
(* the interval and turns away only a send whose reading is less than the  *)
(* interval after, or before, that of one that passed.                     *)
THEOREM SendsArePaced == Spec => []Paced
<1>1. IInv => Paced
  BY DEF IInv
<1> QED BY <1>1, Invariance, PTL

(* Concurrent sends and the warm-up never connect twice for one reason:    *)
(* get_conn holds the slot's lock across the connect.                      *)
THEOREM ConnectsCaused == Spec => []ConnectsAreCaused
<1>1. IInv => ConnectsAreCaused
  <2> SUFFICES ASSUME IInv, NEW t \in targets
               PROVE  made[t] <= 1 + Cardinality(closed[t]) + cleared[t]
    BY DEF ConnectsAreCaused
  <2>1. Types /\ ConnAt(t)
    BY DEF IInv, Conn
  <2>2. Cardinality(closed[t]) \in Nat /\ made[t] \in Nat /\ cleared[t] \in Nat
    BY <2>1, Closed DEF ConnAt, Types
  <2>3. Alive(t) \in {0, 1}
    BY DEF Alive
  <2>4. made[t] <= Alive(t) + Cardinality(closed[t]) + cleared[t]
    BY <2>1 DEF ConnAt
  <2> QED BY <2>2, <2>3, <2>4
<1> QED BY <1>1, Invariance, PTL

-----------------------------------------------------------------------------
(* The tick-trigger bench.  Queues and sets of its pipeline, as counts per *)
(* trigger.                                                                *)

(* What a queue holds. *)
Items(q) == {q[i] : i \in DOMAIN q}
LEMMA ItemsAre ==
  ASSUME NEW q, NEW y
  PROVE  y \in Items(q) <=> \E i \in DOMAIN q : q[i] = y
BY DEF Items

(* Where trigger k's are in it.                                            *)
Positions(k, q) == {i \in DOMAIN q : q[i].key = k}

(* 1 if x belongs to trigger k.                                            *)
One(k, x) == IF x.key = k THEN 1 ELSE 0

LEMMA OneType == ASSUME NEW k, NEW x PROVE One(k, x) \in 0 .. 1
BY DEF One

LEMMA InQueueType ==
  ASSUME NEW S, NEW q \in Seq(S), NEW k
  PROVE  /\ IsFiniteSet(Positions(k, q)) /\ InQueue(k, q) = Cardinality(Positions(k, q))
         /\ InQueue(k, q) \in Nat
         /\ \A x \in Items(q) : x.key = k => InQueue(k, q) >= 1
<1>1. Positions(k, q) \subseteq 1 .. Len(q) /\ IsFiniteSet(1 .. Len(q))
  <2>1. Len(q) \in Int /\ 1 \in Int
    OBVIOUS
  <2> QED BY <2>1, FS_Interval DEF Positions
<1>2. IsFiniteSet(Positions(k, q))
  BY <1>1, FS_Subset
<1>3. InQueue(k, q) = Cardinality(Positions(k, q))
  BY DEF InQueue, Positions
<1>4. Cardinality(Positions(k, q)) \in Nat
  BY <1>2, FS_CardinalityType
<1>5. ASSUME NEW x \in Items(q), x.key = k PROVE InQueue(k, q) >= 1
  <2>1. Positions(k, q) # {}
    BY <1>5 DEF Items, Positions
  <2>2. Cardinality(Positions(k, q)) # 0
    BY <1>2, <2>1, FS_EmptySet
  <2> QED BY <1>3, <1>4, <2>2
<1> QED BY <1>2, <1>3, <1>4, <1>5

LEMMA QueueEmpty == (\A k : InQueue(k, <<>>) = 0) /\ Items(<<>>) = {}
<1>1. \A k : {i \in DOMAIN <<>> : <<>>[i].key = k} = {}
  OBVIOUS
<1> QED BY <1>1, FS_EmptySet DEF InQueue, Items

LEMMA QueueAppend ==
  ASSUME NEW S, NEW q \in Seq(S), NEW x \in S
  PROVE  /\ Append(q, x) \in Seq(S) /\ Len(Append(q, x)) = Len(q) + 1
         /\ Items(Append(q, x)) = Items(q) \cup {x}
         /\ \A k : InQueue(k, Append(q, x)) = InQueue(k, q) + One(k, x)
<1> DEFINE n == Len(q) + 1
           r == Append(q, x)
<1>1. /\ r \in Seq(S) /\ Len(r) = n /\ r[n] = x /\ Len(q) \in Nat
      /\ DOMAIN q = 1 .. Len(q) /\ DOMAIN r = 1 .. n
      /\ \A i \in 1 .. Len(q) : r[i] = q[i]
  OBVIOUS
<1> HIDE DEF r
<1>2. 1 .. n = 1 .. Len(q) \cup {n} /\ n \notin 1 .. Len(q)
  BY <1>1
<1> HIDE DEF n
<1>3. Items(r) = Items(q) \cup {x}
  BY <1>1, <1>2 DEF Items
<1>4. ASSUME NEW k PROVE InQueue(k, r) = InQueue(k, q) + One(k, x)
  <2>1. /\ IsFiniteSet(Positions(k, q)) /\ InQueue(k, q) = Cardinality(Positions(k, q))
        /\ InQueue(k, q) \in Nat /\ InQueue(k, r) = Cardinality(Positions(k, r))
    BY <1>1, InQueueType
  <2>2. n \notin Positions(k, q)
    BY <1>1, <1>2 DEF Positions
  <2>3. CASE x.key = k
    <3>1. Positions(k, r) = Positions(k, q) \cup {n}
      BY <1>1, <1>2, <2>3 DEF Positions
    <3>2. Cardinality(Positions(k, r)) = Cardinality(Positions(k, q)) + 1
      BY <2>1, <2>2, <3>1, FS_AddElement
    <3>3. One(k, x) = 1
      BY <2>3 DEF One
    <3> QED BY <2>1, <3>2, <3>3
  <2>4. CASE x.key # k
    <3>1. Positions(k, r) = Positions(k, q)
      BY <1>1, <1>2, <2>4 DEF Positions
    <3> QED BY <2>1, <2>4, <3>1 DEF One
  <2> QED BY <2>3, <2>4
<1> QED BY <1>1, <1>3, <1>4 DEF r, n

LEMMA QueueTail ==
  ASSUME NEW S, NEW q \in Seq(S), q # <<>>
  PROVE  /\ Tail(q) \in Seq(S) /\ Len(Tail(q)) = Len(q) - 1 /\ Len(Tail(q)) <= Len(q)
         /\ Head(q) \in S /\ Head(q) \in Items(q)
         /\ Items(q) = Items(Tail(q)) \cup {Head(q)}
         /\ \A k : InQueue(k, q) = InQueue(k, Tail(q)) + One(k, Head(q))
<1> DEFINE r == Tail(q)
           m == Len(q) - 1
           x == Head(q)
<1>1. /\ r \in Seq(S) /\ Len(r) = m /\ m \in Nat /\ Len(q) = m + 1 /\ x \in S /\ x = q[1]
      /\ DOMAIN q = 1 .. m + 1 /\ DOMAIN r = 1 .. m
      /\ \A i \in 1 .. m : r[i] = q[i + 1]
  OBVIOUS
<1> HIDE DEF r, m, x
<1>2. 1 \in 1 .. m + 1 /\ \A i \in 1 .. m + 1 : i = 1 \/ (i - 1 \in 1 .. m /\ (i - 1) + 1 = i)
  BY <1>1
<1>3. Items(q) = Items(r) \cup {x} /\ x \in Items(q)
  <2>1. /\ \A i \in 1 .. m : i + 1 \in 1 .. m + 1
        /\ \A y : y \in Items(r) <=> \E i \in 1 .. m : r[i] = y
        /\ \A y : y \in Items(q) <=> \E i \in 1 .. m + 1 : q[i] = y
    <3>1. \A i \in 1 .. m : i + 1 \in 1 .. m + 1
      BY <1>1
    <3> QED BY <1>1, <3>1, ItemsAre
  <2>2. ASSUME NEW y \in Items(q) PROVE y \in Items(r) \cup {x}
    <3>1. PICK i \in 1 .. m + 1 : y = q[i]
      BY <2>1
    <3>2. CASE i = 1
      BY <1>1, <3>1, <3>2
    <3>3. CASE i # 1
      <4>1. i - 1 \in 1 .. m /\ (i - 1) + 1 = i
        BY <1>2, <3>3
      <4>2. r[i - 1] = y
        BY <1>1, <3>1, <4>1
      <4> QED BY <2>1, <4>1, <4>2
    <3> QED BY <3>2, <3>3
  <2>3. Items(r) \subseteq Items(q)
    BY <1>1, <2>1
  <2>4. x \in Items(q)
    BY <1>1, <1>2, <2>1
  <2> QED BY <2>2, <2>3, <2>4
<1>4. ASSUME NEW k PROVE InQueue(k, q) = InQueue(k, r) + One(k, x)
  <2> DEFINE P == Positions(k, r)
             Q == Positions(k, q) \ {1}
             f == [i \in P |-> i + 1]
  <2>1. /\ IsFiniteSet(P) /\ InQueue(k, r) = Cardinality(P) /\ InQueue(k, r) \in Nat
        /\ IsFiniteSet(Positions(k, q)) /\ InQueue(k, q) = Cardinality(Positions(k, q))
        /\ InQueue(k, q) \in Nat
    BY <1>1, InQueueType
  <2>2. P \subseteq 1 .. m /\ Q \subseteq 1 .. m + 1
    BY <1>1 DEF Positions
  <2>3. \A i \in P : i + 1 \in Q
    BY <1>1 DEF Positions
  <2>4. \A j \in Q : j - 1 \in P /\ (j - 1) + 1 = j
    BY <1>1, <1>2, <2>2 DEF Positions
  <2>5. (1 \in Positions(k, q)) <=> x.key = k
    BY <1>1, <1>2 DEF Positions
  <2> HIDE DEF P, Q
  <2>6. f \in Bijection(P, Q)
    <3>1. f \in [P -> Q] /\ \A i \in P : f[i] = i + 1 /\ i \in Int
      BY <1>1, <2>2, <2>3
    <3> HIDE DEF f
    <3>2. f \in Injection(P, Q)
      BY <3>1 DEF Injection, IsInjective
    <3>3. f \in Surjection(P, Q)
      BY <2>4, <3>1 DEF Surjection
    <3> QED BY <3>2, <3>3 DEF Bijection
  <2>7. ExistsBijection(P, Q)
    BY <2>6 DEF ExistsBijection
  <2>8. Cardinality(Q) = Cardinality(P)
    BY <2>1, <2>7, FS_Bijection
  <2>9. Cardinality(Q) = IF x.key = k THEN InQueue(k, q) - 1 ELSE InQueue(k, q)
    BY <2>1, <2>5, FS_RemoveElement DEF Q
  <2> QED BY <2>1, <2>8, <2>9 DEF One
<1> QED BY <1>1, <1>3, <1>4 DEF r, m, x

LEMMA InSetType ==
  ASSUME NEW S, IsFiniteSet(S), NEW k
  PROVE  /\ InSet(k, S) \in Nat
         /\ \A x \in S : x.key = k => InSet(k, S) >= 1
         /\ InSet(k, S) <= 1 => \A x, y \in S : x.key = k /\ y.key = k => x = y
<1> DEFINE T == {x \in S : x.key = k}
<1>1. IsFiniteSet(T) /\ InSet(k, S) = Cardinality(T)
  BY FS_Subset DEF InSet
<1>2. Cardinality(T) \in Nat
  BY <1>1, FS_CardinalityType
<1>3. ASSUME NEW x \in S, x.key = k PROVE InSet(k, S) >= 1
  <2>1. T # {}
    BY <1>3
  <2> HIDE DEF T
  <2>2. Cardinality(T) # 0
    BY <1>1, <2>1, FS_EmptySet
  <2> QED BY <1>1, <1>2, <2>2
<1>4. ASSUME InSet(k, S) <= 1, NEW x \in S, NEW y \in S, x.key = k, y.key = k
      PROVE  x = y
  <2>1. x \in T /\ y \in T
    BY <1>4
  <2> HIDE DEF T
  <2>2. Cardinality(T) = 1
    BY <1>1, <1>2, <1>3, <1>4
  <2>3. PICK z : T = {z}
    BY <1>1, <2>2, FS_Singleton
  <2> QED BY <2>1, <2>3
<1> QED BY <1>1, <1>2, <1>3, <1>4

LEMMA InSetAdd ==
  ASSUME NEW S, IsFiniteSet(S), NEW x, x \notin S
  PROVE  /\ IsFiniteSet(S \cup {x})
         /\ \A k : InSet(k, S \cup {x}) = InSet(k, S) + One(k, x)
<1>1. IsFiniteSet(S \cup {x})
  BY FS_AddElement
<1>2. ASSUME NEW k PROVE InSet(k, S \cup {x}) = InSet(k, S) + One(k, x)
  <2> DEFINE T == {y \in S : y.key = k}
             U == {y \in S \cup {x} : y.key = k}
  <2>1. IsFiniteSet(T) /\ InSet(k, S) = Cardinality(T) /\ InSet(k, S \cup {x}) = Cardinality(U)
    BY FS_Subset DEF InSet
  <2>2. U = (IF x.key = k THEN T \cup {x} ELSE T) /\ x \notin T
    OBVIOUS
  <2> HIDE DEF T, U
  <2>3. Cardinality(T) \in Nat
    BY <2>1, FS_CardinalityType
  <2>4. Cardinality(T \cup {x}) = Cardinality(T) + 1
    BY <2>1, <2>2, FS_AddElement
  <2> QED BY <2>1, <2>2, <2>3, <2>4 DEF One
<1> QED BY <1>1, <1>2

LEMMA InSetRemove ==
  ASSUME NEW S, IsFiniteSet(S), NEW x \in S
  PROVE  /\ IsFiniteSet(S \ {x})
         /\ \A k : InSet(k, S) = InSet(k, S \ {x}) + One(k, x)
<1>1. IsFiniteSet(S \ {x})
  BY FS_RemoveElement
<1>2. (S \ {x}) \cup {x} = S /\ x \notin S \ {x}
  OBVIOUS
<1> QED BY <1>1, <1>2, InSetAdd

-----------------------------------------------------------------------------
(* The types of each part's variables; together they are BenchTypeOK.      *)

SlotState == [tick_idx : Nat, hash_count : Nat, cumulative : Nat, seen : SUBSET Entry]
QueuedMatch == [sig : Sig, match : Match]

ObserverTypes ==
  /\ slot_state \in [Slot -> SlotState]
  /\ first_slot_seen \in Slot \cup {0} /\ current_slot \in Slot \cup {start_slot}
  /\ observer \in {"Run", "Exit"}
  /\ match_queue \in Seq(QueuedMatch) /\ Len(match_queue) <= channel_capacity
  /\ IsFiniteSet(DOMAIN content) /\ DOMAIN content \subseteq Entry
  /\ \A e \in DOMAIN content : content[e] \subseteq Sig

PreparerTypes ==
  /\ preparer \in {"Sleep", "Sign", "Exit"} /\ window_lo \in Slot \cup {start_slot}
  /\ cycle \in Nat /\ too_old \in Nat /\ too_old <= cycle /\ cycle <= MaxCycles
  /\ preparer = "Sign" => cycle >= 1
  /\ already_signed \in [schedule -> 0 .. cycle]

PoolTypes ==
  /\ pool \subseteq Tx /\ \A p, q \in pool : p.key = q.key => p = q
  /\ send_queue \in Seq(Tx) /\ Len(send_queue) <= channel_capacity

SendTypes ==
  /\ inflight \subseteq Tx /\ IsFiniteSet(inflight) /\ Cardinality(inflight) <= max_inflight
  /\ pending_sigs \subseteq Sig /\ landable \subseteq Sig
  /\ send_events \in Seq(Tx) /\ Len(send_events) <= channel_capacity

FinalTypes ==
  /\ finalizer \in {"Run", "Flush", "Exit"}
  /\ map \subseteq Tx /\ IsFiniteSet(map)
  /\ \A s \in DOMAIN early_matches : early_matches[s] \in Match
  /\ fallback_queue \subseteq Sig
  /\ final_queue \in Seq(Row) /\ Len(final_queue) <= channel_capacity

FileTypes ==
  /\ parquet \in {"Run", "Exit"} /\ fallback_thread \in {"Run", "Exit"} /\ stop \in BOOLEAN
  /\ file \subseteq Row /\ IsFiniteSet(file)

HistoryTypes ==
  fired \subseteq schedule /\ lost \in [schedule -> Nat] /\ stranded \in [schedule -> Nat]

Typed ==
  /\ ObserverTypes /\ PreparerTypes /\ PoolTypes /\ SendTypes /\ FinalTypes /\ FileTypes
  /\ HistoryTypes

LEMMA TypedIsTypeOK == Typed => BenchTypeOK
BY DEF Typed, ObserverTypes, PreparerTypes, PoolTypes, SendTypes, FinalTypes, FileTypes,
       SlotState, QueuedMatch, BenchTypeOK

-----------------------------------------------------------------------------
(* The invariant.                                                          *)

(* A slot counted as many hashes as its ticks and the part of the next one *)
(* stand for, and no more ticks than tick entries it has seen.             *)
Counted(st) ==
  /\ st.cumulative = st.tick_idx * HASHES_PER_TICK + st.hash_count
  /\ st.tick_idx <= Cardinality({e \in st.seen : ~e.tx})

Counts ==
  \A s \in Slot :
    Counted(slot_state[s]) /\ slot_state[s].seen \subseteq {e \in DOMAIN content : e.slot = s}

(* The hashes of a position are at least those of its ticks.               *)
InStep(match) ==
  match = <<>> \/ match.at = <<>> \/ match.at[2] >= match.at[1] * HASHES_PER_TICK

MatchesInStep == \A m \in Items(match_queue) : InStep(m.match)
EarlyInStep == \A s \in DOMAIN early_matches : InStep(early_matches[s])
RowsInStep == \A row \in Items(final_queue) \cup file : InStep(row.match)

(* A trigger fires when its slot comes to its tick, which it does once.    *)
FiredTicks == \A k \in fired : k[1] \in Slot /\ slot_state[k[1]].tick_idx >= k[2]

(* A signature belongs to one trigger, and to a cycle that is over when    *)
(* the next one signs.                                                     *)
Known == pool \cup Items(send_queue) \cup inflight \cup Items(send_events) \cup map
SigsTell(S) == \A x, y \in S : x.sig = y.sig => x.key = y.key
SignedBefore(S, now) == \A x \in S : x.sig[1] <= cycle /\ (now = "Sign" => x.sig[1] < cycle)
Signatures == SigsTell(Known) /\ SignedBefore(Known, preparer)

BenchInv ==
  /\ Typed /\ Counts /\ MatchesInStep /\ EarlyInStep /\ RowsInStep
  /\ FiredTicks /\ Signatures /\ FiresConserved /\ PendingIsOpen

LEMMA SlotIsNat == Slot \subseteq Nat /\ \A e \in Entry : e.slot \in Slot
BY BenchAssumption DEF Slot

(* Everything is empty at first. *)
LEMMA InitBench == BenchInit => BenchInv
<1> SUFFICES ASSUME BenchInit PROVE BenchInv
  OBVIOUS
<1>1. IsFiniteSet({}) /\ Cardinality({}) = 0
  BY FS_EmptySet
<1>2. ObserverTypes
  <2>1. slot_state \in [Slot -> SlotState]
    BY DEF BenchInit, SlotState
  <2>2. DOMAIN content = {}
    BY DEF BenchInit
  <2>3. match_queue \in Seq(QueuedMatch) /\ Len(match_queue) <= channel_capacity
    BY BenchAssumption DEF BenchInit
  <2> QED BY <1>1, <2>1, <2>2, <2>3 DEF BenchInit, ObserverTypes
<1>3. PreparerTypes
  BY BenchAssumption DEF BenchInit, PreparerTypes
<1>4. PoolTypes /\ SendTypes
  BY <1>1, BenchAssumption DEF BenchInit, PoolTypes, SendTypes
<1>5. FinalTypes
  BY <1>1, BenchAssumption DEF BenchInit, FinalTypes
<1>6. FileTypes /\ HistoryTypes
  BY <1>1 DEF BenchInit, FileTypes, HistoryTypes
<1>7. Counts
  <2> SUFFICES ASSUME NEW s \in Slot
               PROVE  /\ Counted(slot_state[s])
                      /\ slot_state[s].seen \subseteq {e \in DOMAIN content : e.slot = s}
    BY DEF Counts
  <2>1. /\ slot_state[s].tick_idx = 0 /\ slot_state[s].hash_count = 0
        /\ slot_state[s].cumulative = 0 /\ slot_state[s].seen = {}
    BY DEF BenchInit
  <2>2. {e \in slot_state[s].seen : ~e.tx} = {}
    BY <2>1
  <2>3. 0 * HASHES_PER_TICK = 0
    BY BenchAssumption
  <2> QED BY <1>1, <2>1, <2>2, <2>3 DEF Counted
<1>8. MatchesInStep /\ EarlyInStep /\ RowsInStep
  BY QueueEmpty DEF BenchInit, MatchesInStep, EarlyInStep, RowsInStep
<1>9. FiredTicks /\ Signatures
  BY QueueEmpty DEF BenchInit, FiredTicks, Signatures, Known, SigsTell, SignedBefore
<1>10. FiresConserved
  <2>1. \A k : InSet(k, {}) = 0
    BY <1>1 DEF InSet
  <2> QED BY <2>1, QueueEmpty DEF BenchInit, FiresConserved
<1>11. PendingIsOpen
  BY DEF BenchInit, PendingIsOpen
<1> QED BY <1>2, <1>3, <1>4, <1>5, <1>6, <1>7, <1>8, <1>9, <1>10, <1>11 DEF BenchInv, Typed

-----------------------------------------------------------------------------
(* Parts that a step leaves alone. *)

LEMMA ObserverKept ==
  ASSUME BenchInv, UNCHANGED observerVars
  PROVE  ObserverTypes' /\ Counts' /\ MatchesInStep' /\ FiredTicks'
BY DEF BenchInv, Typed, observerVars, ObserverTypes, Counts, MatchesInStep, FiredTicks

LEMMA PreparerKept ==
  ASSUME BenchInv, UNCHANGED <<preparerVars, too_old>>
  PROVE  PreparerTypes'
BY DEF BenchInv, Typed, preparerVars, PreparerTypes

LEMMA SignaturesKept ==
  ASSUME BenchInv, Known' \subseteq Known, UNCHANGED <<cycle, preparer>>
  PROVE  Signatures'
BY DEF BenchInv, Signatures, SigsTell, SignedBefore

(* A trigger's transaction is counted at most once.                        *)
LEMMA CountedOnce ==
  ASSUME BenchInv, NEW k \in schedule
  PROVE  /\ InQueue(k, send_queue) \in Nat /\ InSet(k, inflight) \in Nat
         /\ InQueue(k, send_events) \in Nat /\ InSet(k, map) \in Nat
         /\ InQueue(k, final_queue) \in Nat /\ InSet(k, file) \in Nat /\ lost[k] \in Nat
         /\ stranded[k] \in Nat
         /\ (IF k \in fired THEN 1 ELSE 0)
              = InQueue(k, send_queue) + InSet(k, inflight) + InQueue(k, send_events)
                  + InSet(k, map) + InQueue(k, final_queue) + InSet(k, file) + lost[k] + stranded[k]
<1>1. /\ send_queue \in Seq(Tx) /\ send_events \in Seq(Tx) /\ final_queue \in Seq(Row)
      /\ IsFiniteSet(inflight) /\ IsFiniteSet(map) /\ IsFiniteSet(file) /\ lost[k] \in Nat
      /\ stranded[k] \in Nat
  BY DEF BenchInv, Typed, PoolTypes, SendTypes, FinalTypes, FileTypes, HistoryTypes
<1>2. /\ InQueue(k, send_queue) \in Nat /\ InQueue(k, send_events) \in Nat
      /\ InQueue(k, final_queue) \in Nat
  BY <1>1, InQueueType
<1>3. InSet(k, inflight) \in Nat /\ InSet(k, map) \in Nat /\ InSet(k, file) \in Nat
  BY <1>1, InSetType
<1> QED BY <1>1, <1>2, <1>3 DEF BenchInv, FiresConserved

(* PendingIsOpen over the transactions whose send is not final.            *)
Open == inflight \cup map \cup Items(send_events)
Follows(open, pending, dropped, unread) ==
  /\ \A x \in open : x.sig \in pending
  /\ (\A k \in schedule : dropped[k] = 0 /\ unread[k] = 0) => \A s \in pending : \E x \in open : x.sig = s

LEMMA PendingFollows ==
  /\ PendingIsOpen <=> Follows(Open, pending_sigs, lost, stranded)
  /\ PendingIsOpen' <=> Follows(Open', pending_sigs', lost', stranded')
<1>1. /\ {tx.sig : tx \in inflight \cup map} \cup {send_events[i].sig : i \in DOMAIN send_events}
           = {x.sig : x \in Open}
      /\ {tx.sig : tx \in inflight' \cup map'} \cup {send_events'[i].sig : i \in DOMAIN send_events'}
           = {x.sig : x \in Open'}
  BY DEF Open, Items
<1> QED BY <1>1 DEF PendingIsOpen, Follows

LEMMA TxParts ==
  ASSUME NEW x \in Tx
  PROVE  x.key \in schedule /\ x.sig \in Sig
BY DEF Tx

-----------------------------------------------------------------------------
(* The dispatcher sends: the transaction leaves the queue for the network. *)
LEMMA StepStartSend == BenchInv /\ StartSend => BenchInv'
<1> SUFFICES ASSUME BenchInv, StartSend PROVE BenchInv'
  OBVIOUS
<1>1. PICK tx : tx = Head(send_queue)
  OBVIOUS
<1>2. /\ send_queue # <<>> /\ Cardinality(inflight) < max_inflight /\ send_queue' = Tail(send_queue)
      /\ \/ /\ lost' = [lost EXCEPT ![tx.key] = @ + 1]
            /\ UNCHANGED sendVars
         \/ /\ Register(tx.sig) /\ inflight' = inflight \cup {tx}
            /\ landable' = landable \cup {tx.sig}
            /\ UNCHANGED lost
      /\ UNCHANGED <<observerVars, preparerVars, finalVars, fileVars, stop, too_old, pool,
                     send_events, final_queue, fallback_thread, stranded>>
  BY <1>1 DEF StartSend, CanStart, finalVars
<1>3. /\ ObserverTypes' /\ Counts' /\ MatchesInStep' /\ FiredTicks' /\ PreparerTypes'
      /\ fired' = fired
  BY <1>2, ObserverKept, PreparerKept DEF observerVars
<1>4. /\ send_queue \in Seq(Tx) /\ Len(send_queue) <= channel_capacity
      /\ IsFiniteSet(inflight) /\ lost \in [schedule -> Nat]
  BY DEF BenchInv, Typed, PoolTypes, SendTypes, HistoryTypes
<1>5. /\ send_queue' \in Seq(Tx) /\ Len(send_queue') = Len(send_queue) - 1 /\ tx \in Tx
      /\ Items(send_queue) = Items(send_queue') \cup {tx}
      /\ \A k : InQueue(k, send_queue) = InQueue(k, send_queue') + One(k, tx)
  BY <1>1, <1>2, <1>4, QueueTail
<1>6. tx.key \in schedule /\ tx.sig \in Sig /\ InQueue(tx.key, send_queue) >= 1
  BY <1>4, <1>5, TxParts, InQueueType
<1>7. tx \notin inflight
  <2>1. tx \in inflight => InSet(tx.key, inflight) >= 1
    BY <1>4, InSetType
  <2> QED BY <1>6, <2>1, CountedOnce
<1>8. PoolTypes'
  <2>1. Len(send_queue') <= channel_capacity
    BY <1>4, <1>5, BenchAssumption
  <2> QED BY <1>2, <1>5, <2>1 DEF BenchInv, Typed, PoolTypes
<1>9. /\ FinalTypes' /\ FileTypes' /\ EarlyInStep' /\ RowsInStep'
  BY <1>2 DEF BenchInv, Typed, FinalTypes, FileTypes, finalVars, fileVars, EarlyInStep, RowsInStep
<1>10. CASE lost' = [lost EXCEPT ![tx.key] = @ + 1] /\ UNCHANGED sendVars
  <2>1. SendTypes' /\ HistoryTypes'
    BY <1>2, <1>3, <1>4, <1>6, <1>10 DEF BenchInv, Typed, SendTypes, HistoryTypes, sendVars
  <2>2. \A k \in schedule : lost'[k] = lost[k] + One(k, tx)
    BY <1>4, <1>10 DEF One
  <2>3. FiresConserved'
    <3> SUFFICES ASSUME NEW k \in schedule
                 PROVE  (IF k \in fired THEN 1 ELSE 0)
                          = InQueue(k, send_queue') + InSet(k, inflight) + InQueue(k, send_events)
                            + InSet(k, map) + InQueue(k, final_queue) + InSet(k, file) + lost'[k] + stranded[k]
      BY <1>2, <1>3, <1>10 DEF FiresConserved, sendVars, finalVars, fileVars
    <3>1. /\ InQueue(k, send_queue) = InQueue(k, send_queue') + One(k, tx)
          /\ lost'[k] = lost[k] + One(k, tx) /\ One(k, tx) \in Nat
      BY <1>5, <2>2, OneType
    <3>2. InQueue(k, send_queue') \in Nat
      BY <1>5, InQueueType
    <3> QED BY <3>1, <3>2, CountedOnce
  <2>4. PendingIsOpen'
    <3>1. lost'[tx.key] # 0
      BY <1>4, <1>6, <1>10
    <3>2. Open' = Open /\ pending_sigs' = pending_sigs
      BY <1>2, <1>10 DEF Open, sendVars, finalVars
    <3> QED BY <1>6, <3>1, <3>2, PendingFollows DEF Follows, BenchInv
  <2>5. Signatures'
    <3>1. Known' \subseteq Known
      BY <1>2, <1>5, <1>10 DEF Known, sendVars, finalVars
    <3> QED BY <1>2, <3>1, SignaturesKept DEF preparerVars
  <2> QED BY <1>3, <1>8, <1>9, <2>1, <2>3, <2>4, <2>5 DEF BenchInv, Typed
<1>11. CASE /\ Register(tx.sig) /\ inflight' = inflight \cup {tx}
            /\ landable' = landable \cup {tx.sig} /\ UNCHANGED lost
  <2>1. SendTypes' /\ HistoryTypes'
    <3>1. IsFiniteSet(inflight') /\ Cardinality(inflight') = Cardinality(inflight) + 1
      BY <1>4, <1>7, <1>11, FS_AddElement
    <3>2. Cardinality(inflight) \in Nat
      BY <1>4, FS_CardinalityType
    <3>3. Cardinality(inflight') <= max_inflight
      BY <1>2, <3>1, <3>2, BenchAssumption
    <3> QED BY <1>2, <1>3, <1>5, <1>6, <1>11, <3>1, <3>3
            DEF BenchInv, Typed, SendTypes, HistoryTypes, Register
  <2>3. FiresConserved'
    <3> SUFFICES ASSUME NEW k \in schedule
                 PROVE  (IF k \in fired THEN 1 ELSE 0)
                          = InQueue(k, send_queue') + InSet(k, inflight') + InQueue(k, send_events)
                            + InSet(k, map) + InQueue(k, final_queue) + InSet(k, file) + lost[k] + stranded[k]
      BY <1>2, <1>3, <1>11 DEF FiresConserved, finalVars, fileVars
    <3>1. InSet(k, inflight') = InSet(k, inflight) + One(k, tx)
      BY <1>4, <1>7, <1>11, InSetAdd
    <3>3. InQueue(k, send_queue) = InQueue(k, send_queue') + One(k, tx) /\ One(k, tx) \in 0 .. 1
      BY <1>5, OneType
    <3>2. InQueue(k, send_queue') \in Nat
      BY <1>5, InQueueType
    <3> QED BY <3>1, <3>2, <3>3, CountedOnce
  <2>4. PendingIsOpen'
    <3>1. Open' = Open \cup {tx} /\ pending_sigs' = pending_sigs \cup {tx.sig}
      BY <1>2, <1>11 DEF Open, finalVars, Register
    <3> QED BY <1>2, <1>11, <3>1, PendingFollows DEF Follows, BenchInv
  <2>5. Signatures'
    <3>1. Known' \subseteq Known
      BY <1>2, <1>5, <1>11 DEF Known, finalVars
    <3> QED BY <1>2, <3>1, SignaturesKept DEF preparerVars
  <2> QED BY <1>3, <1>8, <1>9, <2>1, <2>3, <2>4, <2>5 DEF BenchInv, Typed
<1> QED BY <1>2, <1>10, <1>11

(* A send ends: its event goes to the finalizer, or is counted as lost.    *)
LEMMA StepEndSend ==
  ASSUME BenchInv, NEW tx \in inflight, EndSend(tx)
  PROVE  BenchInv'
<1>2. /\ inflight' = inflight \ {tx}
      /\ \/ /\ Len(send_events) < channel_capacity
            /\ send_events' = Append(send_events, tx) /\ UNCHANGED lost
         \/ lost' = [lost EXCEPT ![tx.key] = @ + 1] /\ UNCHANGED send_events
      /\ UNCHANGED <<observerVars, preparerVars, finalVars, fileVars, stop, too_old, pool,
                     send_queue, pending_sigs, landable, final_queue, fallback_thread,
                     stranded>>
  BY DEF EndSend, Room, finalVars
<1>3. /\ ObserverTypes' /\ Counts' /\ MatchesInStep' /\ FiredTicks' /\ PreparerTypes'
      /\ fired' = fired
  BY <1>2, ObserverKept, PreparerKept DEF observerVars
<1>4. /\ send_events \in Seq(Tx) /\ Len(send_events) <= channel_capacity
      /\ IsFiniteSet(inflight) /\ Cardinality(inflight) <= max_inflight
      /\ lost \in [schedule -> Nat] /\ tx \in Tx
  BY DEF BenchInv, Typed, SendTypes, HistoryTypes
<1>6. tx.key \in schedule /\ tx.sig \in Sig
  BY <1>4, TxParts
<1>5. /\ IsFiniteSet(inflight') /\ Cardinality(inflight') <= max_inflight
      /\ \A k : InSet(k, inflight) = InSet(k, inflight') + One(k, tx)
  <2>1. Cardinality(inflight) \in Nat /\ Cardinality(inflight') = Cardinality(inflight) - 1
    BY <1>2, <1>4, FS_CardinalityType, FS_RemoveElement
  <2>2. IsFiniteSet(inflight') /\ \A k : InSet(k, inflight) = InSet(k, inflight') + One(k, tx)
    BY <1>2, <1>4, InSetRemove
  <2> QED BY <1>4, <2>1, <2>2, BenchAssumption
<1>8. PoolTypes'
  BY <1>2 DEF BenchInv, Typed, PoolTypes
<1>9. /\ FinalTypes' /\ FileTypes' /\ EarlyInStep' /\ RowsInStep'
  BY <1>2 DEF BenchInv, Typed, FinalTypes, FileTypes, finalVars, fileVars, EarlyInStep, RowsInStep
<1>10. CASE lost' = [lost EXCEPT ![tx.key] = @ + 1] /\ UNCHANGED send_events
  <2>1. SendTypes' /\ HistoryTypes'
    BY <1>2, <1>3, <1>4, <1>5, <1>6, <1>10 DEF BenchInv, Typed, SendTypes, HistoryTypes
  <2>2. \A k \in schedule : lost'[k] = lost[k] + One(k, tx)
    BY <1>4, <1>10 DEF One
  <2>3. FiresConserved'
    <3> SUFFICES ASSUME NEW k \in schedule
                 PROVE  (IF k \in fired THEN 1 ELSE 0)
                          = InQueue(k, send_queue) + InSet(k, inflight') + InQueue(k, send_events)
                            + InSet(k, map) + InQueue(k, final_queue) + InSet(k, file) + lost'[k] + stranded[k]
      BY <1>2, <1>3, <1>10 DEF FiresConserved, finalVars, fileVars
    <3>1. InSet(k, inflight) = InSet(k, inflight') + One(k, tx) /\ One(k, tx) \in 0 .. 1
      BY <1>5, OneType
    <3>2. InSet(k, inflight') \in Nat /\ lost'[k] = lost[k] + One(k, tx)
      BY <1>5, <2>2, InSetType
    <3> QED BY <3>1, <3>2, CountedOnce
  <2>4. PendingIsOpen'
    <3>1. lost'[tx.key] # 0
      BY <1>4, <1>6, <1>10
    <3>2. Open' \subseteq Open /\ pending_sigs' = pending_sigs
      BY <1>2, <1>10 DEF Open, finalVars
    <3> QED BY <1>6, <3>1, <3>2, PendingFollows DEF Follows, BenchInv
  <2>5. Signatures'
    <3>1. Known' \subseteq Known
      BY <1>2, <1>10 DEF Known, finalVars
    <3> QED BY <1>2, <3>1, SignaturesKept DEF preparerVars
  <2> QED BY <1>3, <1>8, <1>9, <2>1, <2>3, <2>4, <2>5 DEF BenchInv, Typed
<1>11. CASE /\ Len(send_events) < channel_capacity
            /\ send_events' = Append(send_events, tx) /\ UNCHANGED lost
  <2>1. /\ send_events' \in Seq(Tx) /\ Len(send_events') = Len(send_events) + 1
        /\ Items(send_events') = Items(send_events) \cup {tx}
        /\ \A k : InQueue(k, send_events') = InQueue(k, send_events) + One(k, tx)
    BY <1>4, <1>11, QueueAppend
  <2>2. SendTypes' /\ HistoryTypes'
    <3>1. Len(send_events') <= channel_capacity
      BY <1>4, <1>11, <2>1, BenchAssumption
    <3> QED BY <1>2, <1>3, <1>5, <1>11, <2>1, <3>1
            DEF BenchInv, Typed, SendTypes, HistoryTypes
  <2>3. FiresConserved'
    <3> SUFFICES ASSUME NEW k \in schedule
                 PROVE  (IF k \in fired THEN 1 ELSE 0)
                          = InQueue(k, send_queue) + InSet(k, inflight') + InQueue(k, send_events')
                            + InSet(k, map) + InQueue(k, final_queue) + InSet(k, file) + lost[k] + stranded[k]
      BY <1>2, <1>3, <1>11 DEF FiresConserved, finalVars, fileVars
    <3>1. InSet(k, inflight) = InSet(k, inflight') + One(k, tx) /\ One(k, tx) \in 0 .. 1
      BY <1>5, OneType
    <3>2. InSet(k, inflight') \in Nat /\ InQueue(k, send_events') = InQueue(k, send_events) + One(k, tx)
      BY <1>5, <2>1, InSetType
    <3> QED BY <3>1, <3>2, CountedOnce
  <2>4. PendingIsOpen'
    <3>1. Open' = Open /\ pending_sigs' = pending_sigs
      BY <1>2, <2>1 DEF Open, finalVars
    <3> QED BY <1>2, <1>11, <3>1, PendingFollows DEF Follows, BenchInv
  <2>5. Signatures'
    <3>1. Known' \subseteq Known
      BY <1>2, <2>1 DEF Known, finalVars
    <3> QED BY <1>2, <3>1, SignaturesKept DEF preparerVars
  <2> QED BY <1>3, <1>8, <1>9, <2>2, <2>3, <2>4, <2>5 DEF BenchInv, Typed
<1> QED BY <1>2, <1>10, <1>11

(* The writer takes a row. *)
LEMMA StepWriterTake == BenchInv /\ WriterTake => BenchInv'
<1> SUFFICES ASSUME BenchInv, WriterTake PROVE BenchInv'
  OBVIOUS
<1>1. PICK row : row = Head(final_queue)
  OBVIOUS
<1>2. /\ final_queue # <<>> /\ final_queue' = Tail(final_queue) /\ file' = file \cup {row}
      /\ UNCHANGED <<observerVars, preparerVars, sendVars, finalVars, stop, too_old, pool,
                     send_queue, send_events, parquet, fallback_thread, lost, stranded>>
  BY <1>1 DEF WriterTake, finalVars
<1>3. /\ ObserverTypes' /\ Counts' /\ MatchesInStep' /\ FiredTicks' /\ PreparerTypes'
      /\ fired' = fired
  BY <1>2, ObserverKept, PreparerKept DEF observerVars
<1>4. /\ final_queue \in Seq(Row) /\ Len(final_queue) <= channel_capacity
      /\ IsFiniteSet(file) /\ file \subseteq Row
  BY DEF BenchInv, Typed, FinalTypes, FileTypes
<1>5. /\ final_queue' \in Seq(Row) /\ Len(final_queue') = Len(final_queue) - 1 /\ row \in Row
      /\ Items(final_queue) = Items(final_queue') \cup {row}
      /\ \A k : InQueue(k, final_queue) = InQueue(k, final_queue') + One(k, row)
  BY <1>1, <1>2, <1>4, QueueTail
<1>6. row.key \in schedule /\ InQueue(row.key, final_queue) >= 1
  <2>1. row.key \in schedule
    BY <1>5 DEF Row
  <2> QED BY <1>4, <1>5, <2>1, InQueueType
<1>7. row \notin file
  <2>1. row \in file => InSet(row.key, file) >= 1
    BY <1>4, InSetType
  <2> QED BY <1>6, <2>1, CountedOnce
<1>8. /\ IsFiniteSet(file') /\ \A k : InSet(k, file') = InSet(k, file) + One(k, row)
  BY <1>2, <1>4, <1>7, InSetAdd
<1>9. PoolTypes' /\ SendTypes' /\ HistoryTypes' /\ EarlyInStep'
  BY <1>2, <1>3 DEF BenchInv, Typed, PoolTypes, SendTypes, HistoryTypes, EarlyInStep, sendVars,
                    finalVars
<1>10. FinalTypes' /\ FileTypes'
  <2>1. Len(final_queue') <= channel_capacity
    BY <1>4, <1>5, BenchAssumption
  <2> QED BY <1>2, <1>4, <1>5, <1>8, <2>1 DEF BenchInv, Typed, FinalTypes, FileTypes, finalVars
<1>11. RowsInStep'
  <2>1. Items(final_queue') \cup file' \subseteq Items(final_queue) \cup file
    BY <1>2, <1>5
  <2> QED BY <2>1 DEF BenchInv, RowsInStep
<1>12. FiresConserved'
  <2> SUFFICES ASSUME NEW k \in schedule
               PROVE  (IF k \in fired THEN 1 ELSE 0)
                        = InQueue(k, send_queue) + InSet(k, inflight) + InQueue(k, send_events)
                          + InSet(k, map) + InQueue(k, final_queue') + InSet(k, file') + lost[k] + stranded[k]
    BY <1>2, <1>3 DEF FiresConserved, finalVars, sendVars
  <2>1. /\ InQueue(k, final_queue) = InQueue(k, final_queue') + One(k, row)
        /\ One(k, row) \in 0 .. 1
    BY <1>5, OneType
  <2>2. InQueue(k, final_queue') \in Nat /\ InSet(k, file') = InSet(k, file) + One(k, row)
    BY <1>5, <1>8, InQueueType
  <2> QED BY <2>1, <2>2, CountedOnce
<1>13. PendingIsOpen'
  <2>1. Open' = Open /\ pending_sigs' = pending_sigs
    BY <1>2 DEF Open, finalVars, sendVars
  <2> QED BY <1>2, <2>1, PendingFollows DEF Follows, BenchInv
<1>14. Signatures'
  <2>1. Known' \subseteq Known
    BY <1>2 DEF Known, finalVars, sendVars
  <2> QED BY <1>2, <2>1, SignaturesKept DEF preparerVars
<1> QED BY <1>3, <1>9, <1>10, <1>11, <1>12, <1>13, <1>14 DEF BenchInv, Typed

-----------------------------------------------------------------------------
(* A transaction's final row joins the writer's channel, or is counted.    *)
LEMMA FinalRow ==
  ASSUME BenchInv, NEW tx \in Tx, NEW match \in Match \cup {<<>>}, InStep(match),
         Final(tx, match), UNCHANGED <<file, fired, stranded>>
  PROVE  /\ final_queue' \in Seq(Row) /\ Len(final_queue') <= channel_capacity
         /\ HistoryTypes' /\ RowsInStep'
         /\ \A k \in schedule :
              /\ InQueue(k, final_queue') \in Nat /\ lost'[k] \in Nat /\ lost'[k] >= lost[k]
              /\ InQueue(k, final_queue') + lost'[k]
                   = InQueue(k, final_queue) + lost[k] + One(k, tx)
<1> DEFINE row == [key |-> tx.key, sig |-> tx.sig, match |-> match]
<1>1. /\ final_queue \in Seq(Row) /\ Len(final_queue) <= channel_capacity
      /\ lost \in [schedule -> Nat] /\ fired \subseteq schedule
      /\ stranded \in [schedule -> Nat] /\ RowsInStep
  BY DEF BenchInv, Typed, FinalTypes, HistoryTypes
<1>2. tx.key \in schedule /\ tx.sig \in Sig
  BY TxParts
<1>3. row \in Row /\ row.key = tx.key /\ row.match = match
  BY <1>2 DEF Row
<1> HIDE DEF row
<1>4. \A k \in schedule : One(k, row) = One(k, tx) /\ One(k, tx) \in 0 .. 1
  BY <1>3, OneType DEF One
<1>5. \A k \in schedule : InQueue(k, final_queue) \in Nat /\ lost[k] \in Nat
  BY CountedOnce
<1>6. CASE /\ Len(final_queue) < channel_capacity
           /\ final_queue' = Append(final_queue, row) /\ UNCHANGED lost
  <2>1. /\ final_queue' \in Seq(Row) /\ Len(final_queue') = Len(final_queue) + 1
        /\ Items(final_queue') = Items(final_queue) \cup {row}
        /\ \A k : InQueue(k, final_queue') = InQueue(k, final_queue) + One(k, row)
    BY <1>1, <1>3, <1>6, QueueAppend
  <2>2. Len(final_queue') <= channel_capacity
    BY <1>1, <1>6, <2>1, BenchAssumption
  <2>3. RowsInStep'
    BY <1>1, <1>3, <2>1 DEF RowsInStep
  <2>4. HistoryTypes'
    BY <1>1, <1>6 DEF HistoryTypes
  <2>5. ASSUME NEW k \in schedule
        PROVE  /\ InQueue(k, final_queue') \in Nat /\ lost'[k] \in Nat /\ lost'[k] >= lost[k]
               /\ InQueue(k, final_queue') + lost'[k]
                    = InQueue(k, final_queue) + lost[k] + One(k, tx)
    <3>1. InQueue(k, final_queue') = InQueue(k, final_queue) + One(k, tx) /\ lost'[k] = lost[k]
      BY <1>4, <1>6, <2>1
    <3> QED BY <1>4, <1>5, <3>1
  <2> QED BY <2>1, <2>2, <2>3, <2>4, <2>5
<1>7. CASE lost' = [lost EXCEPT ![tx.key] = @ + 1] /\ UNCHANGED final_queue
  <2>1. HistoryTypes' /\ RowsInStep'
    BY <1>1, <1>2, <1>7 DEF HistoryTypes, RowsInStep
  <2>2. \A k \in schedule : lost'[k] = lost[k] + One(k, tx)
    BY <1>1, <1>7 DEF One
  <2>3. ASSUME NEW k \in schedule
        PROVE  /\ InQueue(k, final_queue') \in Nat /\ lost'[k] \in Nat /\ lost'[k] >= lost[k]
               /\ InQueue(k, final_queue') + lost'[k]
                    = InQueue(k, final_queue) + lost[k] + One(k, tx)
    <3>1. lost'[k] = lost[k] + One(k, tx) /\ InQueue(k, final_queue') = InQueue(k, final_queue)
      BY <1>7, <2>2
    <3> QED BY <1>4, <1>5, <3>1
  <2> QED BY <1>1, <1>7, <2>1, <2>3
<1> QED BY <1>6, <1>7 DEF Final, Room, row

(* What leaves the finalizer's map as a row or a loss stays accounted.     *)
LEMMA MapToRow ==
  ASSUME BenchInv, NEW k \in schedule,
         NEW one \in Nat, NEW m1 \in Nat, NEW q1 \in Nat, NEW l1 \in Nat,
         InSet(k, map) = m1 + one, q1 + l1 = InQueue(k, final_queue) + lost[k] + one
  PROVE  (IF k \in fired THEN 1 ELSE 0)
           = InQueue(k, send_queue) + InSet(k, inflight) + InQueue(k, send_events)
               + m1 + q1 + InSet(k, file) + l1 + stranded[k]
<1>1. PICK a \in Nat : a = InQueue(k, send_queue)
  BY CountedOnce
<1>2. PICK b \in Nat : b = InSet(k, inflight)
  BY CountedOnce
<1>3. PICK c \in Nat : c = InQueue(k, send_events)
  BY CountedOnce
<1>4. PICK q \in Nat : q = InQueue(k, final_queue)
  BY CountedOnce
<1>5. PICK d \in Nat : d = InSet(k, file)
  BY CountedOnce
<1>6. PICK l \in Nat : l = lost[k]
  BY CountedOnce
<1>11. PICK u \in Nat : u = stranded[k]
  BY CountedOnce
<1>7. (IF k \in fired THEN 1 ELSE 0) = a + b + c + (m1 + one) + q + d + l + u
  BY <1>1, <1>2, <1>3, <1>4, <1>5, <1>6, <1>11, CountedOnce
<1>8. q1 + l1 = q + l + one
  BY <1>4, <1>6
<1>9. a + b + c + (m1 + one) + q + d + l + u = a + b + c + m1 + q1 + d + l1 + u
  BY <1>8
<1>10. (IF k \in fired THEN 1 ELSE 0) = a + b + c + m1 + q1 + d + l1 + u
  BY <1>7, <1>9
<1> QED BY <1>1, <1>2, <1>3, <1>5, <1>10, <1>11

(* A trigger in the finalizer's map is neither in flight nor on its way    *)
(* there.                                                                  *)
LEMMA OnlyInMap ==
  ASSUME BenchInv, NEW k \in schedule, InSet(k, map) >= 1
  PROVE  InSet(k, map) <= 1 /\ InSet(k, inflight) = 0 /\ InQueue(k, send_events) = 0
<1>1. PICK a \in Nat : a = InQueue(k, send_queue)
  BY CountedOnce
<1>2. PICK b \in Nat : b = InSet(k, inflight)
  BY CountedOnce
<1>3. PICK c \in Nat : c = InQueue(k, send_events)
  BY CountedOnce
<1>4. PICK d \in Nat : d = InSet(k, map)
  BY CountedOnce
<1>5. PICK q \in Nat : q = InQueue(k, final_queue)
  BY CountedOnce
<1>6. PICK f \in Nat : f = InSet(k, file)
  BY CountedOnce
<1>7. PICK l \in Nat : l = lost[k]
  BY CountedOnce
<1>10. PICK u \in Nat : u = stranded[k]
  BY CountedOnce
<1>8. 1 >= a + b + c + d + q + f + l + u /\ d >= 1
  BY <1>1, <1>2, <1>3, <1>4, <1>5, <1>6, <1>7, <1>10, CountedOnce
<1>9. d <= 1 /\ b = 0 /\ c = 0
  BY <1>8
<1> QED BY <1>2, <1>3, <1>4, <1>9

(* A send leaves the finalizer's map with its final row, and its signature *)
(* is no longer matched; no other send has that signature.                 *)
LEMMA LeavesMap ==
  ASSUME BenchInv, NEW tx \in map, NEW match \in Match \cup {<<>>}, InStep(match),
         Final(tx, match), map' = map \ {tx}, pending_sigs' = pending_sigs \ {tx.sig},
         UNCHANGED <<inflight, send_events, send_queue, pool, cycle, preparer, file, fired, stranded>>
  PROVE  /\ map' \subseteq Tx /\ IsFiniteSet(map')
         /\ final_queue' \in Seq(Row) /\ Len(final_queue') <= channel_capacity
         /\ HistoryTypes' /\ RowsInStep' /\ FiresConserved' /\ PendingIsOpen' /\ Signatures'
<1>1. map \subseteq Tx /\ IsFiniteSet(map) /\ tx \in Tx
  BY DEF BenchInv, Typed, FinalTypes
<1>2. /\ final_queue' \in Seq(Row) /\ Len(final_queue') <= channel_capacity
      /\ HistoryTypes' /\ RowsInStep'
      /\ \A k \in schedule :
           /\ InQueue(k, final_queue') \in Nat /\ lost'[k] \in Nat /\ lost'[k] >= lost[k]
           /\ InQueue(k, final_queue') + lost'[k]
                = InQueue(k, final_queue) + lost[k] + One(k, tx)
  BY <1>1, FinalRow
<1>3. IsFiniteSet(map') /\ \A k : InSet(k, map) = InSet(k, map') + One(k, tx)
  BY <1>1, InSetRemove
<1>4. FiresConserved'
  <2> SUFFICES ASSUME NEW k \in schedule
               PROVE  (IF k \in fired THEN 1 ELSE 0)
                        = InQueue(k, send_queue) + InSet(k, inflight) + InQueue(k, send_events)
                          + InSet(k, map') + InQueue(k, final_queue') + InSet(k, file) + lost'[k] + stranded[k]
    BY DEF FiresConserved
  <2>1. InSet(k, map) = InSet(k, map') + One(k, tx) /\ One(k, tx) \in 0 .. 1
    BY <1>3, OneType
  <2>2. InSet(k, map') \in Nat
    BY <1>3, InSetType
  <2>3. /\ InQueue(k, final_queue') \in Nat /\ lost'[k] \in Nat
        /\ InQueue(k, final_queue') + lost'[k] = InQueue(k, final_queue) + lost[k] + One(k, tx)
    BY <1>2
  <2>4. One(k, tx) \in Nat
    BY <2>1
  <2> QED BY <2>1, <2>2, <2>3, <2>4, MapToRow
<1>5. Signatures'
  <2>1. Known' \subseteq Known
    BY DEF Known
  <2> QED BY <2>1, SignaturesKept
<1>6. Open = Open' \cup {tx} /\ Open' = inflight \cup (map \ {tx}) \cup Items(send_events)
  BY DEF Open
<1>7. ASSUME NEW x \in Open' PROVE x.sig # tx.sig
  <2>1. tx.key \in schedule /\ InSet(tx.key, map) >= 1
    BY <1>1, TxParts, InSetType
  <2>2. InSet(tx.key, map) <= 1 /\ InSet(tx.key, inflight) = 0 /\ InQueue(tx.key, send_events) = 0
    BY <2>1, OnlyInMap
  <2>3. x.key # tx.key
    <3>1. CASE x \in inflight
      <4>1. IsFiniteSet(inflight)
        BY DEF BenchInv, Typed, SendTypes
      <4>2. x.key = tx.key => InSet(tx.key, inflight) >= 1
        BY <3>1, <4>1, InSetType
      <4> QED BY <2>2, <4>2
    <3>2. CASE x \in map \ {tx}
      BY <1>1, <2>2, <3>2, InSetType
    <3>3. CASE x \in Items(send_events)
      <4>1. send_events \in Seq(Tx)
        BY DEF BenchInv, Typed, SendTypes
      <4>2. x.key = tx.key => InQueue(tx.key, send_events) >= 1
        BY <3>3, <4>1, InQueueType
      <4> QED BY <2>2, <4>2
    <3> QED BY <1>6, <3>1, <3>2, <3>3
  <2>4. x \in Known /\ tx \in Known
    BY <1>6 DEF Known
  <2> QED BY <2>3, <2>4 DEF BenchInv, Signatures, SigsTell
<1>8. PendingIsOpen'
  <2>1. Follows(Open, pending_sigs, lost, stranded)
    BY PendingFollows DEF BenchInv
  <2>2. \A x \in Open' : x.sig \in pending_sigs'
    BY <1>6, <1>7, <2>1 DEF Follows
  <2>3. ASSUME \A k \in schedule : lost'[k] = 0 /\ stranded'[k] = 0, NEW s \in pending_sigs'
        PROVE  \E x \in Open' : x.sig = s
    <3>1. \A k \in schedule : lost[k] = 0 /\ stranded[k] = 0
      <4> SUFFICES ASSUME NEW k \in schedule PROVE lost[k] = 0
        BY <2>3
      <4>1. lost'[k] = 0 /\ lost'[k] >= lost[k] /\ lost[k] \in Nat
        BY <1>2, <2>3, CountedOnce
      <4> QED BY <4>1
    <3>2. PICK x \in Open : x.sig = s
      BY <2>1, <2>3, <3>1 DEF Follows
    <3> QED BY <1>6, <2>3, <3>2
  <2> QED BY <2>2, <2>3, PendingFollows DEF Follows
<1> QED BY <1>1, <1>2, <1>3, <1>4, <1>5, <1>8

(* The finalizer gives a send up, at its deadline or at the end.           *)
LEMMA StepGiveUp ==
  ASSUME BenchInv, NEW tx \in map, Deadline(tx) \/ FinalizerFlush(tx)
  PROVE  BenchInv'
<1>1. /\ map' = map \ {tx} /\ pending_sigs' = pending_sigs \ {tx.sig}
      /\ fallback_queue' = fallback_queue \cup {tx.sig} /\ Final(tx, <<>>)
      /\ UNCHANGED <<observerVars, preparerVars, fileVars, stop, too_old, pool, send_queue,
                     inflight, landable, send_events, early_matches, fallback_thread, stranded>>
      /\ finalizer' \in {"Run", "Flush", "Exit"}
  BY DEF Deadline, FinalizerFlush, GiveUp, Forget, NextTurn
<1>2. /\ map \subseteq Tx /\ tx \in Tx /\ tx.sig \in Sig
  BY TxParts DEF BenchInv, Typed, FinalTypes
<1>3. /\ map' \subseteq Tx /\ IsFiniteSet(map')
      /\ final_queue' \in Seq(Row) /\ Len(final_queue') <= channel_capacity
      /\ HistoryTypes' /\ RowsInStep' /\ FiresConserved' /\ PendingIsOpen' /\ Signatures'
  <2>1. InStep(<<>>)
    BY DEF InStep
  <2>2. UNCHANGED <<inflight, send_events, send_queue, pool, cycle, preparer, file, fired, stranded>>
    BY <1>1 DEF preparerVars, fileVars, observerVars
  <2> QED BY <1>1, <2>1, <2>2, LeavesMap
<1>4. ObserverTypes' /\ Counts' /\ MatchesInStep' /\ FiredTicks' /\ PreparerTypes'
  BY <1>1, ObserverKept, PreparerKept
<1>5. PoolTypes' /\ SendTypes' /\ FileTypes' /\ EarlyInStep'
  BY <1>1 DEF BenchInv, Typed, PoolTypes, SendTypes, FileTypes, EarlyInStep, fileVars
<1>6. FinalTypes'
  BY <1>1, <1>2, <1>3 DEF BenchInv, Typed, FinalTypes
<1> QED BY <1>3, <1>4, <1>5, <1>6 DEF BenchInv, Typed

(* An observation completes the one send of its signature, or is buffered. *)
LEMMA StepFinalizeMatch == BenchInv /\ FinalizeMatch => BenchInv'
<1> SUFFICES ASSUME BenchInv, FinalizeMatch PROVE BenchInv'
  OBVIOUS
<1>1. PICK m : m = Head(match_queue)
  OBVIOUS
<1> DEFINE found == {p \in map : p.sig = m.sig}
<1>2. /\ match_queue # <<>> /\ match_queue' = Tail(match_queue)
      /\ \/ /\ found # {} /\ map' = map \ found /\ pending_sigs' = pending_sigs \ {m.sig}
            /\ Final(CHOOSE p \in found : TRUE, m.match) /\ UNCHANGED early_matches
         \/ /\ early_matches' = Put(early_matches, m.sig, m.match)
            /\ UNCHANGED <<map, pending_sigs, final_queue, lost>>
      /\ finalizer' \in {"Run", "Flush"}
      /\ UNCHANGED <<slot_state, first_slot_seen, current_slot, observer, content, observations,
                     fired, first_match, preparerVars, fileVars, stop, too_old, pool, send_queue,
                     inflight, landable, send_events, fallback_queue, fallback_thread, stranded>>
  BY <1>1 DEF FinalizeMatch, NextTurn
<1>3. /\ match_queue \in Seq(QueuedMatch) /\ Len(match_queue) <= channel_capacity
      /\ map \subseteq Tx /\ MatchesInStep
  BY DEF BenchInv, Typed, ObserverTypes, FinalTypes
<1>4. /\ match_queue' \in Seq(QueuedMatch) /\ Len(match_queue') = Len(match_queue) - 1
      /\ m \in QueuedMatch /\ Items(match_queue) = Items(match_queue') \cup {m}
  BY <1>1, <1>2, <1>3, QueueTail
<1>5. m.sig \in Sig /\ m.match \in Match /\ InStep(m.match)
  BY <1>3, <1>4 DEF QueuedMatch, MatchesInStep
<1>6. MatchesInStep' /\ ObserverTypes' /\ Counts' /\ FiredTicks'
  <2>1. MatchesInStep'
    BY <1>3, <1>4 DEF MatchesInStep
  <2>2. Len(match_queue') <= channel_capacity
    BY <1>3, <1>4, BenchAssumption
  <2>3. ObserverTypes'
    BY <1>2, <1>4, <2>2 DEF BenchInv, Typed, ObserverTypes
  <2>4. Counts' /\ FiredTicks'
    BY <1>2 DEF BenchInv, Counts, FiredTicks
  <2> QED BY <2>1, <2>3, <2>4
<1>7. PreparerTypes' /\ PoolTypes' /\ FileTypes'
  BY <1>2, PreparerKept DEF BenchInv, Typed, PoolTypes, FileTypes, fileVars
<1>8. CASE /\ found # {} /\ map' = map \ found /\ pending_sigs' = pending_sigs \ {m.sig}
           /\ Final(CHOOSE p \in found : TRUE, m.match) /\ UNCHANGED early_matches
  <2>1. PICK tx \in found : tx = CHOOSE p \in found : TRUE
    BY <1>8
  <2>2. tx \in map /\ tx \in Tx /\ tx.sig = m.sig
    BY <1>3
  <2>3. found = {tx}
    <3> SUFFICES ASSUME NEW p \in found PROVE p = tx
      OBVIOUS
    <3>1. p.key = tx.key
      BY DEF BenchInv, Signatures, SigsTell, Known
    <3>2. tx.key \in schedule /\ IsFiniteSet(map)
      BY <2>2, TxParts DEF BenchInv, Typed, FinalTypes
    <3>3. InSet(tx.key, map) <= 1
      BY <3>2, CountedOnce
    <3> QED BY <3>1, <3>2, <3>3, InSetType
  <2> HIDE DEF found
  <2>4. /\ map' \subseteq Tx /\ IsFiniteSet(map')
        /\ final_queue' \in Seq(Row) /\ Len(final_queue') <= channel_capacity
        /\ HistoryTypes' /\ RowsInStep' /\ FiresConserved' /\ PendingIsOpen' /\ Signatures'
    <3>1. UNCHANGED <<inflight, send_events, send_queue, pool, cycle, preparer, file, fired, stranded>>
      BY <1>2 DEF preparerVars, fileVars
    <3>2. Final(tx, m.match) /\ map' = map \ {tx} /\ pending_sigs' = pending_sigs \ {tx.sig}
      BY <1>8, <2>1, <2>2, <2>3
    <3> QED BY <1>5, <2>2, <3>1, <3>2, LeavesMap
  <2>5. SendTypes' /\ FinalTypes' /\ EarlyInStep'
    BY <1>2, <1>8, <2>4 DEF BenchInv, Typed, SendTypes, FinalTypes, EarlyInStep
  <2> QED BY <1>6, <1>7, <2>4, <2>5 DEF BenchInv, Typed
<1>9. CASE /\ early_matches' = Put(early_matches, m.sig, m.match)
           /\ UNCHANGED <<map, pending_sigs, final_queue, lost>>
  <2>1. \A s \in DOMAIN early_matches' :
          \/ early_matches'[s] = m.match
          \/ s \in DOMAIN early_matches /\ early_matches'[s] = early_matches[s]
    BY <1>9 DEF Put
  <2>2. FinalTypes' /\ EarlyInStep'
    BY <1>2, <1>5, <1>9, <2>1 DEF BenchInv, Typed, FinalTypes, EarlyInStep
  <2>3. SendTypes' /\ HistoryTypes' /\ RowsInStep'
    BY <1>2, <1>9 DEF BenchInv, Typed, SendTypes, HistoryTypes, RowsInStep, fileVars
  <2>4. FiresConserved' /\ PendingIsOpen'
    BY <1>2, <1>9 DEF BenchInv, FiresConserved, PendingIsOpen, fileVars
  <2>5. Signatures'
    <3>1. Known' \subseteq Known
      BY <1>2, <1>9 DEF Known
    <3> QED BY <1>2, <3>1, SignaturesKept DEF preparerVars
  <2> QED BY <1>6, <1>7, <2>2, <2>3, <2>4, <2>5 DEF BenchInv, Typed
<1> QED BY <1>2, <1>8, <1>9

(* A send's event completes an early observation, or the send waits.       *)
LEMMA StepFinalizeSend == BenchInv /\ FinalizeSend => BenchInv'
<1> SUFFICES ASSUME BenchInv, FinalizeSend PROVE BenchInv'
  OBVIOUS
<1>1. PICK tx : tx = Head(send_events)
  OBVIOUS
<1> DEFINE known == {p \in map : p.sig = tx.sig}
<1>3. /\ send_events # <<>> /\ send_events' = Tail(send_events)
      /\ finalizer' \in {"Run", "Flush"}
      /\ UNCHANGED <<observerVars, preparerVars, fileVars, stop, too_old, pool, send_queue,
                     inflight, landable, fallback_queue, fallback_thread, stranded>>
  BY DEF FinalizeSend, NextTurn
<1>4. /\ send_events \in Seq(Tx) /\ Len(send_events) <= channel_capacity
      /\ map \subseteq Tx /\ IsFiniteSet(map) /\ IsFiniteSet(inflight)
  BY DEF BenchInv, Typed, SendTypes, FinalTypes
<1>5. /\ send_events' \in Seq(Tx) /\ Len(send_events') = Len(send_events) - 1 /\ tx \in Tx
      /\ Items(send_events) = Items(send_events') \cup {tx}
      /\ \A k : InQueue(k, send_events) = InQueue(k, send_events') + One(k, tx)
  BY <1>1, <1>3, <1>4, QueueTail
<1>6. tx.key \in schedule /\ tx.sig \in Sig
  BY <1>5, TxParts
<1>7. ASSUME NEW x \in inflight \cup map \cup Items(send_events') PROVE x.sig # tx.sig
  <2>1. InQueue(tx.key, send_events) = InQueue(tx.key, send_events') + 1
    BY <1>5 DEF One
  <2>2. InQueue(tx.key, send_events') \in Nat
    BY <1>5, InQueueType
  <2>3. /\ InQueue(tx.key, send_events') = 0 /\ InSet(tx.key, inflight) = 0
        /\ InSet(tx.key, map) = 0
    <3>1. /\ InQueue(tx.key, send_queue) \in Nat /\ InSet(tx.key, inflight) \in Nat
          /\ InSet(tx.key, map) \in Nat /\ InQueue(tx.key, final_queue) \in Nat
          /\ InSet(tx.key, file) \in Nat /\ lost[tx.key] \in Nat /\ stranded[tx.key] \in Nat
          /\ 1 >= InQueue(tx.key, send_queue) + InSet(tx.key, inflight)
                    + InQueue(tx.key, send_events) + InSet(tx.key, map)
                    + InQueue(tx.key, final_queue) + InSet(tx.key, file) + lost[tx.key] + stranded[tx.key]
      BY <1>6, CountedOnce
    <3>2. InQueue(tx.key, send_events) \in Nat
      BY <1>6, CountedOnce
    <3>3. InQueue(tx.key, send_events') = 0
      BY <2>1, <2>2, <3>1, <3>2
    <3>4. InSet(tx.key, inflight) = 0
      BY <2>1, <2>2, <3>1, <3>2
    <3>5. InSet(tx.key, map) = 0
      BY <2>1, <2>2, <3>1, <3>2
    <3> QED BY <3>3, <3>4, <3>5
  <2>4. x.key # tx.key
    <3>1. CASE x \in inflight
      <4>1. x.key = tx.key => InSet(tx.key, inflight) >= 1
        BY <1>4, <3>1, InSetType
      <4> QED BY <2>3, <4>1
    <3>2. CASE x \in map
      <4>1. x.key = tx.key => InSet(tx.key, map) >= 1
        BY <1>4, <3>2, InSetType
      <4> QED BY <2>3, <4>1
    <3>3. CASE x \in Items(send_events')
      <4>1. x.key = tx.key => InQueue(tx.key, send_events') >= 1
        BY <1>5, <3>3, InQueueType
      <4> QED BY <2>3, <4>1
    <3> QED BY <3>1, <3>2, <3>3
  <2>5. x \in Known /\ tx \in Known
    BY <1>5 DEF Known
  <2> QED BY <2>4, <2>5 DEF BenchInv, Signatures, SigsTell
<1>8. known = {}
  BY <1>7
<1>9. \/ /\ tx.sig \in DOMAIN early_matches
         /\ early_matches' = Drop(early_matches, tx.sig) /\ UNCHANGED map
         /\ pending_sigs' = pending_sigs \ {tx.sig}
         /\ Final(tx, early_matches[tx.sig])
      \/ /\ map' = map \cup {tx}
         /\ UNCHANGED <<early_matches, pending_sigs, final_queue, lost>>
  BY <1>1, <1>8 DEF FinalizeSend
<1> HIDE DEF known
<1>10. /\ ObserverTypes' /\ Counts' /\ MatchesInStep' /\ FiredTicks' /\ PreparerTypes'
       /\ PoolTypes' /\ FileTypes' /\ UNCHANGED <<fired, file, stranded>>
  BY <1>3, ObserverKept, PreparerKept DEF BenchInv, Typed, PoolTypes, FileTypes, fileVars,
     observerVars
<1>11. Len(send_events') <= channel_capacity
  BY <1>4, <1>5, BenchAssumption
<1>12. CASE /\ tx.sig \in DOMAIN early_matches
            /\ early_matches' = Drop(early_matches, tx.sig) /\ UNCHANGED map
            /\ pending_sigs' = pending_sigs \ {tx.sig}
            /\ Final(tx, early_matches[tx.sig])
  <2>1. early_matches[tx.sig] \in Match /\ InStep(early_matches[tx.sig])
    BY <1>12 DEF BenchInv, Typed, FinalTypes, EarlyInStep
  <2>2. /\ final_queue' \in Seq(Row) /\ Len(final_queue') <= channel_capacity
        /\ HistoryTypes' /\ RowsInStep'
        /\ \A k \in schedule :
             /\ InQueue(k, final_queue') \in Nat /\ lost'[k] \in Nat /\ lost'[k] >= lost[k]
             /\ InQueue(k, final_queue') + lost'[k]
                  = InQueue(k, final_queue) + lost[k] + One(k, tx)
    BY <1>5, <1>10, <1>12, <2>1, FinalRow
  <2>3. \A s \in DOMAIN early_matches' :
          s \in DOMAIN early_matches /\ early_matches'[s] = early_matches[s]
    BY <1>12 DEF Drop
  <2>4. SendTypes' /\ FinalTypes' /\ EarlyInStep'
    BY <1>3, <1>5, <1>11, <1>12, <2>2, <2>3 DEF BenchInv, Typed, SendTypes, FinalTypes, EarlyInStep
  <2>5. FiresConserved'
    <3> SUFFICES ASSUME NEW k \in schedule
                 PROVE  (IF k \in fired THEN 1 ELSE 0)
                          = InQueue(k, send_queue) + InSet(k, inflight) + InQueue(k, send_events')
                            + InSet(k, map) + InQueue(k, final_queue') + InSet(k, file) + lost'[k] + stranded[k]
      BY <1>3, <1>10, <1>12 DEF FiresConserved
    <3>1. /\ InQueue(k, send_events) = InQueue(k, send_events') + One(k, tx)
          /\ One(k, tx) \in 0 .. 1
      BY <1>5, OneType
    <3>2. InQueue(k, send_events') \in Nat
      BY <1>5, InQueueType
    <3>3. /\ InQueue(k, final_queue') \in Nat /\ lost'[k] \in Nat
          /\ InQueue(k, final_queue') + lost'[k] = InQueue(k, final_queue) + lost[k] + One(k, tx)
      BY <2>2
    <3>4. /\ InQueue(k, final_queue) \in Nat /\ lost[k] \in Nat /\ InQueue(k, send_queue) \in Nat
          /\ InSet(k, inflight) \in Nat /\ InSet(k, map) \in Nat /\ InSet(k, file) \in Nat
          /\ (IF k \in fired THEN 1 ELSE 0)
               = InQueue(k, send_queue) + InSet(k, inflight) + InQueue(k, send_events)
                   + InSet(k, map) + InQueue(k, final_queue) + InSet(k, file) + lost[k] + stranded[k]
      BY CountedOnce
    <3> QED BY <3>1, <3>2, <3>3, <3>4
  <2>6. PendingIsOpen'
    <3>1. Follows(Open, pending_sigs, lost, stranded)
      BY PendingFollows DEF BenchInv
    <3>2. Open' = inflight \cup map \cup Items(send_events') /\ Open = Open' \cup {tx}
      BY <1>3, <1>5, <1>12 DEF Open
    <3>3. \A x \in Open' : x.sig \in pending_sigs'
      BY <1>7, <1>12, <3>1, <3>2 DEF Follows
    <3>4. ASSUME \A k \in schedule : lost'[k] = 0 /\ stranded'[k] = 0, NEW s \in pending_sigs'
          PROVE  \E x \in Open' : x.sig = s
      <4>1. \A k \in schedule : lost[k] = 0 /\ stranded[k] = 0
        <5> SUFFICES ASSUME NEW k \in schedule PROVE lost[k] = 0
          BY <1>10, <3>4
        <5>1. lost'[k] = 0 /\ lost'[k] >= lost[k] /\ lost[k] \in Nat
          BY <2>2, <3>4, CountedOnce
        <5> QED BY <5>1
      <4>2. PICK x \in Open : x.sig = s
        BY <1>12, <3>1, <3>4, <4>1 DEF Follows
      <4> QED BY <1>12, <3>2, <3>4, <4>2
    <3> QED BY <3>3, <3>4, PendingFollows DEF Follows
  <2>7. Signatures'
    <3>1. Known' \subseteq Known
      BY <1>3, <1>5, <1>12 DEF Known
    <3> QED BY <1>3, <3>1, SignaturesKept DEF preparerVars
  <2> QED BY <1>10, <2>2, <2>4, <2>5, <2>6, <2>7 DEF BenchInv, Typed
<1>13. CASE /\ map' = map \cup {tx}
            /\ UNCHANGED <<early_matches, pending_sigs, final_queue, lost>>
  <2>1. tx \notin map
    BY <1>7
  <2>2. IsFiniteSet(map') /\ \A k : InSet(k, map') = InSet(k, map) + One(k, tx)
    BY <1>4, <1>13, <2>1, InSetAdd
  <2>3. /\ SendTypes' /\ FinalTypes' /\ EarlyInStep' /\ HistoryTypes' /\ RowsInStep'
    BY <1>3, <1>5, <1>10, <1>11, <1>13, <2>2
       DEF BenchInv, Typed, SendTypes, FinalTypes, EarlyInStep, HistoryTypes, RowsInStep
  <2>4. FiresConserved'
    <3> SUFFICES ASSUME NEW k \in schedule
                 PROVE  (IF k \in fired THEN 1 ELSE 0)
                          = InQueue(k, send_queue) + InSet(k, inflight) + InQueue(k, send_events')
                            + InSet(k, map') + InQueue(k, final_queue) + InSet(k, file) + lost[k] + stranded[k]
      BY <1>3, <1>10, <1>13 DEF FiresConserved
    <3>1. /\ InQueue(k, send_events) = InQueue(k, send_events') + One(k, tx)
          /\ One(k, tx) \in 0 .. 1
      BY <1>5, OneType
    <3>2. InQueue(k, send_events') \in Nat /\ InSet(k, map') = InSet(k, map) + One(k, tx)
      BY <1>5, <2>2, InQueueType
    <3> QED BY <3>1, <3>2, CountedOnce
  <2>5. PendingIsOpen'
    <3>1. Open' = Open
      BY <1>3, <1>5, <1>13 DEF Open
    <3> QED BY <1>10, <1>13, <3>1, PendingFollows DEF Follows, BenchInv
  <2>6. Signatures'
    <3>1. Known' \subseteq Known
      BY <1>3, <1>5, <1>13 DEF Known
    <3> QED BY <1>3, <3>1, SignaturesKept DEF preparerVars
  <2> QED BY <1>10, <2>3, <2>4, <2>5, <2>6 DEF BenchInv, Typed
<1> QED BY <1>9, <1>12, <1>13

-----------------------------------------------------------------------------
(* The amount tells apart what one cycle signs: it grows with the trigger. *)
LEMMA AmountGrows ==
  ASSUME NEW new \in SUBSET schedule, NEW j \in new, NEW k \in new,
         j[1] < k[1] \/ (j[1] = k[1] /\ j[2] < k[2])
  PROVE  Amount(j, new) < Amount(k, new)
<1> DEFINE before(x) == {i \in new : i[1] < x[1] \/ (i[1] = x[1] /\ i[2] < x[2])}
<1>1. \A x \in new : x[1] \in Nat /\ x[2] \in Nat
  BY BenchAssumption
<1>2. IsFiniteSet(new)
  BY BenchAssumption, FS_Subset
<1>3. IsFiniteSet(before(j)) /\ IsFiniteSet(before(k))
  BY <1>2, FS_Subset
<1>4. j \notin before(j)
  BY <1>1
<1>5. before(j) \cup {j} \subseteq before(k)
  BY <1>1
<1>6. Amount(j, new) = Cardinality(before(j)) /\ Amount(k, new) = Cardinality(before(k))
  BY DEF Amount
<1> HIDE DEF before
<1>7. Cardinality(before(j) \cup {j}) = Cardinality(before(j)) + 1
  BY <1>3, <1>4, FS_AddElement
<1>8. Cardinality(before(j) \cup {j}) <= Cardinality(before(k))
  BY <1>3, <1>5, FS_Subset
<1>9. Cardinality(before(j)) \in Nat /\ Cardinality(before(k)) \in Nat
  BY <1>3, FS_CardinalityType
<1> QED BY <1>6, <1>7, <1>8, <1>9

LEMMA AmountsDiffer ==
  ASSUME NEW new \in SUBSET schedule
  PROVE  /\ \A k \in new : Amount(k, new) \in Nat
         /\ \A j, k \in new : Amount(j, new) = Amount(k, new) => j = k
<1>1. ASSUME NEW k \in new PROVE Amount(k, new) \in Nat
  <2>1. IsFiniteSet(new)
    BY BenchAssumption, FS_Subset
  <2>2. IsFiniteSet({i \in new : i[1] < k[1] \/ (i[1] = k[1] /\ i[2] < k[2])})
    BY <2>1, FS_Subset
  <2> QED BY <2>2, FS_CardinalityType DEF Amount
<1>2. ASSUME NEW j \in new, NEW k \in new, Amount(j, new) = Amount(k, new) PROVE j = k
  <2>1. /\ j \in Nat \X (1 .. TICKS_PER_SLOT) /\ k \in Nat \X (1 .. TICKS_PER_SLOT)
        /\ TICKS_PER_SLOT \in Nat
    BY BenchAssumption
  <2>2. /\ j = <<j[1], j[2]>> /\ k = <<k[1], k[2]>>
        /\ j[1] \in Nat /\ k[1] \in Nat /\ j[2] \in Nat /\ k[2] \in Nat
    BY <2>1
  <2>3. ~(j[1] < k[1] \/ (j[1] = k[1] /\ j[2] < k[2]))
    BY <1>1, <1>2, AmountGrows
  <2>4. ~(k[1] < j[1] \/ (k[1] = j[1] /\ k[2] < j[2]))
    BY <1>1, <1>2, AmountGrows
  <2> QED BY <2>2, <2>3, <2>4
<1> QED BY <1>1, <1>2

(* A step of the preparer touches the memory of what it signed and the     *)
(* pool; nothing further down the pipeline.                                *)
LEMMA PipelineKept ==
  ASSUME BenchInv,
         UNCHANGED <<observerVars, sendVars, finalVars, fileVars, stop, send_queue,
                     send_events, final_queue, fallback_thread, lost>>
  PROVE  /\ ObserverTypes' /\ SendTypes' /\ FinalTypes' /\ FileTypes' /\ HistoryTypes'
         /\ Counts' /\ MatchesInStep' /\ EarlyInStep' /\ RowsInStep' /\ FiredTicks'
         /\ FiresConserved' /\ PendingIsOpen'
<1>1. ObserverTypes' /\ Counts' /\ MatchesInStep' /\ FiredTicks' /\ fired' = fired
  BY ObserverKept DEF observerVars
<1>2. SendTypes' /\ FinalTypes' /\ FileTypes' /\ HistoryTypes'
  BY <1>1 DEF BenchInv, Typed, SendTypes, FinalTypes, FileTypes, HistoryTypes, sendVars, finalVars,
              fileVars
<1>3. EarlyInStep' /\ RowsInStep'
  BY DEF BenchInv, EarlyInStep, RowsInStep, finalVars, fileVars
<1>4. FiresConserved' /\ PendingIsOpen'
  BY <1>1 DEF BenchInv, FiresConserved, PendingIsOpen, sendVars, finalVars, fileVars
<1> QED BY <1>1, <1>2, <1>3, <1>4

(* What a known transaction's signature says of its cycle.                 *)
LEMMA KnownTyped == BenchInv => \A x \in Known : x.sig \in Sig /\ x.sig[1] \in Int
<1> SUFFICES ASSUME BenchInv, NEW x \in Known PROVE x.sig \in Sig /\ x.sig[1] \in Int
  OBVIOUS
<1>1. /\ send_queue \in Seq(Tx) /\ send_events \in Seq(Tx)
      /\ pool \subseteq Tx /\ inflight \subseteq Tx /\ map \subseteq Tx
  BY DEF BenchInv, Typed, PoolTypes, SendTypes, FinalTypes
<1>2. Items(send_queue) \subseteq Tx /\ Items(send_events) \subseteq Tx
  BY <1>1 DEF Items
<1>3. x \in Tx
  BY <1>1, <1>2 DEF Known
<1>4. x.sig \in (1 .. MaxCycles) \X Nat
  BY <1>3, TxParts DEF Sig
<1>5. x.sig[1] \in Int
  BY <1>4
<1> QED BY <1>3, <1>5, TxParts

(* A new cycle: what has expired leaves the pool.                          *)
LEMMA StepFetch == BenchInv /\ FetchBlockhash => BenchInv'
<1> SUFFICES ASSUME BenchInv, FetchBlockhash PROVE BenchInv'
  OBVIOUS
<1>1. /\ UNCHANGED <<observerVars, sendVars, finalVars, fileVars, stop, too_old,
                     send_queue, send_events, final_queue, fallback_thread, lost>>
      /\ cycle < MaxCycles /\ cycle' = cycle + 1 /\ preparer' = "Sign"
      /\ window_lo' = current_slot
  BY DEF FetchBlockhash
<1> DEFINE expired == {k \in schedule : already_signed[k] \in 1 .. too_old}
<1>2. /\ already_signed' = [k \in schedule |-> IF k \in expired THEN 0 ELSE already_signed[k]]
      /\ pool' = {p \in pool : p.key \notin expired}
  BY DEF FetchBlockhash, Expire
<1> HIDE DEF expired
<1>3. /\ ObserverTypes' /\ SendTypes' /\ FinalTypes' /\ FileTypes' /\ HistoryTypes'
      /\ Counts' /\ MatchesInStep' /\ EarlyInStep' /\ RowsInStep' /\ FiredTicks'
      /\ FiresConserved' /\ PendingIsOpen'
  BY <1>1, PipelineKept
<1>4. /\ cycle \in Nat /\ too_old \in Nat /\ too_old <= cycle
      /\ already_signed \in [schedule -> 0 .. cycle] /\ current_slot \in Slot \cup {start_slot}
  BY DEF BenchInv, Typed, ObserverTypes, PreparerTypes
<1>5. PreparerTypes'
  <2>1. already_signed' \in [schedule -> 0 .. cycle + 1]
    <3>1. \A k \in schedule : already_signed[k] \in 0 .. cycle + 1 /\ 0 \in 0 .. cycle + 1
      BY <1>4
    <3> QED BY <1>2, <3>1
  <2>2. /\ cycle' \in Nat /\ cycle' >= 1 /\ too_old' \in Nat /\ too_old' <= cycle'
        /\ cycle' <= MaxCycles
    BY <1>1, <1>4, BenchAssumption
  <2> QED BY <1>1, <1>4, <2>1, <2>2 DEF PreparerTypes
<1>6. PoolTypes'
  BY <1>1, <1>2 DEF BenchInv, Typed, PoolTypes
<1>7. Signatures'
  <2>1. Known' \subseteq Known
    BY <1>1, <1>2 DEF Known, sendVars, finalVars
  <2>2. SigsTell(Known) /\ SignedBefore(Known, preparer)
    BY DEF BenchInv, Signatures
  <2>3. \A x \in Known : x.sig[1] <= cycle + 1 /\ x.sig[1] < cycle + 1
    BY <1>4, <2>2, KnownTyped DEF SignedBefore
  <2> QED BY <1>1, <2>1, <2>2, <2>3 DEF Signatures, SigsTell, SignedBefore
<1> QED BY <1>3, <1>5, <1>6, <1>7 DEF BenchInv, Typed

(* The cycle signs its window: the new signatures are its own, and the     *)
(* pool still has one transaction per trigger.                             *)
LEMMA StepSign == BenchInv /\ Sign => BenchInv'
<1> SUFFICES ASSUME BenchInv, Sign PROVE BenchInv'
  OBVIOUS
<1> DEFINE New == {k \in schedule : /\ k[1] \in window_lo .. (window_lo + look_ahead_slots - 1)
                                    /\ already_signed[k] = 0}
           Made == {[key |-> k, sig |-> <<cycle, Amount(k, New)>>] : k \in New}
<1>1. /\ preparer = "Sign" /\ preparer' = "Sleep"
      /\ already_signed' = [k \in schedule |-> IF k \in New THEN cycle ELSE already_signed[k]]
      /\ pool' = prune_older_than(insert(pool, Made), window_lo - 2)
      /\ UNCHANGED <<observerVars, sendVars, finalVars, fileVars, stop, cycle, window_lo,
                     too_old, send_queue, send_events, final_queue, fallback_thread, lost>>
  BY DEF Sign
<1>2. New \in SUBSET schedule
  OBVIOUS
<1>3. \A x \in Made : \E k \in New : x = [key |-> k, sig |-> <<cycle, Amount(k, New)>>]
  OBVIOUS
<1> HIDE DEF New, Made
<1>4. /\ ObserverTypes' /\ SendTypes' /\ FinalTypes' /\ FileTypes' /\ HistoryTypes'
      /\ Counts' /\ MatchesInStep' /\ EarlyInStep' /\ RowsInStep' /\ FiredTicks'
      /\ FiresConserved' /\ PendingIsOpen'
  BY <1>1, PipelineKept
<1>5. /\ cycle \in Nat /\ cycle >= 1 /\ cycle <= MaxCycles /\ MaxCycles \in Nat
      /\ already_signed \in [schedule -> 0 .. cycle]
  BY <1>1, BenchAssumption DEF BenchInv, Typed, PreparerTypes
<1>6. PreparerTypes'
  <2>1. already_signed' \in [schedule -> 0 .. cycle]
    <3>1. \A k \in schedule : already_signed[k] \in 0 .. cycle /\ cycle \in 0 .. cycle
      BY <1>5
    <3> QED BY <1>1, <3>1
  <2> QED BY <1>1, <2>1 DEF BenchInv, Typed, PreparerTypes
<1>7. \A k \in New : Amount(k, New) \in Nat
  BY <1>2, AmountsDiffer
<1>8. ASSUME NEW x \in Made PROVE x \in Tx /\ x.key \in New /\ x.sig = <<cycle, Amount(x.key, New)>>
  <2>1. PICK k \in New : x = [key |-> k, sig |-> <<cycle, Amount(k, New)>>]
    BY <1>3
  <2>2. <<cycle, Amount(k, New)>> \in Sig
    BY <1>5, <1>7 DEF Sig
  <2>3. k \in schedule
    BY <1>2
  <2>4. x.key = k /\ x.sig = <<cycle, Amount(k, New)>>
    BY <2>1
  <2> QED BY <2>1, <2>2, <2>3, <2>4 DEF Tx
<1>9. \A x \in pool' : x \in Made \/ (x \in pool /\ \A q \in Made : q.key # x.key)
  BY <1>1 DEF prune_older_than, insert
<1>10. \A x, y \in Made : x.key = y.key => x = y
  <2> SUFFICES ASSUME NEW x \in Made, NEW y \in Made, x.key = y.key PROVE x = y
    OBVIOUS
  <2>1. PICK k \in New : x = [key |-> k, sig |-> <<cycle, Amount(k, New)>>]
    BY <1>3
  <2>2. PICK j \in New : y = [key |-> j, sig |-> <<cycle, Amount(j, New)>>]
    BY <1>3
  <2>3. x.key = k /\ y.key = j
    BY <2>1, <2>2
  <2> QED BY <2>1, <2>2, <2>3
<1>11. PoolTypes'
  <2>1. /\ pool \subseteq Tx /\ \A p, q \in pool : p.key = q.key => p = q
        /\ send_queue \in Seq(Tx) /\ Len(send_queue) <= channel_capacity
    BY DEF BenchInv, Typed, PoolTypes
  <2>2. pool' \subseteq Tx
    BY <1>8, <1>9, <2>1
  <2>3. \A p, q \in pool' : p.key = q.key => p = q
    BY <1>9, <1>10, <2>1
  <2> QED BY <1>1, <2>1, <2>2, <2>3 DEF PoolTypes
<1>12. Signatures'
  <2>1. Known' \subseteq Known \cup Made
    BY <1>1, <1>9 DEF Known, sendVars, finalVars
  <2>2. /\ \A x, y \in Known : x.sig = y.sig => x.key = y.key
        /\ \A x \in Known : x.sig[1] <= cycle /\ x.sig[1] < cycle
    BY <1>1 DEF BenchInv, Signatures, SigsTell, SignedBefore
  <2>3. \A x \in Made : x.sig[1] = cycle /\ x.sig[2] = Amount(x.key, New) /\ x.key \in New
    BY <1>8
  <2>4. \A x \in Known, y \in Made : x.sig # y.sig
    <3> SUFFICES ASSUME NEW x \in Known, NEW y \in Made, x.sig = y.sig PROVE FALSE
      OBVIOUS
    <3>1. x.sig[1] < cycle /\ x.sig[1] = cycle
      BY <2>2, <2>3
    <3> QED BY <1>5, <3>1
  <2>5. \A x, y \in Made : x.sig = y.sig => x.key = y.key
    BY <1>2, <2>3, AmountsDiffer
  <2>6. SigsTell(Known')
    BY <2>1, <2>2, <2>4, <2>5 DEF SigsTell
  <2>7. \A x \in Known' : x.sig[1] <= cycle
    BY <1>5, <2>1, <2>2, <2>3
  <2> QED BY <1>1, <2>6, <2>7 DEF Signatures, SigsTell, SignedBefore
<1> QED BY <1>4, <1>6, <1>11, <1>12 DEF BenchInv, Typed

(* The preparer's other steps. *)
LEMMA StepPreparerRest == BenchInv /\ (PreparerExit \/ BlockhashAges) => BenchInv'
<1> SUFFICES ASSUME BenchInv, PreparerExit \/ BlockhashAges PROVE BenchInv'
  OBVIOUS
<1>1. /\ UNCHANGED <<observerVars, sendVars, finalVars, fileVars, stop, send_queue,
                     send_events, final_queue, fallback_thread, lost>>
      /\ UNCHANGED <<cycle, window_lo, already_signed, pool>>
      /\ preparer' \in {"Sleep", "Exit"} /\ preparer = "Sleep"
      /\ too_old' = too_old \/ (too_old < cycle /\ too_old' = too_old + 1)
  BY DEF PreparerExit, BlockhashAges, preparerVars
<1>2. /\ ObserverTypes' /\ SendTypes' /\ FinalTypes' /\ FileTypes' /\ HistoryTypes'
      /\ Counts' /\ MatchesInStep' /\ EarlyInStep' /\ RowsInStep' /\ FiredTicks'
      /\ FiresConserved' /\ PendingIsOpen'
  BY <1>1, PipelineKept
<1>3. PreparerTypes'
  <2>1. too_old \in Nat /\ cycle \in Nat /\ too_old <= cycle
    BY DEF BenchInv, Typed, PreparerTypes
  <2>2. too_old' \in Nat /\ too_old' <= cycle
    BY <1>1, <2>1
  <2> QED BY <1>1, <2>2 DEF BenchInv, Typed, PreparerTypes
<1>4. PoolTypes'
  BY <1>1 DEF BenchInv, Typed, PoolTypes
<1>5. Signatures'
  <2>1. Known' = Known
    BY <1>1 DEF Known, sendVars, finalVars
  <2> QED BY <1>1, <2>1 DEF BenchInv, Signatures, SigsTell, SignedBefore
<1> QED BY <1>2, <1>3, <1>4, <1>5 DEF BenchInv, Typed

-----------------------------------------------------------------------------
(* Steps that move nothing: threads that close, exit or poll, the stop.    *)
LEMMA StepRest ==
  BenchInv /\ (\/ FinalizerIdle \/ FinalizerClose \/ WriterClose
               \/ FallbackPoll \/ Stop \/ UNCHANGED benchVars) => BenchInv'
<1> SUFFICES ASSUME BenchInv,
                    \/ FinalizerIdle \/ FinalizerClose \/ WriterClose
                    \/ FallbackPoll \/ Stop \/ UNCHANGED benchVars
             PROVE  BenchInv'
  OBVIOUS
<1>1. UNCHANGED <<observerVars, preparerVars, sendVars, too_old, pool, send_queue, send_events,
                  map, early_matches, final_queue, file, lost, stranded>>
  BY DEF FinalizerIdle, FinalizerClose, WriterClose, FallbackPoll, Stop, benchVars,
         finalVars, fileVars
<1>2. /\ finalizer' \in {finalizer, "Flush", "Exit"} /\ parquet' \in {parquet, "Exit"}
      /\ fallback_thread' \in {"Run", "Exit", fallback_thread} /\ stop' \in {stop, TRUE}
      /\ fallback_queue' \in {fallback_queue, {}}
  BY DEF FinalizerIdle, FinalizerClose, WriterClose, FallbackPoll, Stop, benchVars,
         finalVars, fileVars
<1>3. /\ ObserverTypes' /\ Counts' /\ MatchesInStep' /\ FiredTicks' /\ PreparerTypes'
      /\ fired' = fired
  BY <1>1, ObserverKept, PreparerKept DEF observerVars
<1>4. PoolTypes' /\ SendTypes' /\ HistoryTypes'
  BY <1>1, <1>3 DEF BenchInv, Typed, PoolTypes, SendTypes, HistoryTypes, sendVars
<1>5. FinalTypes' /\ FileTypes'
  BY <1>1, <1>2 DEF BenchInv, Typed, FinalTypes, FileTypes
<1>6. EarlyInStep' /\ RowsInStep'
  BY <1>1 DEF BenchInv, EarlyInStep, RowsInStep
<1>7. FiresConserved' /\ PendingIsOpen'
  BY <1>1, <1>3 DEF BenchInv, FiresConserved, PendingIsOpen, sendVars
<1>8. Signatures'
  <2>1. Known' = Known
    BY <1>1 DEF Known, sendVars
  <2> QED BY <1>1, <2>1, SignaturesKept DEF preparerVars
<1> QED BY <1>3, <1>4, <1>5, <1>6, <1>7, <1>8 DEF BenchInv, Typed

(* The finalizer ends: the events it leaves in its channel are stranded.   *)
LEMMA StepExit == BenchInv /\ FinalizerExit => BenchInv'
<1> SUFFICES ASSUME BenchInv, FinalizerExit PROVE BenchInv'
  OBVIOUS
<1>1. /\ finalizer' = "Exit" /\ send_events' = <<>> /\ match_queue' = <<>>
      /\ stranded' = [k \in schedule |-> stranded[k] + InQueue(k, send_events)]
      /\ UNCHANGED <<slot_state, first_slot_seen, current_slot, observer, content, observations,
                     fired, first_match, preparerVars, sendVars, fileVars, stop, too_old, pool,
                     send_queue, map, early_matches, final_queue, fallback_queue,
                     fallback_thread, lost>>
  BY DEF FinalizerExit
<1>2. send_events \in Seq(Tx) /\ \A k \in schedule : InQueue(k, send_events) \in Nat
  BY CountedOnce DEF BenchInv, Typed, SendTypes
<1>3. \A k \in schedule : /\ stranded[k] \in Nat /\ InQueue(k, send_events') = 0
                         /\ stranded'[k] = stranded[k] + InQueue(k, send_events)
  BY <1>1, CountedOnce, QueueEmpty
<1>4. Items(match_queue') = {} /\ Items(send_events') = {}
  BY <1>1, QueueEmpty
<1>5. <<>> \in Seq(Tx) /\ <<>> \in Seq(QueuedMatch) /\ Len(<<>>) <= channel_capacity
  BY BenchAssumption
<1>6. ObserverTypes' /\ Counts' /\ MatchesInStep' /\ FiredTicks'
  <2>1. ObserverTypes'
    BY <1>1, <1>5 DEF BenchInv, Typed, ObserverTypes
  <2>2. Counts' /\ FiredTicks'
    BY <1>1 DEF BenchInv, Counts, FiredTicks
  <2> QED BY <1>4, <2>1, <2>2 DEF MatchesInStep
<1>7. PreparerTypes' /\ PoolTypes' /\ SendTypes' /\ FinalTypes' /\ FileTypes'
  <2>1. PreparerTypes'
    BY <1>1, PreparerKept
  <2> QED BY <1>1, <1>5, <2>1
          DEF BenchInv, Typed, PoolTypes, SendTypes, FinalTypes, FileTypes, sendVars, fileVars
<1>8. HistoryTypes'
  <2>1. stranded' \in [schedule -> Nat]
    BY <1>1, <1>2, <1>3
  <2> QED BY <1>1, <2>1 DEF BenchInv, Typed, HistoryTypes
<1>9. EarlyInStep' /\ RowsInStep'
  BY <1>1 DEF BenchInv, EarlyInStep, RowsInStep, fileVars
<1>10. FiresConserved'
  <2> SUFFICES ASSUME NEW k \in schedule
               PROVE  (IF k \in fired THEN 1 ELSE 0)
                        = InQueue(k, send_queue) + InSet(k, inflight) + InQueue(k, send_events')
                          + InSet(k, map) + InQueue(k, final_queue) + InSet(k, file) + lost[k]
                          + stranded'[k]
    BY <1>1 DEF FiresConserved, sendVars, fileVars
  <2> QED BY <1>3, CountedOnce
<1>11. PendingIsOpen'
  <2>1. Open' \subseteq Open /\ pending_sigs' = pending_sigs /\ lost' = lost
    BY <1>1, <1>4 DEF Open, sendVars
  <2>2. ASSUME \A k \in schedule : stranded'[k] = 0
        PROVE  Open' = Open /\ \A k \in schedule : stranded[k] = 0
    <3>1. \A k \in schedule : stranded[k] = 0 /\ InQueue(k, send_events) = 0
      BY <1>2, <1>3, <2>2
    <3>2. Items(send_events) = {}
      <4> SUFFICES ASSUME NEW x \in Items(send_events) PROVE FALSE
        OBVIOUS
      <4>1. x \in Tx
        BY <1>2 DEF Items
      <4>2. x.key \in schedule /\ InQueue(x.key, send_events) >= 1
        BY <1>2, <4>1, TxParts, InQueueType
      <4> QED BY <3>1, <4>2
    <3> QED BY <1>1, <1>4, <3>1, <3>2 DEF Open, sendVars
  <2> QED BY <2>1, <2>2, PendingFollows DEF Follows, BenchInv
<1>12. Signatures'
  <2>1. Known' \subseteq Known
    BY <1>1, <1>4 DEF Known, sendVars
  <2> QED BY <1>1, <2>1, SignaturesKept DEF preparerVars
<1> QED BY <1>6, <1>7, <1>8, <1>9, <1>10, <1>11, <1>12 DEF BenchInv, Typed

-----------------------------------------------------------------------------
(* The observer.                                                           *)

(* An entry leaves a slot counted: the one that completes a tick is a tick *)
(* entry not seen before.                                                  *)
LEMMA CountEntryCounts ==
  ASSUME NEW st \in SlotState, NEW e \in Entry, IsFiniteSet(st.seen), Counted(st)
  PROVE  /\ CountEntry(st, e) \in SlotState /\ Counted(CountEntry(st, e))
         /\ CountEntry(st, e).seen \subseteq st.seen \cup {e}
         /\ CountEntry(st, e).tick_idx >= st.tick_idx
<1>1. CASE e \in st.seen
  BY <1>1 DEF CountEntry, SlotState
<1>2. CASE e \notin st.seen
  <2> DEFINE hashes == st.hash_count + e.num_hashes
             tick == ~e.tx /\ hashes = HASHES_PER_TICK
             after == CountEntry(st, e)
             ticks(S) == {d \in S : ~d.tx}
  <2>1. /\ st.tick_idx \in Nat /\ st.hash_count \in Nat /\ st.cumulative \in Nat
        /\ st.seen \subseteq Entry /\ e.num_hashes \in Nat /\ HASHES_PER_TICK \in Nat
    BY BenchAssumption DEF SlotState
  <2>2. /\ after.tick_idx = (IF tick THEN st.tick_idx + 1 ELSE st.tick_idx)
        /\ after.hash_count = (IF tick THEN 0 ELSE hashes)
        /\ after.cumulative = st.cumulative + e.num_hashes
        /\ after.seen = st.seen \cup {e}
    BY <1>2 DEF CountEntry
  <2>3. after \in SlotState
    <3>1. /\ (IF tick THEN st.tick_idx + 1 ELSE st.tick_idx) \in Nat
          /\ (IF tick THEN 0 ELSE hashes) \in Nat
          /\ st.cumulative + e.num_hashes \in Nat /\ st.seen \cup {e} \in SUBSET Entry
      BY <2>1
    <3> QED BY <1>2, <3>1 DEF CountEntry, SlotState
  <2>4. IsFiniteSet(ticks(st.seen)) /\ Cardinality(ticks(st.seen)) \in Nat
    BY FS_Subset, FS_CardinalityType
  <2>5. /\ st.cumulative = st.tick_idx * HASHES_PER_TICK + st.hash_count
        /\ st.tick_idx <= Cardinality(ticks(st.seen))
    BY DEF Counted
  <2>6. ticks(after.seen) = (IF e.tx THEN ticks(st.seen) ELSE ticks(st.seen) \cup {e})
    BY <2>2
  <2>7. Cardinality(ticks(after.seen))
          = (IF e.tx THEN Cardinality(ticks(st.seen)) ELSE Cardinality(ticks(st.seen)) + 1)
    <3>1. e \notin ticks(st.seen)
      BY <1>2
    <3> HIDE DEF ticks, after
    <3> QED BY <2>4, <2>6, <3>1, FS_AddElement
  <2>8. after.tick_idx <= Cardinality(ticks(after.seen)) /\ after.tick_idx >= st.tick_idx
    <3> HIDE DEF ticks, after, hashes
    <3> QED BY <2>1, <2>2, <2>4, <2>5, <2>7
  <2>9. after.cumulative = after.tick_idx * HASHES_PER_TICK + after.hash_count
    <3> HIDE DEF after
    <3>1. CASE tick
      <4>1. (st.tick_idx + 1) * HASHES_PER_TICK = st.tick_idx * HASHES_PER_TICK + HASHES_PER_TICK
        BY <2>1
      <4>2. st.tick_idx * HASHES_PER_TICK \in Nat
        BY <2>1
      <4>3. after.tick_idx = st.tick_idx + 1 /\ after.hash_count = 0
        BY <2>2, <3>1
      <4>4. after.cumulative = st.tick_idx * HASHES_PER_TICK + st.hash_count + e.num_hashes
        BY <2>2, <2>5
      <4> QED BY <2>1, <3>1, <4>1, <4>2, <4>3, <4>4
    <3>2. CASE ~tick
      <4>1. st.tick_idx * HASHES_PER_TICK \in Nat
        BY <2>1
      <4>2. after.tick_idx = st.tick_idx /\ after.hash_count = st.hash_count + e.num_hashes
        BY <2>2, <3>2
      <4>3. after.cumulative = st.tick_idx * HASHES_PER_TICK + st.hash_count + e.num_hashes
        BY <2>2, <2>5
      <4> QED BY <2>1, <4>1, <4>2, <4>3
    <3> QED BY <3>1, <3>2
  <2>10. Counted(after)
    BY <2>8, <2>9 DEF Counted
  <2> QED BY <2>2, <2>3, <2>8, <2>10
<1> QED BY <1>1, <1>2

(* The position read off a counted slot is in step.                        *)
LEMMA CountedInStep ==
  ASSUME NEW st \in SlotState, Counted(st), NEW s
  PROVE  /\ <<st.tick_idx, st.cumulative>> \in Position
         /\ InStep([slot |-> s, at |-> <<st.tick_idx, st.cumulative>>])
<1>1. /\ st.tick_idx \in Nat /\ st.hash_count \in Nat /\ st.cumulative \in Nat
      /\ HASHES_PER_TICK \in Nat /\ st.cumulative = st.tick_idx * HASHES_PER_TICK + st.hash_count
  BY BenchAssumption DEF SlotState, Counted
<1>2. st.tick_idx * HASHES_PER_TICK \in Nat
  BY <1>1
<1>3. st.cumulative >= st.tick_idx * HASHES_PER_TICK
  BY <1>1, <1>2
<1> QED BY <1>1, <1>3 DEF Position, InStep

(* A trigger that has not fired is counted nowhere.                        *)
LEMMA NotYetFired ==
  ASSUME BenchInv, NEW k \in schedule, k \notin fired
  PROVE  /\ InQueue(k, send_queue) = 0 /\ InSet(k, inflight) = 0 /\ InQueue(k, send_events) = 0
         /\ InSet(k, map) = 0 /\ InQueue(k, final_queue) = 0 /\ InSet(k, file) = 0
         /\ lost[k] = 0 /\ stranded[k] = 0
<1>1. PICK a \in Nat : a = InQueue(k, send_queue)
  BY CountedOnce
<1>2. PICK b \in Nat : b = InSet(k, inflight)
  BY CountedOnce
<1>3. PICK c \in Nat : c = InQueue(k, send_events)
  BY CountedOnce
<1>4. PICK d \in Nat : d = InSet(k, map)
  BY CountedOnce
<1>5. PICK q \in Nat : q = InQueue(k, final_queue)
  BY CountedOnce
<1>6. PICK f \in Nat : f = InSet(k, file)
  BY CountedOnce
<1>7. PICK l \in Nat : l = lost[k]
  BY CountedOnce
<1>10. PICK u \in Nat : u = stranded[k]
  BY CountedOnce
<1>8. 0 = a + b + c + d + q + f + l + u
  BY <1>1, <1>2, <1>3, <1>4, <1>5, <1>6, <1>7, <1>10, CountedOnce
<1>9. a = 0 /\ b = 0 /\ c = 0 /\ d = 0 /\ q = 0 /\ f = 0 /\ l = 0 /\ u = 0
  BY <1>8
<1> QED BY <1>1, <1>2, <1>3, <1>4, <1>5, <1>6, <1>7, <1>9, <1>10

(* A trigger that has not fired takes its transaction from the pool, where *)
(* the only count of it begins: queued, or lost at once.                   *)
LEMMA TriggerFires ==
  ASSUME BenchInv, NEW key \in schedule, key \notin fired, Trigger(key),
         UNCHANGED <<inflight, send_events, map, final_queue, file, pending_sigs, cycle, preparer,
                     stranded>>
  PROVE  /\ PoolTypes' /\ HistoryTypes' /\ FiresConserved' /\ PendingIsOpen' /\ Signatures'
         /\ fired' \subseteq fired \cup {key}
<1> DEFINE ready == {p \in pool : p.key = key}
<1>1. /\ pool' = take(pool, key)
      /\ fired' = IF ready = {} THEN fired ELSE fired \cup {key}
      /\ \/ ready = {} /\ UNCHANGED <<send_queue, lost>>
         \/ /\ ready # {}
            /\ IF Room(send_queue)
               THEN /\ send_queue' = Append(send_queue, CHOOSE p \in ready : TRUE)
                    /\ UNCHANGED lost
               ELSE /\ lost' = [lost EXCEPT ![key] = @ + 1]
                    /\ UNCHANGED send_queue
  BY DEF Trigger
<1>2. pool' \subseteq pool
  BY <1>1 DEF take
<1>3. /\ pool \subseteq Tx /\ \A p, q \in pool : p.key = q.key => p = q
      /\ send_queue \in Seq(Tx) /\ Len(send_queue) <= channel_capacity
      /\ fired \subseteq schedule /\ lost \in [schedule -> Nat]
      /\ stranded \in [schedule -> Nat]
  BY DEF BenchInv, Typed, PoolTypes, HistoryTypes
<1>4. CASE ready = {}
  <2>1. UNCHANGED <<send_queue, lost, fired>>
    BY <1>1, <1>4
  <2>2. PoolTypes' /\ HistoryTypes'
    BY <1>2, <1>3, <2>1 DEF PoolTypes, HistoryTypes
  <2>3. FiresConserved' /\ PendingIsOpen'
    BY <2>1 DEF BenchInv, FiresConserved, PendingIsOpen
  <2>4. Known' \subseteq Known
    BY <1>2, <2>1 DEF Known
  <2> QED BY <2>1, <2>2, <2>3, <2>4, SignaturesKept
<1>5. CASE ready # {}
  <2>1. PICK tx \in ready : tx = CHOOSE p \in ready : TRUE
    BY <1>5
  <2>2. tx \in pool /\ tx.key = key /\ tx \in Tx
    BY <1>3
  <2>3. fired' = fired \cup {key}
    BY <1>1, <1>5
  <2>4. /\ \A k \in schedule : k # key => One(k, tx) = 0
        /\ One(key, tx) = 1
    BY <2>2 DEF One
  <2>5. \A k \in schedule : (k \in fired') <=> (k \in fired \/ k = key)
    BY <2>3
  <2>6. CASE Room(send_queue)
    <3>1. send_queue' = Append(send_queue, tx) /\ UNCHANGED lost
      BY <1>1, <1>5, <2>1, <2>6
    <3> HIDE DEF ready
    <3>2. /\ send_queue' \in Seq(Tx) /\ Len(send_queue') = Len(send_queue) + 1
          /\ Items(send_queue') = Items(send_queue) \cup {tx}
          /\ \A k : InQueue(k, send_queue') = InQueue(k, send_queue) + One(k, tx)
      BY <1>3, <2>2, <3>1, QueueAppend
    <3>3. Len(send_queue') <= channel_capacity
      BY <1>3, <2>6, <3>2, BenchAssumption DEF Room
    <3>4. PoolTypes' /\ HistoryTypes'
      BY <1>2, <1>3, <2>3, <3>1, <3>2, <3>3 DEF PoolTypes, HistoryTypes
    <3>5. FiresConserved'
      <4> SUFFICES ASSUME NEW k \in schedule
                   PROVE  (IF k \in fired' THEN 1 ELSE 0)
                            = InQueue(k, send_queue') + InSet(k, inflight)
                              + InQueue(k, send_events) + InSet(k, map)
                              + InQueue(k, final_queue) + InSet(k, file) + lost[k] + stranded[k]
        BY <3>1 DEF FiresConserved
      <4>1. InQueue(k, send_queue') = InQueue(k, send_queue) + One(k, tx)
        BY <3>2
      <4>2. CASE k # key
        <5>1. InQueue(k, send_queue') = InQueue(k, send_queue)
          BY <2>4, <4>1, <4>2, CountedOnce
        <5>2. (k \in fired') <=> (k \in fired)
          BY <2>5, <4>2
        <5> QED BY <5>1, <5>2, CountedOnce
      <4>3. CASE k = key
        <5>1. InQueue(k, send_queue') = InQueue(k, send_queue) + 1
          BY <2>4, <4>1, <4>3
        <5>2. k \in fired' /\ k \notin fired
          BY <2>5, <4>3
        <5> QED BY <5>1, <5>2, NotYetFired
      <4> QED BY <4>2, <4>3
    <3>6. PendingIsOpen'
      BY <3>1 DEF BenchInv, PendingIsOpen
    <3>7. Known' \subseteq Known
      BY <1>2, <2>2, <3>2 DEF Known
    <3> QED BY <2>3, <3>4, <3>5, <3>6, <3>7, SignaturesKept
  <2>7. CASE ~Room(send_queue)
    <3>1. lost' = [lost EXCEPT ![key] = @ + 1] /\ UNCHANGED send_queue
      BY <1>1, <1>5, <2>7
    <3> HIDE DEF ready
    <3>2. PoolTypes' /\ HistoryTypes'
      BY <1>2, <1>3, <2>3, <3>1 DEF PoolTypes, HistoryTypes
    <3>3. lost'[key] = lost[key] + 1 /\ lost[key] \in Nat
      BY <1>3, <3>1
    <3>4. FiresConserved'
      <4> SUFFICES ASSUME NEW k \in schedule
                   PROVE  (IF k \in fired' THEN 1 ELSE 0)
                            = InQueue(k, send_queue) + InSet(k, inflight)
                              + InQueue(k, send_events) + InSet(k, map)
                              + InQueue(k, final_queue) + InSet(k, file) + lost'[k] + stranded[k]
        BY <3>1 DEF FiresConserved
      <4>2. CASE k # key
        <5>1. lost'[k] = lost[k]
          BY <1>3, <3>1, <4>2
        <5>2. (k \in fired') <=> (k \in fired)
          BY <2>5, <4>2
        <5> QED BY <5>1, <5>2, CountedOnce
      <4>3. CASE k = key
        <5>1. lost'[k] = lost[k] + 1
          BY <3>3, <4>3
        <5>2. k \in fired' /\ k \notin fired
          BY <2>5, <4>3
        <5> QED BY <5>1, <5>2, NotYetFired
      <4> QED BY <4>2, <4>3
    <3>5. PendingIsOpen'
      <4>1. lost'[key] # 0
        BY <3>3
      <4>2. Open' = Open
        BY DEF Open
      <4> QED BY <4>1, <4>2, PendingFollows DEF Follows, BenchInv
    <3>6. Known' \subseteq Known
      BY <1>2, <3>1 DEF Known
    <3> QED BY <2>3, <3>2, <3>4, <3>5, <3>6, SignaturesKept
  <2> QED BY <2>6, <2>7
<1> QED BY <1>4, <1>5

(* A queued observation is of a signature of the entry, at a position that *)
(* is in step.                                                             *)
LEMMA MatchQueued ==
  ASSUME BenchInv, NEW e \in Entry, NEW sigs \in SUBSET Sig,
         NEW position \in Position \cup {<<>>},
         InStep([slot |-> e.slot, at |-> position]), MatchSigs(e, sigs, position)
  PROVE  /\ match_queue' \in Seq(QueuedMatch) /\ Len(match_queue') <= channel_capacity
         /\ MatchesInStep'
<1> DEFINE match == [slot |-> e.slot, at |-> position]
<1>1. /\ match_queue \in Seq(QueuedMatch) /\ Len(match_queue) <= channel_capacity
      /\ MatchesInStep
  BY DEF BenchInv, Typed, ObserverTypes
<1>2. CASE UNCHANGED match_queue
  BY <1>1, <1>2 DEF MatchesInStep
<1>3. CASE /\ sigs \cap pending_sigs # {} /\ Room(match_queue)
           /\ match_queue' = Append(match_queue, [sig |-> CHOOSE s \in sigs : TRUE, match |-> match])
  <2>1. PICK sig \in sigs : sig = CHOOSE s \in sigs : TRUE
    BY <1>3
  <2>2. match \in Match
    BY SlotIsNat DEF Match
  <2>3. PICK m : m = [sig |-> sig, match |-> match]
    OBVIOUS
  <2>4. m \in QueuedMatch /\ InStep(m.match)
    BY <2>2, <2>3 DEF QueuedMatch
  <2>5. match_queue' = Append(match_queue, m)
    BY <1>3, <2>1, <2>3
  <2>6. /\ match_queue' \in Seq(QueuedMatch) /\ Len(match_queue') = Len(match_queue) + 1
        /\ Items(match_queue') = Items(match_queue) \cup {m}
    BY <1>1, <2>4, <2>5, QueueAppend
  <2>7. Len(match_queue') <= channel_capacity
    BY <1>1, <1>3, <2>6, BenchAssumption DEF Room
  <2> QED BY <1>1, <2>4, <2>6, <2>7 DEF MatchesInStep
<1> QED BY <1>2, <1>3 DEF MatchSigs

(* An entry is counted, may fire its tick's trigger, and may show a        *)
(* signature.                                                              *)
LEMMA StepObserve ==
  ASSUME BenchInv, NEW e \in Entry, Observe(e)
  PROVE  BenchInv'
<1> DEFINE before == slot_state[e.slot]
           after == CountEntry(before, e)
           warmup == e.slot = first_slot_seen'
           ticked == ~warmup /\ after.tick_idx > before.tick_idx
           key == <<e.slot, after.tick_idx>>
           position == IF warmup THEN <<>> ELSE <<after.tick_idx, after.cumulative>>
<1>1. PICK sigs \in Contents(e) :
        /\ content' = Put(content, e, sigs) /\ landable' = landable \ sigs
        /\ slot_state' = IF warmup THEN slot_state ELSE [slot_state EXCEPT ![e.slot] = after]
        /\ IF ticked /\ key \in schedule
           THEN Trigger(key) ELSE UNCHANGED <<pool, fired, send_queue, lost>>
        /\ IF ticked /\ after.tick_idx > TICKS_PER_SLOT
           THEN UNCHANGED <<match_queue, first_match>>
           ELSE MatchSigs(e, sigs, position)
  BY DEF Observe
<1>2. /\ current_slot' = e.slot /\ first_slot_seen' \in {first_slot_seen, e.slot}
      /\ observer' \in {"Run", "Exit"}
      /\ UNCHANGED <<preparerVars, finalVars, fileVars, stop, too_old, inflight,
                     pending_sigs, send_events, final_queue, fallback_thread, stranded>>
  BY DEF Observe, finalVars
<1>3. /\ slot_state \in [Slot -> SlotState] /\ e.slot \in Slot /\ before \in SlotState
      /\ IsFiniteSet(DOMAIN content) /\ DOMAIN content \subseteq Entry
      /\ \A d \in DOMAIN content : content[d] \subseteq Sig
  BY SlotIsNat DEF BenchInv, Typed, ObserverTypes
<1>4. /\ Counted(before) /\ before.seen \subseteq {d \in DOMAIN content : d.slot = e.slot}
  BY <1>3 DEF BenchInv, Counts
<1>5. /\ after \in SlotState /\ Counted(after) /\ after.tick_idx >= before.tick_idx
      /\ after.seen \subseteq before.seen \cup {e}
  <2>1. IsFiniteSet(before.seen)
    BY <1>3, <1>4, FS_Subset
  <2> QED BY <1>3, <1>4, <2>1, CountEntryCounts
<1>6. sigs \subseteq Sig
  BY <1>3 DEF Contents, BenchInv, Typed, SendTypes
<1>7. /\ DOMAIN content' = DOMAIN content \cup {e}
      /\ \A d \in DOMAIN content' : content'[d] \subseteq Sig
  BY <1>1, <1>3, <1>6 DEF Put
<1>8. IsFiniteSet(DOMAIN content')
  BY <1>3, <1>7, FS_AddElement
<1>9. slot_state' \in [Slot -> SlotState]
  BY <1>1, <1>3, <1>5
<1>10. \A s \in Slot : \/ slot_state'[s] = slot_state[s]
                       \/ s = e.slot /\ ~warmup /\ slot_state'[s] = after
  BY <1>1, <1>3
<1>11. Counts'
  <2> SUFFICES ASSUME NEW s \in Slot
               PROVE  /\ Counted(slot_state'[s])
                      /\ slot_state'[s].seen \subseteq {d \in DOMAIN content' : d.slot = s}
    BY DEF Counts, Counted
  <2>1. /\ Counted(slot_state[s])
        /\ slot_state[s].seen \subseteq {d \in DOMAIN content : d.slot = s}
    BY DEF BenchInv, Counts
  <2>2. CASE slot_state'[s] = slot_state[s]
    BY <1>7, <2>1, <2>2
  <2>3. CASE s = e.slot /\ slot_state'[s] = after
    BY <1>4, <1>5, <1>7, <2>3
  <2> QED BY <1>10, <2>2, <2>3
<1>12. /\ match_queue' \in Seq(QueuedMatch) /\ Len(match_queue') <= channel_capacity
       /\ MatchesInStep'
  <2>1. position \in Position \cup {<<>>} /\ InStep([slot |-> e.slot, at |-> position])
    <3>1. InStep([slot |-> e.slot, at |-> <<>>])
      BY DEF InStep
    <3> HIDE DEF after
    <3> QED BY <1>5, <3>1, CountedInStep
  <2>2. CASE UNCHANGED <<match_queue, first_match>>
    BY <2>2 DEF BenchInv, Typed, ObserverTypes, MatchesInStep
  <2>3. CASE MatchSigs(e, sigs, position)
    <3> HIDE DEF position
    <3> QED BY <1>6, <2>1, <2>3, MatchQueued
  <2> QED BY <1>1, <2>2, <2>3
<1>13. ObserverTypes'
  <2>1. first_slot_seen' \in Slot \cup {0} /\ current_slot' \in Slot \cup {start_slot}
    BY <1>2, <1>3 DEF BenchInv, Typed, ObserverTypes
  <2> QED BY <1>2, <1>3, <1>7, <1>8, <1>9, <1>12, <2>1 DEF ObserverTypes
<1>14. /\ PoolTypes' /\ HistoryTypes' /\ FiresConserved' /\ PendingIsOpen' /\ Signatures'
       /\ \/ fired' \subseteq fired
          \/ ticked /\ fired' \subseteq fired \cup {key}
  <2>1. UNCHANGED <<map, file, cycle, preparer, stranded>>
    BY <1>2 DEF preparerVars, finalVars, fileVars
  <2>2. CASE ticked /\ key \in schedule /\ Trigger(key)
    <3>1. key \notin fired
      <4> SUFFICES ASSUME key \in fired PROVE FALSE
        OBVIOUS
      <4>1. before.tick_idx >= after.tick_idx
        BY DEF BenchInv, FiredTicks
      <4>2. before.tick_idx \in Nat /\ after.tick_idx \in Nat
        BY <1>3, <1>5 DEF SlotState
      <4> QED BY <2>2, <4>1, <4>2
    <3> HIDE DEF key, ticked
    <3> QED BY <1>2, <2>1, <2>2, <3>1, TriggerFires
  <2>3. CASE UNCHANGED <<pool, fired, send_queue, lost>>
    <3>1. PoolTypes' /\ HistoryTypes'
      BY <2>1, <2>3 DEF BenchInv, Typed, PoolTypes, HistoryTypes
    <3>2. FiresConserved' /\ PendingIsOpen'
      BY <1>2, <2>1, <2>3 DEF BenchInv, FiresConserved, PendingIsOpen
    <3>3. Known' \subseteq Known
      BY <1>2, <2>1, <2>3 DEF Known
    <3> QED BY <2>1, <2>3, <3>1, <3>2, <3>3, SignaturesKept
  <2> QED BY <1>1, <2>2, <2>3
<1>15. FiredTicks'
  <2> SUFFICES ASSUME NEW k \in fired'
               PROVE  k[1] \in Slot /\ slot_state'[k[1]].tick_idx >= k[2]
    BY DEF FiredTicks
  <2>1. CASE k \in fired
    <3>1. k[1] \in Slot /\ slot_state[k[1]].tick_idx >= k[2]
      BY <2>1 DEF BenchInv, FiredTicks
    <3>2. k[2] \in Nat
      BY <2>1, BenchAssumption DEF BenchInv, Typed, HistoryTypes
    <3>3. before.tick_idx \in Nat /\ after.tick_idx \in Nat
      BY <1>3, <1>5 DEF SlotState
    <3>4. CASE slot_state'[k[1]] = slot_state[k[1]]
      BY <3>1, <3>4
    <3>5. CASE k[1] = e.slot /\ slot_state'[k[1]] = after
      <4>1. before.tick_idx >= k[2] /\ slot_state'[k[1]].tick_idx = after.tick_idx
        BY <3>1, <3>5
      <4> HIDE DEF before, after
      <4> QED BY <1>5, <3>1, <3>2, <3>3, <4>1
    <3> QED BY <1>10, <3>1, <3>4, <3>5
  <2>2. CASE ticked /\ k = key
    <3>1. after.tick_idx \in Nat
      BY <1>5 DEF SlotState
    <3>2. k[1] = e.slot /\ k[2] = after.tick_idx
      BY <2>2
    <3>3. slot_state'[e.slot] = after
      BY <1>1, <1>3, <2>2
    <3> HIDE DEF after
    <3> QED BY <1>3, <3>1, <3>2, <3>3
  <2> QED BY <1>14, <2>1, <2>2
<1>16. PreparerTypes'
  BY <1>2, PreparerKept
<1>17. SendTypes' /\ FinalTypes' /\ FileTypes'
  BY <1>1, <1>2 DEF BenchInv, Typed, SendTypes, FinalTypes, FileTypes, finalVars, fileVars
<1>18. EarlyInStep' /\ RowsInStep'
  BY <1>2 DEF BenchInv, EarlyInStep, RowsInStep, finalVars, fileVars
<1> QED BY <1>11, <1>12, <1>13, <1>14, <1>15, <1>16, <1>17, <1>18 DEF BenchInv, Typed

-----------------------------------------------------------------------------
(* Every step of the bench keeps the invariant. *)
LEMMA StepBench == BenchInv /\ [BenchNext]_benchVars => BenchInv'
<1> SUFFICES ASSUME BenchInv, [BenchNext]_benchVars PROVE BenchInv'
  OBVIOUS
<1>1. ASSUME NEW e \in Entry, Observe(e) PROVE BenchInv'
  BY <1>1, StepObserve
<1>2. CASE Prepare \/ BlockhashAges
  BY <1>2, StepFetch, StepSign, StepPreparerRest DEF Prepare
<1>3. CASE Dispatch
  BY <1>3, StepStartSend, StepEndSend DEF Dispatch
<1>4. CASE Finalize
  BY <1>4, StepFinalizeSend, StepFinalizeMatch, StepGiveUp, StepExit, StepRest DEF Finalize
<1>5. CASE Write
  BY <1>5, StepWriterTake, StepRest DEF Write
<1>6. CASE FallbackPoll \/ Stop \/ UNCHANGED benchVars
  BY <1>6, StepRest
<1> QED BY <1>1, <1>2, <1>3, <1>4, <1>5, <1>6 DEF BenchNext

LEMMA BenchInvariant == BenchSpec => []BenchInv
<1> QED BY InitBench, StepBench, PTL DEF BenchSpec

LEMMA CountsNotInflated == BenchInv => TicksNotInflated
<1> SUFFICES ASSUME BenchInv, NEW s \in Slot
             PROVE  slot_state[s].tick_idx
                      <= Cardinality({e \in DOMAIN content : e.slot = s /\ ~e.tx})
  BY DEF TicksNotInflated
<1> DEFINE seen == {e \in slot_state[s].seen : ~e.tx}
           given == {e \in DOMAIN content : e.slot = s /\ ~e.tx}
<1>1. /\ slot_state[s].tick_idx <= Cardinality(seen) /\ seen \subseteq given
      /\ slot_state[s].tick_idx \in Nat
  <2>1. slot_state[s] \in SlotState
    BY DEF BenchInv, Typed, ObserverTypes
  <2> QED BY <2>1 DEF BenchInv, Counts, Counted, SlotState
<1>2. IsFiniteSet(given)
  <2>1. IsFiniteSet(DOMAIN content)
    BY DEF BenchInv, Typed, ObserverTypes
  <2> QED BY <2>1, FS_Subset
<1> HIDE DEF seen, given
<1>3. IsFiniteSet(seen) /\ Cardinality(seen) <= Cardinality(given)
  BY <1>1, <1>2, FS_Subset
<1>4. Cardinality(seen) \in Nat /\ Cardinality(given) \in Nat
  BY <1>2, <1>3, FS_CardinalityType
<1>5. slot_state[s].tick_idx <= Cardinality(given)
  BY <1>1, <1>3, <1>4
<1> QED BY <1>5 DEF given

(* The two distances of a row whose position is in step, over any number   *)
(* of slots.                                                               *)
LEMMA DistancesAgree ==
  ASSUME NEW sd \in Nat, NEW a1 \in Nat, NEW a2 \in Nat, NEW k2 \in Nat,
         a2 >= a1 * HASHES_PER_TICK
  PROVE  Sub(sd * HASHES_PER_SLOT + a2, k2 * HASHES_PER_TICK)
           >= Sub(a1 + sd * TICKS_PER_SLOT, k2) * HASHES_PER_TICK
<1>1. HASHES_PER_TICK \in Nat /\ HASHES_PER_TICK # 0 /\ TICKS_PER_SLOT \in Nat
  BY BenchAssumption
<1>2. PICK ticks \in Nat : ticks = a1 + sd * TICKS_PER_SLOT
  BY <1>1
<1>3. PICK h \in Nat : h = sd * HASHES_PER_SLOT + a2
  BY <1>1 DEF HASHES_PER_SLOT
<1>4. ticks * HASHES_PER_TICK = a1 * HASHES_PER_TICK + sd * (TICKS_PER_SLOT * HASHES_PER_TICK)
  BY <1>1, <1>2
<1>5. h >= ticks * HASHES_PER_TICK
  <2>1. /\ a1 * HASHES_PER_TICK \in Nat /\ sd * (TICKS_PER_SLOT * HASHES_PER_TICK) \in Nat
        /\ ticks * HASHES_PER_TICK \in Nat
    BY <1>1
  <2>2. h = sd * (TICKS_PER_SLOT * HASHES_PER_TICK) + a2
    BY <1>3 DEF HASHES_PER_SLOT
  <2> QED BY <1>4, <2>1, <2>2
<1>6. Sub(h, k2 * HASHES_PER_TICK) >= Sub(ticks, k2) * HASHES_PER_TICK
  <2>1. CASE ticks > k2
    <3>1. PICK d \in Nat : d = ticks - k2 /\ d >= 1 /\ ticks = k2 + d
      BY <2>1
    <3>2. ticks * HASHES_PER_TICK = k2 * HASHES_PER_TICK + d * HASHES_PER_TICK
      BY <1>1, <3>1
    <3>3. d * HASHES_PER_TICK \in Nat /\ k2 * HASHES_PER_TICK \in Nat /\ d * HASHES_PER_TICK >= 1
      BY <1>1, <3>1
    <3>4. /\ h > k2 * HASHES_PER_TICK
          /\ h - k2 * HASHES_PER_TICK >= d * HASHES_PER_TICK
      BY <1>5, <3>2, <3>3
    <3>5. Sub(ticks, k2) = d /\ Sub(h, k2 * HASHES_PER_TICK) = h - k2 * HASHES_PER_TICK
      BY <2>1, <3>1, <3>4 DEF Sub
    <3> QED BY <3>4, <3>5
  <2>2. CASE ~(ticks > k2)
    <3>1. Sub(ticks, k2) = 0
      BY <2>2 DEF Sub
    <3>2. k2 * HASHES_PER_TICK \in Nat /\ 0 * HASHES_PER_TICK = 0
      BY <1>1
    <3>3. Sub(h, k2 * HASHES_PER_TICK) >= 0
      BY <3>2 DEF Sub
    <3> QED BY <3>1, <3>2, <3>3
  <2> QED BY <2>1, <2>2
<1> QED BY <1>2, <1>3, <1>6

LEMMA RowsAgree == BenchInv => DeltasAgree
<1> SUFFICES ASSUME BenchInv, NEW row \in file, row.match # <<>>, row.match.at # <<>>
             PROVE  hash_delta(row) >= tick_delta(row) * HASHES_PER_TICK
  BY DEF DeltasAgree
<1>1. row \in Row
  BY DEF BenchInv, Typed, FileTypes
<1>2. /\ row.key \in schedule /\ row.match \in Match
  BY <1>1 DEF Row
<1>3. /\ row.key[1] \in Nat /\ row.key[2] \in Nat
  BY <1>2, BenchAssumption
<1>4. /\ row.match.slot \in Nat /\ row.match.at \in Position
  BY <1>2, SlotIsNat DEF Match
<1>5. row.match.at[1] \in Nat /\ row.match.at[2] \in Nat
  BY <1>4 DEF Position
<1>6. row.match.at[2] >= row.match.at[1] * HASHES_PER_TICK
  BY DEF BenchInv, RowsInStep, InStep
<1>7. slot_delta(row) \in Nat
  BY <1>3, <1>4 DEF slot_delta, Sub
<1> QED BY <1>3, <1>5, <1>6, <1>7, DistancesAgree DEF hash_delta, tick_delta

(* The types, the channels' capacities and the in-flight bound hold.       *)
THEOREM BenchTypeCorrect == BenchSpec => []BenchTypeOK
<1>1. BenchInv => BenchTypeOK
  BY TypedIsTypeOK DEF BenchInv
<1> QED BY <1>1, BenchInvariant, PTL

(* The observer and the finalizer leave only when stopped, and what is     *)
(* stranded was left by a finalizer that is gone.                          *)
Stopping ==
  /\ observer = "Exit" \/ finalizer # "Run" => stop
  /\ StrandedAtExit

LEMMA StoppingStep == BenchInv /\ Stopping /\ [BenchNext]_benchVars => Stopping'
<1> SUFFICES ASSUME BenchInv, Stopping, [BenchNext]_benchVars PROVE Stopping'
  OBVIOUS
<1>1. finalizer \in {"Run", "Flush", "Exit"} /\ observer \in {"Run", "Exit"} /\ stop \in BOOLEAN
  BY DEF BenchInv, Typed, FinalTypes, ObserverTypes, FileTypes
<1>2. ASSUME UNCHANGED stranded, finalizer = "Exit" => finalizer' = "Exit", stop => stop',
             observer' = observer \/ stop, finalizer' = finalizer \/ stop \/ observer = "Exit"
      PROVE  Stopping'
  BY <1>1, <1>2 DEF Stopping, StrandedAtExit
<1>3. ASSUME NEW e \in Entry, Observe(e) PROVE Stopping'
  BY <1>2, <1>3 DEF Observe, finalVars
<1>4. CASE Prepare \/ BlockhashAges
  BY <1>2, <1>4 DEF Prepare, FetchBlockhash, Sign, PreparerExit, BlockhashAges, observerVars,
     finalVars
<1>5. CASE Dispatch
  BY <1>2, <1>5 DEF Dispatch, StartSend, EndSend, observerVars, finalVars
<1>6. CASE FinalizeSend \/ FinalizeMatch \/ FinalizerIdle
  BY <1>1, <1>2, <1>6 DEF FinalizeSend, FinalizeMatch, FinalizerIdle, NextTurn, observerVars
<1>7. CASE FinalizerClose
  BY <1>1, <1>2, <1>7 DEF FinalizerClose, DispatcherDone, observerVars
<1>8. ASSUME NEW tx \in map, Deadline(tx) \/ FinalizerFlush(tx) PROVE Stopping'
  BY <1>1, <1>2, <1>8 DEF Deadline, FinalizerFlush, GiveUp, NextTurn, observerVars
<1>9. CASE FinalizerExit
  BY <1>9 DEF FinalizerExit, Stopping, StrandedAtExit
<1>10. CASE Write \/ FallbackPoll \/ Stop \/ UNCHANGED benchVars
  BY <1>2, <1>10 DEF Write, WriterTake, WriterClose, FallbackPoll, Stop, benchVars, observerVars,
     finalVars
<1> QED BY <1>3, <1>4, <1>5, <1>6, <1>7, <1>8, <1>9, <1>10 DEF BenchNext, Finalize

(* Every trigger that took a transaction has one place in the pipeline,    *)
(* one row or one counted loss, whatever overtakes what, but for those     *)
(* whose event a stopped finalizer leaves unread.                          *)
THEOREM FiresAreAccounted == BenchSpec => []FiresAccounted
<1>1. BenchInit => Stopping
  BY DEF BenchInit, Stopping, StrandedAtExit
<1>2. BenchInv /\ Stopping => FiresAccounted
  BY DEF BenchInv, Stopping, FiresAccounted
<1> QED BY <1>1, <1>2, StoppingStep, BenchInvariant, PTL DEF BenchSpec

(* The observer matches a signature from before its send until its row,    *)
(* and without losses no longer.                                           *)
THEOREM PendingUntilFinal == BenchSpec => []PendingIsOpen
<1>1. BenchInv => PendingIsOpen
  BY DEF BenchInv
<1> QED BY <1>1, BenchInvariant, PTL

(* Duplicate and reordered entries count no tick twice.                    *)
THEOREM TicksCountedOnce == BenchSpec => []TicksNotInflated
<1> QED BY CountsNotInflated, BenchInvariant, PTL

(* The distances of every row of the file agree.                           *)
THEOREM RowDistancesAgree == BenchSpec => []DeltasAgree
<1> QED BY RowsAgree, BenchInvariant, PTL

-----------------------------------------------------------------------------
(* The observer takes from the pool between the two steps of a cycle; the  *)
(* preparer's memory still agrees with what is left.                       *)
LEMMA RememberedStep ==
  BenchInv /\ PoolRemembered /\ [BenchNext]_benchVars => PoolRemembered'
<1> SUFFICES ASSUME BenchInv, PoolRemembered, [BenchNext]_benchVars PROVE PoolRemembered'
  OBVIOUS
<1>1. /\ pool \subseteq Tx /\ \A p \in pool : already_signed[p.key] = p.sig[1]
      /\ already_signed \in [schedule -> 0 .. cycle]
  BY DEF BenchInv, Typed, PoolTypes, PreparerTypes, PoolRemembered
<1>2. \A p \in pool : p.key \in schedule /\ p.sig[1] >= 1
  <2> SUFFICES ASSUME NEW p \in pool PROVE p.key \in schedule /\ p.sig[1] >= 1
    OBVIOUS
  <2>1. p.key \in schedule /\ p.sig \in (1 .. MaxCycles) \X Nat
    BY <1>1, TxParts DEF Sig
  <2>2. p.sig[1] \in 1 .. MaxCycles
    BY <2>1
  <2> QED BY <2>1, <2>2
<1>3. ASSUME pool' \subseteq pool, UNCHANGED already_signed PROVE PoolRemembered'
  BY <1>1, <1>3 DEF PoolRemembered
<1>4. ASSUME NEW e \in Entry, Observe(e) PROVE PoolRemembered'
  <2>1. UNCHANGED already_signed
    BY <1>4 DEF Observe, preparerVars
  <2>2. pool' \subseteq pool
    BY <1>4 DEF Observe, Trigger, take
  <2> QED BY <1>3, <2>1, <2>2
<1>5. CASE FetchBlockhash
  <2>1. PICK expired \in SUBSET schedule :
          /\ already_signed' = [k \in schedule |-> IF k \in expired THEN 0 ELSE already_signed[k]]
          /\ pool' = {p \in pool : p.key \notin expired}
    BY <1>5 DEF FetchBlockhash, Expire
  <2> QED BY <1>1, <1>2, <2>1 DEF PoolRemembered
<1>6. CASE Sign
  <2> DEFINE New == {k \in schedule : /\ k[1] \in window_lo .. (window_lo + look_ahead_slots - 1)
                                      /\ already_signed[k] = 0}
             Made == {[key |-> k, sig |-> <<cycle, Amount(k, New)>>] : k \in New}
  <2>1. /\ already_signed' = [k \in schedule |-> IF k \in New THEN cycle ELSE already_signed[k]]
        /\ pool' = prune_older_than(insert(pool, Made), window_lo - 2)
    BY <1>6 DEF Sign
  <2>2. ASSUME NEW x \in Made PROVE x.key \in New /\ x.sig[1] = cycle
    <3>1. PICK k \in New : x = [key |-> k, sig |-> <<cycle, Amount(k, New)>>]
      OBVIOUS
    <3> HIDE DEF New, Made
    <3>2. x.key = k /\ x.sig = <<cycle, Amount(k, New)>>
      BY <3>1
    <3> QED BY <3>2
  <2>3. New \subseteq schedule /\ \A k \in New : already_signed[k] = 0
    OBVIOUS
  <2> HIDE DEF New, Made
  <2>4. \A x \in pool' : x \in Made \/ x \in pool
    BY <2>1 DEF prune_older_than, insert
  <2>5. ASSUME NEW x \in pool' PROVE already_signed'[x.key] = x.sig[1]
    <3>1. CASE x \in Made
      BY <2>1, <2>2, <2>3, <3>1
    <3>2. CASE x \in pool
      <4>1. already_signed[x.key] = x.sig[1] /\ x.sig[1] >= 1 /\ x.key \in schedule
        BY <1>1, <1>2, <3>2
      <4>2. x.key \notin New
        BY <2>3, <4>1
      <4> QED BY <2>1, <4>1, <4>2
    <3> QED BY <2>4, <3>1, <3>2
  <2> QED BY <2>5 DEF PoolRemembered
<1>7. CASE PreparerExit \/ BlockhashAges
  BY <1>3, <1>7 DEF PreparerExit, BlockhashAges, preparerVars
<1>8. CASE Dispatch
  BY <1>3, <1>8 DEF Dispatch, StartSend, EndSend, preparerVars
<1>9. CASE Finalize
  BY <1>3, <1>9 DEF Finalize, FinalizeSend, FinalizeMatch, FinalizerIdle, FinalizerClose,
                    FinalizerExit, Deadline, FinalizerFlush, GiveUp, preparerVars
<1>10. CASE Write \/ FallbackPoll \/ Stop \/ UNCHANGED benchVars
  BY <1>3, <1>10 DEF Write, WriterTake, WriterClose, FallbackPoll, Stop, benchVars, preparerVars
<1> QED BY <1>4, <1>5, <1>6, <1>7, <1>8, <1>9, <1>10 DEF BenchNext, Prepare

(* A pooled transaction is of the cycle the preparer remembers, so its     *)
(* expiry will be noticed.                                                 *)
THEOREM PoolIsRemembered == BenchSpec => []PoolRemembered
<1>1. BenchInit => PoolRemembered
  BY DEF BenchInit, PoolRemembered
<1> QED BY <1>1, RememberedStep, BenchInvariant, PTL DEF BenchSpec

=============================================================================
