-------------------------------- MODULE Senders --------------------------------
(***************************************************************************)
(* One sender of the fan-out bench (senders/): the local throttle, the     *)
(* fan-out of a send to the regions, the cached QUIC connections and what  *)
(* becomes of the regions' answers.  Sends run concurrently, one per       *)
(* trigger; each region of a send is a task of its own, and so is the      *)
(* warm-up.  The provider at the other end of the wire is external: what   *)
(* it answers, whether it answers, and what it does with a copy it took.   *)
(***************************************************************************)
EXTENDS Integers, Sequences, FiniteSets

CONSTANTS
  Send,                 \* calls of send()
  Region,               \* regions of the fan-out senders
  min_send_interval,    \* 0: the local throttle is off
  MaxClock,             \* bound: the time
  MaxClosed,            \* bound: connections closed by the peer
  MaxDropped            \* bound: copies dropped after they were written

ASSUME SendersAssumption ==
  /\ IsFiniteSet(Send) /\ IsFiniteSet(Region) /\ Region # {}
  /\ Send \cap {"warmup", "free"} = {}
  /\ {min_send_interval, MaxClock, MaxClosed, MaxDropped} \subseteq Nat

(* What a provider may answer: the HTTP status and what the body is.       *)
(* Signatures and error texts are told apart by the field they come in.    *)
Body ==
  {"result",       \* {"result": "<signature>"}
   "signature",    \* {"signature": "<signature>"}
   "accepted",     \* {"status": "accepted", "signature": "<signature>"}
   "rpc_error",    \* {"error": {"code": .., "message": ".."}}
   "error_text",   \* {"error": ".."}
   "message",      \* {"code": .., "message": ".."}
   "object",       \* {}
   "text",         \* not JSON
   "empty"}

Answer == [status : {200, 429}, body : Body]

-----------------------------------------------------------------------------
(* The answers a sender reads as a success.  A JSON body is decoded field  *)
(* by field: unknown fields are ignored, and a field of another type makes *)
(* the whole body unreadable.                                              *)
ByStatus == {a \in Answer : a.status = 200}

JsonRpcReply == {a \in Answer : a.body \notin {"rpc_error", "error_text", "text", "empty"}}

parse_json_rpc_reply == {a \in Answer : a.body = "result"}

NextblockReply == {a \in Answer : a.body \notin {"message", "text", "empty"}}

BloxrouteReply == {a \in Answer : a.status = 200 /\ a.body # "message"}

BlockrazorReply ==
  {a \in Answer : /\ a.body \notin {"error_text", "message"}
                  /\ \/ a.body \in {"signature", "accepted", "result"}
                     \/ a.status < 400 /\ a.body # "empty"}

AllenharkReply == {a \in Answer : a.body = "accepted"}

(* The senders: over HTTP or QUIC, to one host or fanned out, throttled or *)
(* not, and which of the fan-out's replies is the outcome.                 *)
Http(success, throttles, fanout) ==
  [quic |-> FALSE, uni |-> FALSE, success |-> success, throttles |-> throttles,
   fanout |-> fanout, rule |-> "first"]

QuicReply(success) ==
  [quic |-> TRUE, uni |-> FALSE, success |-> success, throttles |-> FALSE,
   fanout |-> FALSE, rule |-> "first"]

(* A uni stream has no answer to read: a write that was finished is a      *)
(* success, whatever then becomes of the bytes.                            *)
QuicUni(fanout, rule) ==
  [quic |-> TRUE, uni |-> TRUE, success |-> {}, throttles |-> TRUE,
   fanout |-> fanout, rule |-> rule]

Helius == Http(JsonRpcReply, FALSE, FALSE)
Triton == Http(JsonRpcReply, FALSE, FALSE)
TritonSendTx == Http(ByStatus, FALSE, FALSE)
Syncro == Http(JsonRpcReply, TRUE, FALSE)
ZeroSlot == Http(JsonRpcReply, TRUE, FALSE)
BlockRazor == Http(BlockrazorReply, TRUE, FALSE)
Nextblock == Http(NextblockReply, TRUE, FALSE)
Jito == Http(parse_json_rpc_reply, TRUE, TRUE)
Nozomi == Http(ByStatus, TRUE, TRUE)
Astralane == Http(ByStatus, TRUE, TRUE)
Bloxroute == Http(BloxrouteReply, TRUE, TRUE)
AllenHark == QuicReply(AllenharkReply)
AstralaneQuic == QuicUni(FALSE, "first")
NextblockQuic == QuicUni(FALSE, "first")
BloxrouteQuic == QuicUni(TRUE, "first success")

SenderOf ==
  [Helius |-> Helius, Triton |-> Triton, TritonSendTx |-> TritonSendTx,
   Syncro |-> Syncro, ZeroSlot |-> ZeroSlot, BlockRazor |-> BlockRazor,
   Nextblock |-> Nextblock, Jito |-> Jito, Nozomi |-> Nozomi,
   Astralane |-> Astralane, Bloxroute |-> Bloxroute, AllenHark |-> AllenHark,
   AstralaneQuic |-> AstralaneQuic, NextblockQuic |-> NextblockQuic,
   BloxrouteQuic |-> BloxrouteQuic]

Kind == DOMAIN SenderOf

ByStatusKind == {"Nozomi", "Astralane", "TritonSendTx"}
JsonRpcKind == {"Helius", "Triton", "Syncro", "ZeroSlot"}

(* What a provider gives as an acceptance, as the headers of senders/      *)
(* document it.                                                            *)
Acceptance(k, a) ==
  \/ k \in ByStatusKind /\ a = [status |-> 200, body |-> "empty"]
  \/ k \in JsonRpcKind \cup {"Jito"} /\ a = [status |-> 200, body |-> "result"]
  \/ k \in {"Nextblock", "Bloxroute"} /\ a = [status |-> 200, body |-> "signature"]
  \/ k = "BlockRazor" /\ a.status = 200 /\ a.body \in {"signature", "result", "text"}
  \/ k = "AllenHark" /\ a.body = "accepted"

(* A refusal, whether or not that provider's header lists the form: too    *)
(* many requests, or an error in the body.  A stream has no status.        *)
Refusal(k, a) ==
  \/ a.status = 429 /\ k # "AllenHark"
  \/ a.body \in {"rpc_error", "error_text", "message"}

(* The refusals that a sender takes for a success: it does not look at the *)
(* status, or not at the body, or not for an error of that form.           *)
Misread(k, a) ==
  LET tooMany == a.status = 429
      signed == a.body \in {"signature", "accepted", "result"}
  IN \/ k \in ByStatusKind /\ ~tooMany
     \/ k \in JsonRpcKind /\ (a.body = "message" \/ (tooMany /\ (signed \/ a.body = "object")))
     \/ k = "Jito" /\ tooMany /\ a.body = "result"
     \/ /\ k = "Nextblock"
        /\ a.body \in {"rpc_error", "error_text"} \/ (tooMany /\ (signed \/ a.body = "object"))
     \/ k = "Bloxroute" /\ ~tooMany /\ a.body # "message"
     \/ k = "BlockRazor" /\ IF tooMany THEN signed ELSE a.body = "rpc_error"

Meaning(k, a) ==
  IF Acceptance(k, a) THEN "accepted"
  ELSE IF ~Refusal(k, a) THEN "unclear"
  ELSE IF Misread(k, a) THEN "misread" ELSE "refused"

(* What each sender can hear from a target, and whether it reads a success.*)
Readings ==
  [k \in Kind |->
    IF SenderOf[k].uni
    THEN {[meaning |-> "finished", success |-> TRUE]}
    ELSE {[meaning |-> Meaning(k, a), success |-> a \in SenderOf[k].success] : a \in Answer}]

-----------------------------------------------------------------------------
Warmup == "warmup"
Caller == Send \cup {Warmup}

VARIABLES
  kind,             \* the sender
  targets,          \* its hosts
  clock,
  last_send_at,     \* -1: none
  call,             \* state of each send
  called_at,        \* the clock as the send read it
  task,             \* task[s][t]: where the send's task for a target is
  handle,           \* handle[s][t]: its connection, 0: none
  heard,            \* history: what the target made of the send
  replies,          \* the send's channel: success or not, as they come
  slot,             \* slot[t]: the cached connection, 0: none
  guard,            \* guard[t]: who holds the slot's lock across a connect
  made,             \* connections made so far
  closed,           \* connections closed by the peer
  cleared           \* history: slots emptied after an error

setup == <<kind, targets>>
throttleVars == <<clock, last_send_at, called_at>>
connVars == <<slot, guard, made, closed, cleared>>
taskVars == <<task, handle, heard, replies>>
vars == <<setup, throttleVars, call, taskVars, connVars>>

Sender == SenderOf[kind]
Free == "free"
Ended == {"Throttled", "Success", "Error"}

(* Types; only BloxrouteQuic and the one-host QUIC senders ever hold a     *)
(* connection, and nobody waits with a lock.                               *)
TypeOK ==
  /\ kind \in Kind /\ targets \subseteq Region
  /\ clock \in 0 .. MaxClock /\ last_send_at \in -1 .. clock
  /\ call \in [Send -> {"Idle", "Timed", "Sending"} \cup Ended]
  /\ task \in [Caller -> [targets -> {"Idle", "Lock", "Connect", "Write", "Clear", "Done"}]]
  /\ guard \in [targets -> Caller \cup {Free}]
  /\ \A t \in targets :
       /\ slot[t] \in 0 .. made[t] /\ closed[t] \subseteq 1 .. made[t]
       /\ \A s \in Caller : guard[t] = s <=> task[s][t] = "Connect"
       /\ \A s \in Caller : handle[s][t] \in 0 .. made[t]
  /\ ~Sender.quic => \A t \in targets : made[t] = 0

(* A fan-out sender has a region at least: phase3_run and the constructors *)
(* see to that.                                                            *)
Init ==
  /\ kind \in Kind
  /\ IF Sender.fanout
     THEN targets = Region
     ELSE targets = {CHOOSE t \in Region : TRUE}
  /\ clock = 0 /\ last_send_at = -1
  /\ call = [s \in Send |-> "Idle"] /\ called_at = [s \in Send |-> 0]
  /\ task = [s \in Caller |->
       [t \in targets |-> IF s = Warmup /\ Sender.quic THEN "Lock" ELSE "Idle"]]
  /\ handle = [s \in Caller |-> [t \in targets |-> 0]]
  /\ heard = [s \in Send |-> [t \in targets |-> "nothing"]]
  /\ replies = [s \in Send |-> <<>>]
  /\ slot = [t \in targets |-> 0] /\ guard = [t \in targets |-> Free]
  /\ made = [t \in targets |-> 0] /\ closed = [t \in targets |-> {}]
  /\ cleared = [t \in targets |-> 0]

-----------------------------------------------------------------------------
(* Bug: the interval itself is still too soon. *)
throttled_Inclusive(now) ==
  min_send_interval > 0 /\ last_send_at # -1 /\ now - last_send_at <= min_send_interval

throttled(now) ==
  min_send_interval > 0 /\ last_send_at # -1 /\ now - last_send_at < min_send_interval

(* (A reading before last_send_at is as close to it as one can be.)        *)
Throttling == Sender.throttles /\ min_send_interval > 0

StartTasks(s) ==
  /\ call' = [call EXCEPT ![s] = "Sending"]
  /\ task' = [task EXCEPT ![s] =
       [t \in targets |-> IF Sender.quic THEN "Lock" ELSE "Write"]]

(* A send is called and, if it may be throttled, reads the clock. *)
Call(s) ==
  /\ call[s] = "Idle"
  /\ called_at' = [called_at EXCEPT ![s] = clock]
  /\ IF Throttling
     THEN call' = [call EXCEPT ![s] = "Timed"] /\ UNCHANGED task
     ELSE StartTasks(s)
  /\ UNCHANGED <<setup, clock, last_send_at, handle, heard, replies, connVars>>

(* Under the lock, which other sends may have had in between: too soon, or *)
(* the interval is spent, whatever becomes of the send.                    *)
TakeThrottle(s) ==
  /\ call[s] = "Timed"
  /\ IF throttled(called_at[s])
     THEN /\ call' = [call EXCEPT ![s] = "Throttled"]
          /\ UNCHANGED <<last_send_at, task>>
     ELSE last_send_at' = called_at[s] /\ StartTasks(s)
  /\ UNCHANGED <<setup, clock, called_at, handle, heard, replies, connVars>>

At(s, t, there) == task' = [task EXCEPT ![s][t] = there]

Live(t, c) == c # 0 /\ c \notin closed[t]

(* Bug: the lock is let go before the connect. *)
GetConn_Unlocked(s, t) ==
  /\ task[s][t] = "Lock" /\ guard[t] = Free
  /\ At(s, t, IF Live(t, slot[t]) THEN (IF s = Warmup THEN "Done" ELSE "Write") ELSE "Connect")
  /\ handle' = [handle EXCEPT ![s][t] = IF Live(t, slot[t]) /\ s # Warmup THEN slot[t] ELSE 0]
  /\ UNCHANGED <<setup, throttleVars, call, heard, replies, connVars>>

(* The lock is free: a live connection is shared, otherwise the lock is    *)
(* held across the connect.  The warm-up stops at a live connection.       *)
GetConn(s, t) ==
  /\ task[s][t] = "Lock" /\ guard[t] = Free
  /\ IF Live(t, slot[t])
     THEN /\ At(s, t, IF s = Warmup THEN "Done" ELSE "Write")
          /\ handle' = [handle EXCEPT ![s][t] = IF s = Warmup THEN 0 ELSE slot[t]]
          /\ UNCHANGED guard
     ELSE /\ At(s, t, "Connect")
          /\ guard' = [guard EXCEPT ![t] = s]
          /\ UNCHANGED handle
  /\ UNCHANGED <<setup, throttleVars, call, heard, replies, slot, made, closed, cleared>>

(* The handshake ends, and with it the lock. *)
Connected(s, t) ==
  /\ task[s][t] = "Connect"
  /\ made' = [made EXCEPT ![t] = @ + 1]
  /\ slot' = [slot EXCEPT ![t] = made[t] + 1]
  /\ handle' = [handle EXCEPT ![s][t] = IF s = Warmup THEN 0 ELSE made[t] + 1]
  /\ guard' = [guard EXCEPT ![t] = Free]
  /\ At(s, t, IF s = Warmup THEN "Done" ELSE "Write")
  /\ UNCHANGED <<setup, throttleVars, call, heard, replies, closed, cleared>>

ConnectFails(s, t) ==
  /\ task[s][t] = "Connect"
  /\ guard' = [guard EXCEPT ![t] = Free]
  /\ At(s, t, IF s = Warmup THEN "Done" ELSE "Clear")
  /\ heard' = IF s = Warmup THEN heard ELSE [heard EXCEPT ![s][t] = "lost"]
  /\ UNCHANGED <<setup, throttleVars, call, handle, replies, slot, made, closed, cleared>>

(* The request and the answer, as the sender reads it; on a uni stream,    *)
(* the write to its end.                                                   *)
Answered(s, t, reading) ==
  /\ task[s][t] = "Write"
  /\ Sender.quic => Live(t, handle[s][t])
  /\ heard' = [heard EXCEPT ![s][t] = reading.meaning]
  /\ replies' = [replies EXCEPT ![s] = Append(@, reading.success)]
  /\ At(s, t, "Done")
  /\ handle' = [handle EXCEPT ![s][t] = 0]
  /\ UNCHANGED <<setup, throttleVars, call, connVars>>

(* No answer: the request may have reached the target or not. *)
Lost(s, t) ==
  /\ task[s][t] = "Write"
  /\ heard' = [heard EXCEPT ![s][t] = "lost"]
  /\ IF Sender.quic
     THEN At(s, t, "Clear") /\ UNCHANGED replies
     ELSE At(s, t, "Done") /\ replies' = [replies EXCEPT ![s] = Append(@, FALSE)]
  /\ handle' = [handle EXCEPT ![s][t] = 0]
  /\ UNCHANGED <<setup, throttleVars, call, connVars>>

(* A copy written to its end gets nowhere: the connection is lost before   *)
(* it is delivered, or the provider drops it, and nobody is told.          *)
CopyDropped(s, t) ==
  /\ heard[s][t] = "finished"
  /\ Cardinality({c \in Send \X targets : heard[c[1]][c[2]] = "dropped"}) < MaxDropped
  /\ heard' = [heard EXCEPT ![s][t] = "dropped"]
  /\ UNCHANGED <<setup, throttleVars, call, task, handle, replies, connVars>>

(* After a QUIC error the slot is emptied, whatever connection it now      *)
(* holds, and only then the reply is given.                                *)
ClearSlot(s, t) ==
  /\ task[s][t] = "Clear" /\ guard[t] = Free
  /\ slot' = [slot EXCEPT ![t] = 0]
  /\ cleared' = [cleared EXCEPT ![t] = @ + 1]
  /\ replies' = [replies EXCEPT ![s] = Append(@, FALSE)]
  /\ At(s, t, "Done")
  /\ UNCHANGED <<setup, throttleVars, call, handle, heard, guard, made, closed>>

(* Bug: failures are passed over until a success comes. *)
Decides_SuccessOnly(s, success) == success /\ \E n \in DOMAIN replies[s] : replies[s][n]

(* Bug: the first reply is the outcome although others may succeed. *)
Decides_FirstReply(s, success) == replies[s] # <<>> /\ Head(replies[s]) = success

(* The replies that came decide the outcome. *)
Decides(s, success) ==
  IF Sender.rule = "first"
  THEN replies[s] # <<>> /\ Head(replies[s]) = success
  ELSE LET any == \E n \in DOMAIN replies[s] : replies[s][n]
       IN IF success THEN any ELSE ~any /\ Len(replies[s]) = Cardinality(targets)

(* send() returns; its other tasks go on. *)
Outcome(s) ==
  /\ call[s] = "Sending"
  /\ \E success \in BOOLEAN :
       /\ Decides(s, success)
       /\ call' = [call EXCEPT ![s] = IF success THEN "Success" ELSE "Error"]
  /\ UNCHANGED <<setup, throttleVars, taskVars, connVars>>

-----------------------------------------------------------------------------
(* The peer closes a connection, or it times out; one that nobody refers   *)
(* to any more is closed already.                                          *)
PeerCloses(t) ==
  /\ Cardinality(UNION {{t2} \X closed[t2] : t2 \in targets}) < MaxClosed
  /\ \E c \in ({slot[t]} \cup {handle[s][t] : s \in Send}) \ (closed[t] \cup {0}) :
       closed' = [closed EXCEPT ![t] = @ \cup {c}]
  /\ UNCHANGED <<setup, throttleVars, call, taskVars, slot, guard, made, cleared>>

(* Time passes unnoticed but between the readings of two calls. *)
Tick ==
  /\ Throttling /\ clock < MaxClock
  /\ (\E s \in Send : call[s] = "Idle") /\ \E s \in Send : call[s] # "Idle"
  /\ clock' = clock + 1
  /\ UNCHANGED <<setup, last_send_at, called_at, call, taskVars, connVars>>

Work(s, t) ==
  \/ GetConn(s, t) \/ Connected(s, t) \/ ConnectFails(s, t)
  \/ (\E reading \in Readings[kind] : Answered(s, t, reading)) \/ Lost(s, t)
  \/ ClearSlot(s, t)

Next ==
  \/ \E s \in Send : Call(s) \/ TakeThrottle(s) \/ Outcome(s)
  \/ \E s \in Caller, t \in targets : Work(s, t)
  \/ \E s \in Send, t \in targets : CopyDropped(s, t)
  \/ \E t \in targets : PeerCloses(t)
  \/ Tick

(* A step that needs nothing from a target: an HTTP request times out      *)
(* after five seconds, a stream fails once its connection is closed.       *)
Alone(s, t) ==
  \/ GetConn(s, t) \/ ClearSlot(s, t)
  \/ Lost(s, t) /\ (Sender.quic => ~Live(t, handle[s][t]))

(* The runtime polls every task that can go on.  Nothing bounds a QUIC     *)
(* handshake, an authentication or a stream: they end with an answer, or   *)
(* with a connection that is closed or goes idle, and keep-alives hold a   *)
(* connection to a peer that acknowledges them.  So the only steps owed    *)
(* are those that need nothing from a target.                              *)
Fairness ==
  /\ \A s \in Send : WF_vars(TakeThrottle(s) \/ Outcome(s) \/ \E t \in targets : Alone(s, t))
  /\ WF_vars(\E t \in targets : Alone(Warmup, t))

Spec == Init /\ [][Next]_vars /\ Fairness

-----------------------------------------------------------------------------
(* Where there is an answer, a success is never a refusal, but for those   *)
(* that the sender is known to misread, nor the loss of every copy; where  *)
(* there is none, a success says that a copy was written to its end and no *)
(* more.  A failure is not one that had every copy accepted or written,    *)
(* and where the first success counts, no copy was.                        *)
OutcomeIsTrue ==
  \A s \in Send :
    /\ call[s] = "Success" =>
         \E t \in targets :
           heard[s][t] \in IF Sender.uni THEN {"finished", "dropped"}
                                       ELSE {"accepted", "unclear", "misread"}
    /\ call[s] = "Error" =>
         IF Sender.rule = "first success"
         THEN \A t \in targets : heard[s][t] = "lost"
         ELSE \E t \in targets : heard[s][t] \in {"lost", "refused", "unclear"}

(* The clock readings of sends that pass the throttle are at least the     *)
(* interval apart, and one is throttled only for another that passed with  *)
(* a reading less than the interval before its own, or after it: the clock *)
(* is read before the lock is taken.                                       *)
Paced ==
  Sender.throttles =>
    \A r, s \in Send :
      /\ r # s /\ {call[r], call[s]} \cap {"Idle", "Timed", "Throttled"} = {} =>
           \/ called_at[r] - called_at[s] >= min_send_interval
           \/ called_at[s] - called_at[r] >= min_send_interval
      /\ call[s] = "Throttled" =>
           \E q \in Send : /\ call[q] \notin {"Idle", "Timed", "Throttled"}
                           /\ called_at[s] - called_at[q] < min_send_interval

(* Concurrent sends and the warm-up share one connection per target: it is *)
(* made again only because the peer closed one or an error emptied the     *)
(* slot - of the connection that failed or of one made since.              *)
ConnectsAreCaused ==
  \A t \in targets : made[t] <= 1 + Cardinality(closed[t]) + cleared[t]

(* A send has no reply that decides it and waits for a peer: in its own    *)
(* handshake or on a stream of a live connection, or for the lock that     *)
(* another's handshake holds.                                              *)
HeldByPeer(s) ==
  /\ \A success \in BOOLEAN : ~Decides(s, success)
  /\ \E t \in targets :
       \/ task[s][t] = "Connect"
       \/ task[s][t] = "Write" /\ Sender.quic /\ Live(t, handle[s][t])
       \/ task[s][t] \in {"Lock", "Clear"} /\ guard[t] # Free

(* Every send over HTTP ends, and one over QUIC ends unless a peer holds   *)
(* it that neither answers nor closes: no failure of a target, no order of *)
(* the replies and no lock keeps it from its outcome.                      *)
OnlyPeersHoldSends ==
  <>[](\A s \in Send : call[s] \in Ended \cup {"Idle"} \/ HeldByPeer(s))

(* What one might take a success for, and neither holds: where there is an *)
(* answer, that a target did not refuse, ...                               *)
RefusalsAreErrors ==
  \A s \in Send : call[s] = "Success" /\ ~Sender.uni =>
    \E t \in targets : heard[s][t] \in {"accepted", "unclear"}

(* ... and on uni streams, that a copy was not dropped. *)
SuccessIsDelivered ==
  \A s \in Send : call[s] = "Success" /\ Sender.uni =>
    \E t \in targets : heard[s][t] = "finished"

=============================================================================
