-------------------------------- MODULE TxSupply --------------------------------
(***************************************************************************)
(* Where the fan-out bench's transactions come from in blockhash mode: the *)
(* thread that refreshes the blockhash cache (blockhash_cache.rs), the     *)
(* task that follows Jito's tip floor (senders/jito/tip_updater.rs), the   *)
(* preparer that signs a trigger's variants ahead of time (preparer.rs),   *)
(* the dispatcher that takes them out of the pool or builds them when the  *)
(* trigger fires (bin/phase3_run.rs), and the main loop that ends the run. *)
(*                                                                         *)
(* Blockhashes are numbered as the chain makes them; 0 is Hash::default(), *)
(* what the cache holds at first.  What happens to an entry before and     *)
(* after it is signed is SchedulePreparer's, to a sent one AttemptRecorder's. *)
(* The variants' shuffled order and their tip accounts are left out.       *)
(***************************************************************************)
EXTENDS Integers, FiniteSets

CONSTANTS
  Trigger,
  Sender,            \* the enabled senders
  JitoSender,        \* those of kind Jito, whose tip is live
  Tipped,            \* senders whose kind has tip accounts
  tip_lamports,      \* tip_lamports[s] as configured
  tip_floor, tip_ceiling,
  TipFloors,         \* what the tip floor API may answer
  MaxHash            \* bound: blockhashes of the chain

ASSUME SupplyAssumption ==
  /\ IsFiniteSet(Trigger) /\ IsFiniteSet(Sender) /\ Sender # {}
  /\ JitoSender \subseteq Tipped /\ Tipped \subseteq Sender
  /\ tip_lamports \in [Sender -> Nat]
  /\ tip_floor \in Nat /\ tip_ceiling \in Nat /\ tip_floor <= tip_ceiling
  /\ TipFloors \subseteq Nat /\ MaxHash \in Nat \ {0}

NoHash == 0
Blockhash == NoHash .. MaxHash

(* A signed transaction: whose memo it carries, what it was signed with.   *)
PreSignedTx == [sender : Sender, blockhash : Blockhash, tip : Nat]

(* A signing job of the preparer or the dispatcher. *)
Job == [trigger : Trigger, read : BOOLEAN, blockhash : Blockhash,
        left : SUBSET Sender, signed : SUBSET PreSignedTx]
NoJob == [trigger |-> "none"]

VARIABLES
  latest,       \* the chain's latest blockhash
  inner,        \* the blockhash in the cache
  stamped,      \* last_refresh_ns is no longer zero
  refresher,    \* the refresh thread: before the RPC call, or after the store
  current_tip,  \* Jito's current_lamports
  waiting,      \* entries in the schedule channel or pending
  preparing,    \* the preparer's job
  pool,         \* pool[t]: the variants that wait, {} when there are none
  building,     \* the dispatcher's job
  fired,        \* triggers the dispatcher has taken up
  sent,         \* sent[t]: the variants that left
  running

cache == <<inner, stamped, refresher>>
prepVars == <<waiting, preparing>>
dispVars == <<building, fired, sent>>
supplyVars == <<latest, cache, current_tip, prepVars, pool, dispVars, running>>

SupplyTypeOK ==
  /\ latest \in 1 .. MaxHash /\ inner \in Blockhash
  /\ stamped \in BOOLEAN /\ refresher \in {"fetch", "stored"}
  /\ current_tip \in Nat
  /\ waiting \subseteq Trigger /\ fired \subseteq Trigger
  /\ preparing \in Job \cup {NoJob} /\ building \in Job \cup {NoJob}
  /\ pool \in [Trigger -> SUBSET PreSignedTx]
  /\ sent \in [Trigger -> SUBSET PreSignedTx]
  /\ running \in BOOLEAN

SupplyInit ==
  /\ latest = 1
  /\ inner = NoHash /\ stamped = FALSE /\ refresher = "fetch"
  /\ current_tip = tip_floor
  /\ waiting = Trigger /\ preparing = NoJob
  /\ pool = [t \in Trigger |-> {}]
  /\ building = NoJob /\ fired = {}
  /\ sent = [t \in Trigger |-> {}]
  /\ running = TRUE

-----------------------------------------------------------------------------
ChainAdvances ==
  /\ latest < MaxHash
  /\ latest' = latest + 1
  /\ UNCHANGED <<cache, current_tip, prepVars, pool, dispVars, running>>

(* Bug: the time is stamped before the blockhash is stored. *)
StoreHash_StampFirst ==
  /\ running /\ refresher = "fetch"
  /\ IF stamped THEN inner' = latest /\ UNCHANGED refresher
                ELSE refresher' = "stored" /\ UNCHANGED inner
  /\ stamped' = TRUE
  /\ UNCHANGED <<latest, current_tip, prepVars, pool, dispVars, running>>

(* Bug: a call that fails ends the thread. *)
StoreHash_GivesUp ==
  /\ running /\ refresher = "fetch"
  /\ \/ inner' = latest /\ refresher' = "stored"
     \/ refresher' = "ended" /\ UNCHANGED inner
  /\ UNCHANGED <<latest, stamped, current_tip, prepVars, pool, dispVars, running>>

(* get_latest_blockhash, at start-up and every refresh_interval, and the   *)
(* store of its answer.  A call that fails keeps what the cache has and is *)
(* made again.                                                             *)
StoreHash ==
  /\ running /\ refresher = "fetch"
  /\ inner' = latest /\ refresher' = "stored"
  /\ UNCHANGED <<latest, stamped, current_tip, prepVars, pool, dispVars, running>>

(* The store of the time, a step of its own. *)
update_last_refresh ==
  /\ refresher = "stored"
  /\ stamped' = TRUE /\ refresher' = "fetch"
  /\ UNCHANGED <<latest, inner, current_tip, prepVars, pool, dispVars, running>>

clamp(tip) == IF tip < tip_floor THEN tip_floor ELSE IF tip > tip_ceiling THEN tip_ceiling ELSE tip

(* fetch_and_compute; a call that fails keeps the previous value.          *)
UpdateTip ==
  /\ running
  /\ \E tip \in TipFloors : current_tip' = clamp(tip)
  /\ UNCHANGED <<latest, cache, prepVars, pool, dispVars, running>>

-----------------------------------------------------------------------------
(* tip_accounts_for: Triton's two kinds have no account to tip. *)
TipAccount(s) == s \in Tipped

(* A transaction for sender s and the tip it pays: none without an account. *)
build(s, blockhash, tip) ==
  [sender |-> s, blockhash |-> blockhash, tip |-> IF TipAccount(s) THEN tip ELSE 0]

NewJob(t) ==
  [trigger |-> t, read |-> FALSE, blockhash |-> NoHash, left |-> Sender, signed |-> {}]

(* The job with sender s's variant signed.                                 *)
Signed(job, s, tip) ==
  [job EXCEPT !.left = @ \ {s}, !.signed = @ \cup {build(s, job.blockhash, tip)}]

(* BlockhashCache::current, read once for all variants.                    *)
ReadHash(job) == [job EXCEPT !.read = TRUE, !.blockhash = inner]

(* The preparer drops an entry of a past slot.                             *)
DropPast(t) ==
  /\ running /\ preparing = NoJob /\ t \in waiting
  /\ waiting' = waiting \ {t}
  /\ UNCHANGED <<latest, cache, current_tip, preparing, pool, dispVars, running>>

(* An entry is taken up once the cache is not empty; until then it is kept *)
(* and tried again.                                                        *)
StartSigning(t) ==
  /\ running /\ preparing = NoJob /\ t \in waiting /\ stamped
  /\ waiting' = waiting \ {t}
  /\ preparing' = NewJob(t)
  /\ UNCHANGED <<latest, cache, current_tip, pool, dispVars, running>>

(* A job once begun is finished, even when the run stops.                  *)
PreparerReads ==
  /\ preparing # NoJob /\ ~preparing.read
  /\ preparing' = ReadHash(preparing)
  /\ UNCHANGED <<latest, cache, current_tip, waiting, pool, dispVars, running>>

SignVariant(s) ==
  /\ preparing # NoJob /\ preparing.read /\ s \in preparing.left
  /\ preparing' = Signed(preparing, s, IF s \in JitoSender THEN current_tip ELSE tip_lamports[s])
  /\ UNCHANGED <<latest, cache, current_tip, waiting, pool, dispVars, running>>

insert_all ==
  /\ preparing # NoJob /\ preparing.left = {}
  /\ pool' = [pool EXCEPT ![preparing.trigger] = preparing.signed]
  /\ preparing' = NoJob
  /\ UNCHANGED <<latest, cache, current_tip, waiting, dispVars, running>>

-----------------------------------------------------------------------------
(* The trigger fires: its variants are taken out of the pool; when there   *)
(* are none they are built, unless there is no blockhash yet.              *)
Fire(t) ==
  /\ running /\ building = NoJob /\ t \notin fired
  /\ fired' = fired \cup {t}
  /\ \/ /\ pool[t] # {}
        /\ sent' = [sent EXCEPT ![t] = pool[t]]
        /\ pool' = [pool EXCEPT ![t] = {}]
        /\ UNCHANGED building
     \/ /\ pool[t] = {} /\ stamped
        /\ building' = NewJob(t)
        /\ UNCHANGED <<sent, pool>>
     \/ /\ pool[t] = {} /\ ~stamped
        /\ UNCHANGED <<building, sent, pool>>
  /\ UNCHANGED <<latest, cache, current_tip, prepVars, running>>

DispatcherReads ==
  /\ building # NoJob /\ ~building.read
  /\ building' = ReadHash(building)
  /\ UNCHANGED <<latest, cache, current_tip, prepVars, pool, fired, sent, running>>

(* The fallback pays the configured tip, for Jito too.                     *)
BuildVariant(s) ==
  /\ building # NoJob /\ building.read /\ s \in building.left
  /\ building' = Signed(building, s, tip_lamports[s])
  /\ UNCHANGED <<latest, cache, current_tip, prepVars, pool, fired, sent, running>>

SendBuilt ==
  /\ building # NoJob /\ building.left = {}
  /\ sent' = [sent EXCEPT ![building.trigger] = building.signed]
  /\ building' = NoJob
  /\ UNCHANGED <<latest, cache, current_tip, prepVars, pool, fired, running>>

(* The duration is over, the balance is too low, or Ctrl-C.                *)
Stop ==
  /\ running
  /\ running' = FALSE
  /\ UNCHANGED <<latest, cache, current_tip, prepVars, pool, dispVars>>

SupplyNext ==
  \/ ChainAdvances \/ StoreHash \/ update_last_refresh \/ UpdateTip
  \/ \E t \in Trigger : DropPast(t) \/ StartSigning(t) \/ Fire(t)
  \/ PreparerReads \/ insert_all
  \/ \E s \in Sender : SignVariant(s) \/ BuildVariant(s)
  \/ DispatcherReads \/ SendBuilt
  \/ Stop

(* The RPC node answers sooner or later; the refresh thread and the        *)
(* preparer run.                                                           *)
SupplyFairness ==
  /\ WF_supplyVars(StoreHash) /\ WF_supplyVars(update_last_refresh)
  /\ WF_supplyVars(PreparerReads) /\ WF_supplyVars(insert_all)
  /\ WF_supplyVars(\E s \in Sender : SignVariant(s))
  /\ \A t \in Trigger : WF_supplyVars(StartSigning(t))

SupplySpec == SupplyInit /\ [][SupplyNext]_supplyVars /\ SupplyFairness

-----------------------------------------------------------------------------
Variants == {pool[t] : t \in Trigger} \cup {sent[t] : t \in Trigger}

(* However the two stores of the refresh thread fall between the reads of  *)
(* the preparer and the dispatcher, the variants of a trigger are one per  *)
(* sender, signed with one and the same blockhash of the chain; and what   *)
(* the preparer signed for Jito tips between floor and ceiling, whatever   *)
(* the API answered before or during the signing.                          *)
VariantsWellFormed ==
  /\ \A v \in Variants : v # {} =>
       /\ \E h \in 1 .. latest : \A x \in v : x.blockhash = h
       /\ {x.sender : x \in v} = Sender /\ Cardinality(v) = Cardinality(Sender)
  /\ \A t \in Trigger : \A x \in pool[t] :
       x.sender \in JitoSender => x.tip \in tip_floor .. tip_ceiling

(* An entry that came before the cache was filled, or while another is     *)
(* signed, does not wait for ever: it is signed, or its slot is past.      *)
EntriesMoveOn == \A t \in Trigger : t \in waiting ~> (t \notin waiting \/ ~running)

=============================================================================
