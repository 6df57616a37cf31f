------------------------------- MODULE SlotStream -------------------------------
(***************************************************************************)
(* What the PoH supervisor promises the consumers of its stream: each      *)
(* lifetime of a slot is a sequence of events, one per entry index and in  *)
(* that order, that is only ever appended to and closed by one end event;  *)
(* an entry is marked uncertain exactly when an index before it was        *)
(* reported missing; and when the supervisor exits, no slot is left open.  *)
(***************************************************************************)
EXTENDS Integers, Sequences

CONSTANTS Slot, Event

VARIABLES
  log,     \* log[s]: the events of s in its latest lifetime
  open,    \* slots whose latest lifetime goes on
  exited

vars == <<log, open, exited>>

EndKind == {"Complete", "Incomplete"}

(* The events of a lifetime before its end. *)
InOrder(l) ==
  \A k \in 1 .. Len(l) :
    /\ l[k].kind \notin EndKind
    /\ l[k].index = k - 1
    /\ l[k].kind = "Entry" =>
         (l[k].uncertain <=> \E j \in 1 .. k - 1 : l[j].kind = "Missing")

Closed(l) ==
  /\ l # <<>> /\ l[Len(l)].kind \in EndKind
  /\ InOrder(SubSeq(l, 1, Len(l) - 1))

Appended(old, new) ==
  /\ Len(old) <= Len(new)
  /\ \A k \in 1 .. Len(old) : new[k] = old[k]

Init ==
  /\ log = [s \in Slot |-> <<>>]
  /\ open = {} /\ exited = FALSE

Begin(s) == s \notin open /\ s \in open' /\ InOrder(log'[s])

Continue(s) ==
  /\ s \in open /\ s \in open'
  /\ Appended(log[s], log'[s]) /\ InOrder(log'[s])

End(s) ==
  /\ s \in open /\ s \notin open'
  /\ Appended(log[s], log'[s]) /\ Closed(log'[s])

Rest(s) == s \notin open /\ s \notin open' /\ log'[s] = log[s]

Next ==
  /\ ~exited /\ exited' \in BOOLEAN
  /\ log' \in [Slot -> Seq(Event)] /\ open' \subseteq Slot
  /\ \A s \in Slot : Begin(s) \/ Continue(s) \/ End(s) \/ Rest(s)
  /\ exited' => open' = {}

Spec == Init /\ [][Next]_vars

=============================================================================
