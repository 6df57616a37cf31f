----------------------------- MODULE AttemptLedger -----------------------------
(***************************************************************************)
(* What the recorder promises the report: an attempt it takes in is open   *)
(* until it ends in exactly one outcome, which is then never changed, and  *)
(* no attempt is open when the recorder has stopped.  A transaction is     *)
(* matched at most once.                                                   *)
(***************************************************************************)
EXTENDS Integers

CONSTANTS Key, FinalOutcome

VARIABLES
  open,     \* attempts taken in and not yet ended
  outcome,  \* outcome[k]: the outcomes given to k, one after the other
  matches,  \* matches[k]: the matches made for k
  stopped

vars == <<open, outcome, matches, stopped>>

Init ==
  /\ open = {}
  /\ outcome = [k \in Key |-> <<>>] /\ matches = [k \in Key |-> 0]
  /\ stopped = FALSE

Register(k) ==
  /\ ~stopped /\ k \notin open /\ outcome[k] = <<>>
  /\ open' = open \cup {k}
  /\ UNCHANGED <<outcome, matches, stopped>>

(* Some of the open attempts end, each with an outcome of its own.         *)
End(gone) ==
  /\ gone \subseteq open
  /\ open' = open \ gone
  /\ \E choice \in [gone -> FinalOutcome] :
       outcome' = [k \in Key |-> IF k \in gone THEN <<choice[k]>> ELSE outcome[k]]
  /\ UNCHANGED matches

Match(k) ==
  /\ ~stopped /\ matches[k] = 0
  /\ matches' = [matches EXCEPT ![k] = 1]
  /\ UNCHANGED <<open, outcome, stopped>>

Next ==
  \/ \E k \in Key : Register(k) \/ Match(k)
  \/ ~stopped /\ UNCHANGED stopped /\ \E gone \in SUBSET open : End(gone)
  \/ ~stopped /\ stopped' = TRUE /\ End(open)

Spec == Init /\ [][Next]_vars

=============================================================================
