----------------------------- MODULE MCPhase1Observe -----------------------------
(* Three slots for Phase1Observe; the proxy sends the second in two        *)
(* batches.                                                                *)
EXTENDS Phase1Observe

const_Length == <<1, 3, 2>>
const_Batch == {[slot |-> 1, first |-> 0, n |-> 1], [slot |-> 2, first |-> 0, n |-> 2],
                [slot |-> 2, first |-> 2, n |-> 1], [slot |-> 3, first |-> 0, n |-> 2]}

=============================================================================
