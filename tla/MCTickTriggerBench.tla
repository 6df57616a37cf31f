--------------------------- MODULE MCTickTriggerBench ---------------------------
(* A chain of three slots for TickTriggerBench: a tick in the slot the     *)
(* observer skips, then a slot with transactions and two ticks, then one   *)
(* with transactions, three slots later.                                   *)
EXTENDS TickTriggerBench

E(slot, i, num_hashes, tx) == [slot |-> slot, i |-> i, num_hashes |-> num_hashes, tx |-> tx]
const_Entry == {E(1, 1, 2, FALSE), E(2, 1, 2, FALSE), E(2, 2, 1, TRUE),
                E(2, 3, 1, FALSE), E(5, 1, 1, TRUE)}
const_schedule == {<<2, 1>>, <<2, 2>>}

=============================================================================
