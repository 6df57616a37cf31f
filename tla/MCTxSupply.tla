------------------------------- MODULE MCTxSupply -------------------------------
(* Two triggers, Jito and a sender that is configured with a tip and has   *)
(* no account for it; tip floors below, within and above the range.        *)
EXTENDS TxSupply

CONSTANTS t1, t2, jito, fixed

const_Trigger == {t1, t2}
const_Sender == {jito, fixed}
const_JitoSender == {jito}
const_Tipped == {jito}
const_tip_lamports == [s \in {jito, fixed} |-> IF s = jito THEN 0 ELSE 2]
const_TipFloors == {0, 2, 9}

=============================================================================
