---------------------------- MODULE MCShredSource ----------------------------
(***************************************************************************)
(* A small instance of ShredSource: slot 0 with a set that decodes and a   *)
(* later slot with one that does not.                                      *)
(***************************************************************************)
EXTENDS ShredSource

const_FecSets == {<<0, 0>>, <<2, 0>>}
const_Terminated == {<<0, 0>>, <<2, 0>>}
const_Undecodable == {<<2, 0>>}

=============================================================================
