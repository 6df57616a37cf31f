------------------------------- MODULE MCSenders -------------------------------
(* Two concurrent sends of any of the senders over two regions. *)
EXTENDS Senders

CONSTANTS s1, s2, r1, r2

const_Send == {s1, s2}
const_Region == {r1, r2}

=============================================================================
