----------------------------- MODULE MCKbdBuffer -----------------------------
(***************************************************************************)
(* KbdBuffer on a ring of three slots and three distinguishable keys: the  *)
(* ring fills, drops, wraps on both sides and empties.                     *)
(***************************************************************************)
EXTENDS KbdBuffer, TLC

CONSTANTS k1, k2, k3

MCKeys == {k1, k2, k3}
=============================================================================
