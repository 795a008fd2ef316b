---------------------------- MODULE MCInterrupts ----------------------------
(***************************************************************************)
(* Interrupts with the timer, the keyboard, a line of the master below the *)
(* cascade (4) and two of the slave (8 and 14).                            *)
(***************************************************************************)
EXTENDS Interrupts

MCLines == {0, 1, 4, 8, 14}
=============================================================================
