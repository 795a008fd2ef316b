----------------------------- MODULE MCKeyboard -----------------------------
(***************************************************************************)
(* The keyboard driver on a small keyboard: both Shift keys, the grey Del  *)
(* key (0xE0 first; a key in normal_map and 0 in shift_map), and CapsLock. *)
(***************************************************************************)
EXTENDS Keyboard

Key(c, e) == [code |-> c, ext |-> e]

MCPhysKeys == {Key(42, FALSE), Key(54, FALSE), Key(83, TRUE), Key(58, FALSE)}
=============================================================================
