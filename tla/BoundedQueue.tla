---------------------------- MODULE BoundedQueue ----------------------------
(***************************************************************************)
(* What the keyboard buffer promises to the shell, without a ring, indices *)
(* or interrupt masking: a first-in first-out queue of bounded capacity    *)
(* that drops a key only when it is full, and a reader that is handed the  *)
(* oldest key, or NUL when there is none.                                  *)
(*                                                                         *)
(* Every arrival of a key is a visible step, also of a key that is         *)
(* dropped: an implementation may not lose a key by doing nothing.         *)
(***************************************************************************)
EXTENDS Naturals, Sequences

CONSTANTS
  Keys,      \* the key codes that can be queued
  NUL,       \* what the reader is handed when the queue is empty
  Capacity   \* how many keys the queue holds

VARIABLES
  arrival,   \* the key that arrived last, and a bit that turns at each arrival
  q,         \* the queued keys, oldest first
  taken      \* the key the reader was handed last

vars == <<arrival, q, taken>>

Init ==
  /\ arrival = [key |-> NUL, bit |-> 0]
  /\ q = <<>>
  /\ taken = NUL

\* A key that finds room is queued, and only one that finds none is dropped.
Put(k) ==
  /\ arrival' = [key |-> k, bit |-> 1 - arrival.bit]
  /\ q' = IF Len(q) < Capacity THEN Append(q, k) ELSE q
  /\ UNCHANGED taken

Get ==
  /\ q # <<>>
  /\ taken' = Head(q)
  /\ q' = Tail(q)
  /\ UNCHANGED arrival

GetNothing ==
  /\ q = <<>>
  /\ taken' = NUL
  /\ UNCHANGED <<arrival, q>>

Next ==
  \/ \E k \in Keys : Put(k)
  \/ Get
  \/ GetNothing

Spec == Init /\ [][Next]_vars
=============================================================================
