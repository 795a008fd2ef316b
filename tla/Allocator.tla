----------------------------- MODULE Allocator -----------------------------
(***************************************************************************)
(* What a heap promises its clients: a block handed out lies inside the    *)
(* heap and apart from every block that is still in use, and stays where   *)
(* it is until it is freed.                                                *)
(***************************************************************************)
EXTENDS Integers

CONSTANTS
  Space,    \* the addresses the heap may use
  Sizes     \* the sizes clients ask for

VARIABLE blocks    \* the blocks in use: [addr, size]

Block == [addr : Space, size : Sizes]
Words(b) == b.addr .. b.addr + b.size - 1
Apart(b, c) == b.addr + b.size <= c.addr \/ c.addr + c.size <= b.addr

Take(b) ==
  /\ b \in Block
  /\ Words(b) \subseteq Space
  /\ \A c \in blocks : Apart(b, c)
  /\ blocks' = blocks \cup {b}

Give(b) ==
  /\ b \in blocks
  /\ blocks' = blocks \ {b}

allocInit == blocks = {}

\* The block of a step is one that the step adds or removes, which spares TLC
\* the enumeration of Block.
allocNext == \E b \in blocks \cup blocks' : Take(b) \/ Give(b)

allocSpec == allocInit /\ [][allocNext]_blocks
=============================================================================
