------------------------------ MODULE KbdBuffer ------------------------------
(***************************************************************************)
(* The keyboard FIFO of GekonOS (kernel/include/queue.h), filled by the    *)
(* IRQ1 handler and emptied by the shell's polling loop through            *)
(* kbd_keys_available and kbd_get_key (kernel/keyboard.c:236-262,          *)
(* kernel/shell.c:26-34).                                                  *)
(*                                                                         *)
(* There is one CPU.  A handler runs with interrupts masked (every gate is *)
(* installed with flags 0x8E, an interrupt gate, kernel/idt.c:37-86), so   *)
(* one handler call is one step, and it can run between any two steps of   *)
(* the shell while iflag is set.  The shell's steps are cut where the code *)
(* leaves the queue half updated: fifo_get first increments out_ptr, which *)
(* may then equal the size, and only then wraps it.                        *)
(***************************************************************************)
EXTENDS Naturals, Sequences

CONSTANTS
  Keys,   \* key codes the handler inserts (never 0)
  NUL,    \* the code 0, kbd_get_key's answer when the queue is empty
  Size    \* slots of the ring; DECLARE_FIFO_QUEUE(kbd_buffer, 64)

ASSUME SizeAssumption == Size \in Nat /\ Size >= 2
ASSUME NULAssumption == NUL \notin Keys

VARIABLES
  buffer,    \* _buffer: the slots 0..Size-1
  in_ptr,    \* next slot to fill
  out_ptr,   \* next slot to empty
  arrival,   \* the last key fifo_insert was called with, and a bit that turns
             \* at each call (history)
  iflag,     \* EFLAGS.IF: may an interrupt be taken?
  flags,     \* IF as saved by pushfl in the shell's current critical section
  key,       \* the shell's local variable key
  rpc        \* where the shell is in its polling loop

fifo == <<buffer, in_ptr, out_ptr, arrival>>
reader == <<iflag, flags, key, rpc>>
bufVars == <<buffer, in_ptr, out_ptr, arrival, iflag, flags, key, rpc>>

Slots == 0 .. Size - 1

ReaderPc == {"poll", "poll_locked", "get", "get_locked", "get_wrap",
             "get_unlock", "switch"}

-----------------------------------------------------------------------------
(* The queue of queue.h.                                                   *)

fifo_init ==
  /\ buffer = [s \in Slots |-> NUL]
  /\ in_ptr = 0
  /\ out_ptr = 0
  /\ arrival = [key |-> NUL, bit |-> 0]

\* Fault variant of Succ: wraps one slot late.
Succ_late(p) == IF p + 1 > Size THEN 0 ELSE p + 1

Succ(p) == IF p + 1 >= Size THEN 0 ELSE p + 1

fifo_empty == in_ptr = out_ptr

\* Fault variant of fifo_full: a key is refused although there is room for one.
fifo_full_early == Succ(in_ptr) = out_ptr \/ Succ(Succ(in_ptr)) = out_ptr

fifo_full == Succ(in_ptr) = out_ptr

\* fifo_insert returns early, storing nothing, when the queue is full.
fifo_insert(k) ==
  /\ IF fifo_full
     THEN UNCHANGED <<buffer, in_ptr>>
     ELSE /\ buffer' = [buffer EXCEPT ![in_ptr] = k]
          /\ in_ptr' = Succ(in_ptr)
  /\ arrival' = [key |-> k, bit |-> 1 - arrival.bit]
  /\ UNCHANGED out_ptr

-----------------------------------------------------------------------------
(* The shell's side: pushfl/cli, the queue operation, popfl.               *)

PollLock ==
  /\ rpc = "poll"
  /\ flags' = iflag
  /\ iflag' = FALSE
  /\ rpc' = "poll_locked"
  /\ UNCHANGED <<fifo, key>>

\* Fault variant of PollTest: the answer of kbd_keys_available read as its name.
PollTest_inverted ==
  /\ rpc = "poll_locked"
  /\ iflag' = flags
  /\ rpc' = IF fifo_empty THEN "get" ELSE "poll"
  /\ UNCHANGED <<fifo, flags, key>>

\* kbd_keys_available returns 1 when the queue is EMPTY; lsh_loop then
\* continues with its next iteration.
PollTest ==
  /\ rpc = "poll_locked"
  /\ iflag' = flags
  /\ rpc' = IF fifo_empty THEN "poll" ELSE "get"
  /\ UNCHANGED <<fifo, flags, key>>

GetLock ==
  /\ rpc = "get"
  /\ flags' = iflag
  /\ iflag' = FALSE
  /\ rpc' = "get_locked"
  /\ UNCHANGED <<fifo, key>>

\* fifo_get up to out_ptr++; on an empty queue key keeps its initial 0.
GetTake ==
  /\ rpc = "get_locked"
  /\ IF fifo_empty
     THEN /\ key' = NUL
          /\ rpc' = "get_unlock"
          /\ UNCHANGED out_ptr
     ELSE /\ key' = buffer[out_ptr]
          /\ out_ptr' = out_ptr + 1
          /\ rpc' = "get_wrap"
  /\ UNCHANGED <<buffer, in_ptr, arrival, iflag, flags>>

GetWrap ==
  /\ rpc = "get_wrap"
  /\ out_ptr' = IF out_ptr >= Size THEN 0 ELSE out_ptr
  /\ rpc' = "get_unlock"
  /\ UNCHANGED <<buffer, in_ptr, arrival, iflag, flags, key>>

\* Fault variant of GetUnlock: the saved flags are not restored.
GetUnlock_no_popfl ==
  /\ rpc = "get_unlock"
  /\ rpc' = "switch"
  /\ UNCHANGED <<fifo, iflag, flags, key>>

GetUnlock ==
  /\ rpc = "get_unlock"
  /\ iflag' = flags
  /\ rpc' = "switch"
  /\ UNCHANGED <<fifo, flags, key>>

\* The steps of kbd_keys_available and kbd_get_key.
ReaderStep ==
  PollLock \/ PollTest \/ GetLock \/ GetTake \/ GetWrap \/ GetUnlock

-----------------------------------------------------------------------------
(* The queue on its own: any key at any time, and a consumer that only     *)
(* goes back to polling.                                                   *)

\* One run of the IRQ1 handler that ends in fifo_insert.
Interrupt(k) ==
  /\ iflag
  /\ fifo_insert(k)
  /\ UNCHANGED reader

Consume ==
  /\ rpc = "switch"
  /\ rpc' = "poll"
  /\ UNCHANGED <<fifo, iflag, flags, key>>

bufInit ==
  /\ fifo_init
  /\ iflag = TRUE
  /\ flags = TRUE
  /\ key = NUL
  /\ rpc = "poll"

bufNext ==
  \/ \E k \in Keys : Interrupt(k)
  \/ ReaderStep
  \/ Consume

bufSpec == bufInit /\ [][bufNext]_bufVars

\* The shell's loop never blocks, so its next step is always taken in the end.
bufFairSpec == bufSpec /\ WF_bufVars(ReaderStep \/ Consume)

-----------------------------------------------------------------------------
(* Properties.                                                             *)

bufTypeOK ==
  /\ buffer \in [Slots -> Keys \cup {NUL}]
  /\ in_ptr \in Slots
  /\ out_ptr \in 0 .. Size
  /\ arrival \in [key : Keys \cup {NUL}, bit : 0 .. 1]
  /\ iflag \in BOOLEAN
  /\ flags \in BOOLEAN
  /\ key \in Keys \cup {NUL}
  /\ rpc \in ReaderPc

\* The shell's critical sections: between pushfl/cli and popfl.
Locked == rpc \in {"poll_locked", "get_locked", "get_wrap", "get_unlock"}

\* Interrupts are masked exactly while the shell is inside a critical section
\* of kbd_keys_available or kbd_get_key: no path leaves the keyboard masked,
\* and no handler can see out_ptr before it is wrapped.
MaskedIffLocked == (~iflag <=> Locked) /\ flags

\* How many keys the ring holds, and the i-th of them counted from the oldest.
\* Both are meaningful also while out_ptr = Size, before it is wrapped.
Count ==
  IF out_ptr <= in_ptr THEN in_ptr - out_ptr ELSE in_ptr + Size - out_ptr

SlotOf(i) ==
  IF out_ptr + i < Size THEN out_ptr + i ELSE out_ptr + i - Size

Contents == [i \in 1 .. Count |-> buffer[SlotOf(i - 1)]]

\* The ring with its masked critical sections is a bounded FIFO queue of
\* Size - 1 keys: keys reach the shell in the order they were typed, none is
\* duplicated, and every call of fifo_insert queues its key unless Size - 1
\* others are waiting.
Queue == INSTANCE BoundedQueue
           WITH q <- Contents, taken <- key, Capacity <- Size - 1

RefinesBoundedQueue == Queue!Spec

\* kbd_get_key is only called after the queue was seen non-empty, and the
\* shell is the only reader: it is never handed the code 0.
NeverHandedNUL == rpc = "switch" => key # NUL

\* The slots between out_ptr and in_ptr, around the end of the ring.
InUse(s) ==
  IF out_ptr <= in_ptr THEN out_ptr <= s /\ s < in_ptr
                       ELSE out_ptr <= s \/ s < in_ptr

\* The inductive strengthening of bufTypeOK, MaskedIffLocked and
\* NeverHandedNUL: out_ptr is out of range only inside kbd_get_key, a key that
\* was seen stays queued until it is taken, and used slots hold keys.
bufInv ==
  /\ bufTypeOK
  /\ MaskedIffLocked
  /\ out_ptr = Size => rpc = "get_wrap"
  /\ rpc \in {"get", "get_locked"} => ~fifo_empty
  /\ \A s \in Slots : InUse(s) => buffer[s] \in Keys
  /\ rpc \in {"get_wrap", "get_unlock", "switch"} => key # NUL

\* A full buffer is drained: typing is never refused for ever.
FullBufferDrains == fifo_full ~> ~fifo_full
=============================================================================
