--------------------------- MODULE KbdBufferProofs ---------------------------
(***************************************************************************)
(* Proofs about the keyboard buffer, for every ring size and key set: the  *)
(* inductive invariant bufInv, what follows from it, and the refinement of *)
(* BoundedQueue.                                                           *)
(***************************************************************************)
EXTENDS KbdBuffer, SequenceTheorems, TLAPS

\* Initially the ring is empty, interrupts are on and the shell polls.
LEMMA InitEstablishes == bufInit => bufInv
  BY SizeAssumption, NULAssumption
  DEF bufInit, fifo_init, bufInv, bufTypeOK, MaskedIffLocked, Locked, InUse,
      Slots, ReaderPc, fifo_empty

\* A handler run inserts behind in_ptr, into a slot that is not in use.
LEMMA InterruptPreserves ==
  ASSUME bufInv, NEW k \in Keys, Interrupt(k)
  PROVE  bufInv'
<1> USE SizeAssumption, NULAssumption DEF Slots
<1>1. iflag /\ ~Locked /\ out_ptr \in Slots
  BY DEF bufInv, MaskedIffLocked, Interrupt, Locked, bufTypeOK
<1>2. CASE fifo_full
  BY <1>2 DEF bufInv, bufTypeOK, MaskedIffLocked, Locked, InUse, fifo_empty,
     Interrupt, fifo_insert, reader
<1>3. CASE ~fifo_full
  <2>1. /\ buffer' = [buffer EXCEPT ![in_ptr] = k]
        /\ in_ptr' = Succ(in_ptr) /\ out_ptr' = out_ptr
        /\ arrival' = [key |-> k, bit |-> 1 - arrival.bit]
        /\ iflag' = iflag /\ flags' = flags /\ key' = key /\ rpc' = rpc
    BY <1>3 DEF Interrupt, fifo_insert, reader
  <2>2. bufTypeOK'
    BY <2>1 DEF bufInv, bufTypeOK, Succ
  <2>3. MaskedIffLocked'
    BY <2>1 DEF bufInv, MaskedIffLocked, Locked
  <2>4. \A s \in Slots : InUse(s)' => buffer'[s] \in Keys
    BY <1>1, <2>1 DEF bufInv, bufTypeOK, InUse, Succ
  <2>5. ~fifo_empty'
    BY <1>3, <2>1 DEF fifo_empty, fifo_full
  <2> QED
    BY <1>1, <2>1, <2>2, <2>3, <2>4, <2>5 DEF bufInv, Locked
<1> QED
  BY <1>2, <1>3

\* Each step of the shell keeps the invariant; only GetTake and GetWrap touch
\* the ring, and both run with interrupts masked.
LEMMA ReaderPreserves ==
  ASSUME bufInv, ReaderStep \/ Consume
  PROVE  bufInv'
<1> USE SizeAssumption, NULAssumption
    DEF bufInv, bufTypeOK, MaskedIffLocked, Locked, InUse, fifo_empty, fifo,
        Slots, ReaderPc
<1>1. CASE PollLock
  BY <1>1 DEF PollLock
<1>2. CASE PollTest
  BY <1>2 DEF PollTest
<1>3. CASE GetLock
  BY <1>3 DEF GetLock
<1>4. CASE GetTake
  <2>1. /\ rpc = "get_locked" /\ ~fifo_empty
        /\ key' = buffer[out_ptr] /\ out_ptr' = out_ptr + 1
        /\ rpc' = "get_wrap"
        /\ UNCHANGED <<buffer, in_ptr, arrival, iflag, flags>>
    BY <1>4 DEF GetTake
  <2>2. out_ptr \in Slots /\ InUse(out_ptr)
    BY <2>1
  <2>3. \A s \in Slots : InUse(s)' => InUse(s)
    BY <2>1, <2>2
  <2> QED
    BY <2>1, <2>2, <2>3
<1>5. CASE GetWrap
  <2>1. \A s \in Slots : InUse(s)' => InUse(s)
    BY <1>5 DEF GetWrap
  <2> QED
    BY <1>5, <2>1 DEF GetWrap
<1>6. CASE GetUnlock
  BY <1>6 DEF GetUnlock
<1>7. CASE Consume
  BY <1>7 DEF Consume
<1> QED
  BY <1>1, <1>2, <1>3, <1>4, <1>5, <1>6, <1>7 DEF ReaderStep

\* bufInv holds in every reachable state of the buffer.
THEOREM BufferInvariant == bufSpec => []bufInv
<1>1. bufInv /\ [bufNext]_bufVars => bufInv'
  <2> SUFFICES ASSUME bufInv, [bufNext]_bufVars PROVE bufInv'
    OBVIOUS
  <2>1. CASE \E k \in Keys : Interrupt(k)
    BY <2>1, InterruptPreserves
  <2>2. CASE ReaderStep \/ Consume
    BY <2>2, ReaderPreserves
  <2>3. CASE UNCHANGED bufVars
    BY <2>3 DEF bufVars, bufInv, bufTypeOK, MaskedIffLocked, Locked, InUse,
       fifo_empty
  <2> QED
    BY <2>1, <2>2, <2>3 DEF bufNext
<1> QED
  BY <1>1, InitEstablishes, PTL DEF bufSpec

\* Every slot, pointer, flag and key is one, the pointer out_ptr at its bound
\* Size included.
THEOREM BufferTypes == bufSpec => []bufTypeOK
<1>1. bufInv => bufTypeOK
  BY DEF bufInv
<1> QED
  BY <1>1, BufferInvariant, PTL

\* Interrupts are masked exactly inside the shell's critical sections.
THEOREM MaskingIsBalanced == bufSpec => []MaskedIffLocked
<1>1. bufInv => MaskedIffLocked
  BY DEF bufInv
<1> QED
  BY <1>1, BufferInvariant, PTL

\* The shell is never handed the code 0.
THEOREM ShellGetsKeys == bufSpec => []NeverHandedNUL
<1>1. bufInv => NeverHandedNUL
  BY DEF bufInv, NeverHandedNUL
<1> QED
  BY <1>1, BufferInvariant, PTL

-----------------------------------------------------------------------------
(* The refinement.  A handler run is a Put, which drops the key only on a  *)
(* full ring; GetTake is a Get; every other step leaves Contents, key and  *)
(* arrival alone.                                                          *)

\* The queued keys form a sequence of Count keys, at most Size - 1 of them.
LEMMA ContentsIsSeq ==
  ASSUME bufInv
  PROVE  /\ Count \in 0 .. Size - 1
         /\ Contents \in Seq(Keys)
         /\ Len(Contents) = Count
         /\ \A i \in 1 .. Count : Contents[i] = buffer[SlotOf(i - 1)]
<1> USE SizeAssumption
<1>1. /\ in_ptr \in Nat /\ in_ptr < Size
      /\ out_ptr \in Nat /\ out_ptr <= Size
  BY DEF bufInv, bufTypeOK, Slots
<1>2. Count \in Nat /\ Count <= Size - 1
  BY <1>1 DEF Count
<1>3. \A i \in 1 .. Count : /\ SlotOf(i - 1) \in Slots
                            /\ InUse(SlotOf(i - 1))
  BY <1>1, <1>2 DEF Count, SlotOf, InUse, Slots
<1>4. Contents \in [1 .. Count -> Keys]
  BY <1>3 DEF Contents, bufInv
<1>5. Contents \in Seq(Keys) /\ Len(Contents) = Count
  BY <1>2, <1>4
<1> QED
  BY <1>2, <1>5 DEF Contents

\* A handler run appends its key to the queue, or finds Size - 1 keys there.
LEMMA InterruptIsPut ==
  ASSUME bufInv, bufInv', NEW k \in Keys, Interrupt(k)
  PROVE  Queue!Put(k)
<1> USE SizeAssumption
<1>1. /\ in_ptr \in Nat /\ in_ptr < Size
      /\ out_ptr \in Nat /\ out_ptr < Size
      /\ buffer \in [Slots -> Keys \cup {NUL}]
  BY DEF bufInv, bufTypeOK, Slots, Interrupt, MaskedIffLocked, Locked
<1>2. CASE fifo_full
  <2>1. UNCHANGED <<Contents, key>> /\ arrival' = [key |-> k, bit |-> 1 - arrival.bit]
    BY <1>2 DEF Interrupt, fifo_insert, reader, Contents, Count, SlotOf
  <2>2. Count = Size - 1
    BY <1>1, <1>2 DEF Count, Succ, fifo_full
  <2>3. ~(Len(Contents) < Size - 1)
    BY <2>2, ContentsIsSeq
  <2> QED
    BY <2>1, <2>3 DEF Queue!Put
<1>3. CASE ~fifo_full
  <2>1. /\ buffer' = [buffer EXCEPT ![in_ptr] = k]
        /\ in_ptr' = Succ(in_ptr) /\ out_ptr' = out_ptr /\ key' = key
        /\ arrival' = [key |-> k, bit |-> 1 - arrival.bit]
    BY <1>3 DEF Interrupt, fifo_insert, reader
  <2>2. Count' = Count + 1 /\ Count < Size - 1
    BY <1>1, <1>3, <2>1 DEF Count, Succ, fifo_full
  <2>3. \A i \in 1 .. Count : Contents'[i] = Contents[i]
    <3> SUFFICES ASSUME NEW i \in 1 .. Count
                 PROVE  Contents'[i] = Contents[i]
      OBVIOUS
    <3>1. Count \in Nat
      BY ContentsIsSeq
    <3>2. SlotOf(i - 1)' = SlotOf(i - 1)
      BY <2>1 DEF SlotOf
    <3>3. SlotOf(i - 1) # in_ptr /\ SlotOf(i - 1) \in Slots
      BY <1>1, <3>1 DEF SlotOf, Count, Slots
    <3> QED
      BY <1>1, <2>1, <2>2, <3>1, <3>2, <3>3 DEF Contents
  <2>4. Contents'[Count + 1] = k
    <3>1. Count \in Nat
      BY ContentsIsSeq
    <3>2. \A n \in Nat : n = Count => SlotOf(n)' = in_ptr
      BY <1>1, <2>1, <2>2 DEF SlotOf, Count
    <3>3. \A n \in Nat : n = Count => Contents'[n + 1] = buffer'[SlotOf(n)']
      <4> SUFFICES ASSUME NEW n \in Nat, n = Count
                   PROVE  Contents'[n + 1] = buffer'[SlotOf(n)']
        OBVIOUS
      <4>1. n + 1 \in 1 .. Count' /\ (n + 1) - 1 = n
        BY <2>2
      <4> QED
        BY <4>1 DEF Contents
    <3> QED
      BY <1>1, <2>1, <3>1, <3>2, <3>3 DEF Slots
  <2>5. Contents' = Append(Contents, k)
    <3>1. Contents \in Seq(Keys) /\ Len(Contents) = Count /\ Count \in Nat
      BY ContentsIsSeq
    <3>2. Contents' \in Seq(Keys) /\ Len(Contents') = Count'
      <4>1. Count' \in Nat /\ Contents' \in [1 .. Count' -> Keys]
        <5>1. Count' \in Nat /\ DOMAIN Contents' = 1 .. Count'
          BY <2>2, <3>1 DEF Contents
        <5>2. Contents' = [i \in 1 .. Count' |-> Contents'[i]]
          BY <5>1 DEF Contents
        <5>3. \A i \in 1 .. Count' : Contents'[i] \in Keys
          BY <2>2, <2>3, <2>4, <3>1
        <5> QED
          BY <5>1, <5>2, <5>3
      <4> QED
        BY <4>1
    <3>3. \A i \in 1 .. Len(Contents') : Contents'[i] = Append(Contents, k)[i]
      BY <2>2, <2>3, <2>4, <3>1, <3>2
    <3> QED
      BY <2>2, <3>1, <3>2, <3>3, SeqEqual, AppendProperties
  <2>6. Queue!Put(k)
    BY <2>1, <2>2, <2>5, ContentsIsSeq DEF Queue!Put
  <2> QED
    BY <1>3, <2>6
<1> QED
  BY <1>2, <1>3

\* GetTake removes the oldest key and hands it to the shell.
LEMMA GetTakeIsGet ==
  ASSUME bufInv, bufInv', GetTake
  PROVE  Queue!Get
<1> USE SizeAssumption
<1>1. /\ ~fifo_empty /\ key' = buffer[out_ptr]
      /\ out_ptr' = out_ptr + 1 /\ buffer' = buffer /\ in_ptr' = in_ptr
      /\ arrival' = arrival
  BY DEF GetTake, bufInv
<1>2. /\ in_ptr \in Nat /\ in_ptr < Size
      /\ out_ptr \in Nat /\ out_ptr < Size
  BY DEF bufInv, bufTypeOK, Slots, GetTake
<1>3. /\ Contents \in Seq(Keys) /\ Len(Contents) = Count /\ Count \in Nat
      /\ \A i \in 1 .. Count : Contents[i] = buffer[SlotOf(i - 1)]
  BY ContentsIsSeq
<1>4. Count > 0 /\ Count' = Count - 1
  BY <1>1, <1>2 DEF Count, fifo_empty
<1>5. Contents # <<>> /\ Head(Contents) = key'
  <2>1. SlotOf(0) = out_ptr
    BY <1>2 DEF SlotOf
  <2>2. Contents[1] = buffer[out_ptr]
    BY <1>3, <1>4, <2>1
  <2> QED
    BY <1>1, <1>3, <1>4, <2>2
<1>6. Contents' = Tail(Contents)
  <2>1. \A i \in 1 .. Count - 1 : SlotOf(i - 1)' = SlotOf(i)
    BY <1>1, <1>2, <1>3 DEF SlotOf
  <2>2. Contents' = [i \in 1 .. Count - 1 |-> buffer[SlotOf(i)]]
    BY <1>1, <1>3, <1>4, <2>1 DEF Contents
  <2>3. /\ Tail(Contents) \in Seq(Keys) /\ Len(Tail(Contents)) = Count - 1
        /\ \A i \in 1 .. Count - 1 : Tail(Contents)[i] = Contents[i + 1]
    BY <1>3, <1>4, <1>5, HeadTailProperties
  <2>4. \A i \in 1 .. Count - 1 : Contents[i + 1] = buffer[SlotOf(i)]
    BY <1>3
  <2>5. /\ Contents' \in Seq(Keys) /\ Len(Contents') = Count - 1
        /\ \A i \in 1 .. Count - 1 : Contents'[i] = buffer[SlotOf(i)]
    <3>1. \A i \in 1 .. Count - 1 : buffer[SlotOf(i)] \in Keys
      BY <1>3, <2>4, <1>4
    <3> QED
      BY <1>3, <1>4, <2>2, <3>1
  <2> QED
    BY <2>3, <2>4, <2>5, SeqEqual
<1> QED
  BY <1>1, <1>5, <1>6 DEF Queue!Get

\* Wrapping out_ptr from Size to 0 does not change what the ring holds.
LEMMA GetWrapIsStutter ==
  ASSUME bufInv, GetWrap
  PROVE  UNCHANGED <<Contents, key, arrival>>
<1> USE SizeAssumption
<1>1. /\ in_ptr \in Nat /\ in_ptr < Size
      /\ out_ptr \in Nat /\ out_ptr <= Size
  BY DEF bufInv, bufTypeOK, Slots
<1>2. /\ buffer' = buffer /\ in_ptr' = in_ptr /\ key' = key /\ arrival' = arrival
      /\ out_ptr' = IF out_ptr >= Size THEN 0 ELSE out_ptr
  BY DEF GetWrap
<1>3. Count' = Count /\ Count \in Nat
  BY <1>1, <1>2 DEF Count
<1>4. \A i \in 1 .. Count : SlotOf(i - 1)' = SlotOf(i - 1)
  BY <1>1, <1>2, <1>3 DEF SlotOf, Count
<1> QED
  BY <1>2, <1>3, <1>4 DEF Contents

\* The ring implements the bounded queue: keys reach the shell in order, none
\* twice, and a call of fifo_insert drops its key only when Size - 1 others
\* are waiting.
THEOREM RingRefinesQueue == bufSpec => RefinesBoundedQueue
<1>1. bufInit => Queue!Init
  BY SizeAssumption DEF bufInit, fifo_init, Queue!Init, Contents, Count
<1>2. bufInv /\ bufInv' /\ [bufNext]_bufVars => [Queue!Next]_<<arrival, Contents, key>>
  <2> SUFFICES ASSUME bufInv, bufInv', [bufNext]_bufVars
               PROVE  [Queue!Next]_<<arrival, Contents, key>>
    OBVIOUS
  <2>1. CASE \E k \in Keys : Interrupt(k)
    BY <2>1, InterruptIsPut DEF Queue!Next
  <2>2. CASE GetTake
    BY <2>2, GetTakeIsGet DEF Queue!Next
  <2>3. CASE GetWrap
    BY <2>3, GetWrapIsStutter
  <2>4. CASE PollLock \/ PollTest \/ GetLock \/ GetUnlock \/ Consume
    BY <2>4 DEF PollLock, PollTest, GetLock, GetUnlock, Consume, fifo,
       Contents, Count, SlotOf
  <2>5. CASE UNCHANGED bufVars
    BY <2>5 DEF bufVars, Contents, Count, SlotOf
  <2> QED
    BY <2>1, <2>2, <2>3, <2>4, <2>5 DEF bufNext, ReaderStep
<1> QED
  BY <1>1, <1>2, BufferInvariant, PTL
  DEF bufSpec, RefinesBoundedQueue, Queue!Spec, Queue!vars
=============================================================================
