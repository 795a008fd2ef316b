--------------------------- MODULE KeyboardProofs ---------------------------
(***************************************************************************)
(* Proofs about Keyboard, for every set of keys and every bound: no        *)
(* modifier sticks, the LEDs follow the lock bits, and the handler feeds   *)
(* the buffer the way KbdBuffer assumes.                                   *)
(***************************************************************************)
EXTENDS Keyboard, KbdBufferProofs

Modifiers == {"ALT", "CTRL", "SHIFT"}
Bytes == 0 .. 255

-----------------------------------------------------------------------------
(* What reading and sending do to the two predicates on the wire.          *)

\* Taking the first byte off the wire.
LEMMA TailKeepsReleases ==
  ASSUME NEW m, NEW w \in Seq(Bytes), w # <<>>, Answered(m, w)
  PROVE  /\ Tail(w) \in Seq(Bytes)
         /\ Answered(m, Tail(w))
         /\ Cleared(m, w) /\ ~Clears(m, Head(w)) => Cleared(m, Tail(w))
         /\ Sets(m, Head(w)) => Cleared(m, Tail(w))
<1>1. /\ Len(w) \in Nat /\ Len(w) >= 1
      /\ Tail(w) \in Seq(Bytes) /\ Len(Tail(w)) = Len(w) - 1
      /\ Head(w) = w[1]
      /\ \A i \in 1 .. Len(w) - 1 : Tail(w)[i] = w[i + 1]
  BY HeadTailProperties
<1>2. \A j \in 2 .. Len(w) : /\ j - 1 \in 1 .. Len(Tail(w))
                             /\ Tail(w)[j - 1] = w[j]
  BY <1>1
<1>3. Answered(m, Tail(w))
  <2> SUFFICES ASSUME NEW i \in 1 .. Len(w) - 1, Sets(m, w[i + 1])
               PROVE  \E j \in 1 .. Len(Tail(w)) :
                        i < j /\ Clears(m, Tail(w)[j])
    BY <1>1 DEF Answered
  <2>1. i + 1 \in 1 .. Len(w)
    BY <1>1
  <2>2. PICK j \in 1 .. Len(w) : i + 1 < j /\ Clears(m, w[j])
    BY <2>1 DEF Answered
  <2>3. /\ j - 1 \in 1 .. Len(Tail(w)) /\ i < j - 1
        /\ Clears(m, Tail(w)[j - 1])
    <3>1. j \in 2 .. Len(w) /\ i < j - 1
      BY <1>1, <2>2
    <3> QED
      BY <1>2, <2>2, <3>1
  <2> QED
    BY <2>3
<1>4. ASSUME Cleared(m, w), ~Clears(m, Head(w))
      PROVE  Cleared(m, Tail(w))
  <2>1. PICK j \in 1 .. Len(w) : Clears(m, w[j])
    BY <1>4 DEF Cleared
  <2>2. j \in 2 .. Len(w)
    BY <1>1, <1>4, <2>1
  <2> QED
    BY <1>2, <2>1, <2>2 DEF Cleared
<1>5. ASSUME Sets(m, Head(w))
      PROVE  Cleared(m, Tail(w))
  <2>1. PICK j \in 1 .. Len(w) : 1 < j /\ Clears(m, w[j])
    BY <1>1, <1>5 DEF Answered
  <2> QED
    BY <1>1, <1>2, <2>1 DEF Cleared
<1> QED
  BY <1>1, <1>3, <1>4, <1>5

\* Bytes from 0x80 up on the wire set nothing.
LEMMA AppendKeepsReleases ==
  ASSUME NEW m, NEW w \in Seq(Bytes), NEW bs \in Seq(Bytes),
         \A i \in 1 .. Len(bs) : ~Sets(m, bs[i])
  PROVE  /\ w \o bs \in Seq(Bytes)
         /\ Answered(m, w) => Answered(m, w \o bs)
         /\ Cleared(m, w) => Cleared(m, w \o bs)
<1>1. /\ Len(w) \in Nat /\ Len(bs) \in Nat
      /\ w \o bs \in Seq(Bytes) /\ Len(w \o bs) = Len(w) + Len(bs)
      /\ \A i \in 1 .. Len(w) : (w \o bs)[i] = w[i]
      /\ \A i \in Len(w) + 1 .. Len(w) + Len(bs) : (w \o bs)[i] = bs[i - Len(w)]
  BY ConcatProperties
<1>2. ASSUME Answered(m, w), NEW i \in 1 .. Len(w \o bs), Sets(m, (w \o bs)[i])
      PROVE  \E j \in 1 .. Len(w \o bs) : i < j /\ Clears(m, (w \o bs)[j])
  <2>1. i \in 1 .. Len(w)
    <3>1. CASE i > Len(w)
      <4>1. i - Len(w) \in 1 .. Len(bs) /\ (w \o bs)[i] = bs[i - Len(w)]
        BY <1>1, <3>1
      <4> QED
        BY <1>2, <4>1
    <3> QED
      BY <1>1, <3>1
  <2>2. PICK j \in 1 .. Len(w) : i < j /\ Clears(m, w[j])
    BY <1>1, <1>2, <2>1 DEF Answered
  <2> QED
    BY <1>1, <2>2
<1>3. Cleared(m, w) => Cleared(m, w \o bs)
  BY <1>1 DEF Cleared
<1> QED
  BY <1>1, <1>2, <1>3 DEF Answered

\* A wire that ends in a byte that clears m.
LEMMA AppendReleases ==
  ASSUME NEW m, NEW w \in Seq(Bytes), NEW bs \in Seq(Bytes), bs # <<>>,
         Clears(m, bs[Len(bs)])
  PROVE  /\ w \o bs \in Seq(Bytes)
         /\ Answered(m, w \o bs)
         /\ Cleared(m, w \o bs)
<1>1. /\ Len(w) \in Nat /\ Len(bs) \in Nat /\ Len(bs) >= 1
      /\ w \o bs \in Seq(Bytes) /\ Len(w \o bs) = Len(w) + Len(bs)
  BY ConcatProperties, EmptySeq
<1>2. (w \o bs)[Len(w \o bs)] = bs[Len(bs)]
  BY <1>1, ConcatProperties
<1>3. Clears(m, (w \o bs)[Len(w \o bs)])
  BY <1>2
<1> QED
  BY <1>1, <1>3 DEF Answered, Cleared, Sets, Clears
-----------------------------------------------------------------------------
(* The bytes of an event and of an answer.                                 *)

LEMMA BreakSetsNothing ==
  ASSUME NEW m, NEW b, IsBreak(b)
  PROVE  ~Sets(m, b)
BY DEF Sets

LEMMA EventBytes ==
  ASSUME NEW p \in PhysKeys, NEW b \in Bytes
  PROVE  /\ Event(p, b) \in Seq(Bytes)
         /\ Event(p, b) # <<>>
         /\ Event(p, b)[Len(Event(p, b))] = b
         /\ \A i \in 1 .. Len(Event(p, b)) :
              Event(p, b)[i] = b \/ IsBreak(Event(p, b)[i])
<1>1. IsBreak(EXT) /\ EXT \in Bytes
  BY DEF IsBreak, EXT, Bytes
<1>2. <<b>> \in Seq(Bytes) /\ <<EXT, b>> \in Seq(Bytes)
  BY <1>1
<1>3. /\ Len(<<b>>) = 1 /\ <<b>>[1] = b
      /\ Len(<<EXT, b>>) = 2 /\ <<EXT, b>>[1] = EXT /\ <<EXT, b>>[2] = b
  OBVIOUS
<1>4. CASE p.ext
  <2>1. Event(p, b) = <<EXT, b>>
    BY <1>4 DEF Event
  <2>2. \A i \in 1 .. 2 : i = 1 \/ i = 2
    OBVIOUS
  <2>3. \A i \in 1 .. 2 : <<EXT, b>>[i] = b \/ IsBreak(<<EXT, b>>[i])
    BY <1>1, <1>3, <2>2
  <2> QED
    BY <1>2, <1>3, <2>1, <2>3
<1>5. CASE ~p.ext
  <2>1. Event(p, b) = <<b>>
    BY <1>5 DEF Event
  <2> QED
    BY <1>2, <1>3, <2>1
<1> QED
  BY <1>4, <1>5

-----------------------------------------------------------------------------
(* The invariant.                                                          *)

\* The bits set in kbd_status have a reason: a key that is down, or a release
\* that is still on the wire.
THEOREM KeyboardInvariant == kbdSpec => []kbdInv
<1>1. kbdInit => kbdInv
  <2>1. kbdInit => kbdTypeOK
    <3>1. <<>> \in Seq(0 .. 255)
      OBVIOUS
    <3>2. TRUE \in BOOLEAN /\ FALSE \in BOOLEAN
      OBVIOUS
    <3> QED
      BY <3>1, <3>2, Zenon DEF kbdInit, kbdTypeOK
  <2>2. kbdInit => \A m \in Modifiers : ReleaseOnWire(m)
    <3> SUFFICES ASSUME kbdInit, NEW m \in Modifiers
                 PROVE  ReleaseOnWire(m)
      OBVIOUS
    <3>1. wire = <<>> /\ Len(wire) = 0 /\ m \notin kbd_status
      BY DEF kbdInit
    <3>2. Answered(m, wire)
      BY <3>1 DEF Answered
    <3> QED
      BY <3>1, <3>2 DEF ReleaseOnWire
  <2> QED
    BY <2>1, <2>2 DEF kbdInv, Modifiers
<1>2. kbdInv /\ [kbdNext]_kbdVars => kbdInv'
  <2> SUFFICES ASSUME kbdInv, [kbdNext]_kbdVars
               PROVE  kbdInv'
    OBVIOUS
  <2>0. /\ held \subseteq PhysKeys /\ wire \in Seq(Bytes)
        /\ kbd_status \subseteq Metas /\ leds \subseteq Locks
        /\ expects \in BOOLEAN /\ ledok \in BOOLEAN
    BY DEF kbdInv, kbdTypeOK, Bytes
  <2>1. ASSUME NEW p \in PhysKeys, Press(p)
        PROVE  kbdInv'
    <3> DEFINE bs == Event(p, p.code)
    <3>1. p.code \in Bytes
      BY PhysAssumption DEF Bytes, KeyBytes
    <3>2. /\ bs \in Seq(Bytes)
          /\ \A i \in 1 .. Len(bs) : bs[i] = p.code \/ IsBreak(bs[i])
      BY <3>1, EventBytes
    <3>3. /\ wire' = wire \o bs /\ held' = held \cup {p}
          /\ kbd_status' = kbd_status /\ leds' = leds
          /\ expects' = expects /\ ledok' = ledok
      BY <2>1 DEF Press, Send
    <3> HIDE DEF bs
    <3>4. kbdTypeOK'
      BY <2>0, <3>2, <3>3 DEF kbdTypeOK, Bytes
    <3>5. ASSUME NEW m \in Modifiers, ~Holds(m)'
          PROVE  /\ Answered(m, wire)'
                 /\ m \in kbd_status' => Cleared(m, wire)'
      <4>1. p.code \notin CodesOf[m] /\ ~Holds(m)
        BY <3>3, <3>5 DEF Holds
      <4>2. ~Sets(m, p.code)
        BY <3>1, <4>1 DEF Sets, IsCode, CodeOf
      <4>3. \A i \in 1 .. Len(bs) : ~Sets(m, bs[i])
        BY <3>2, <4>2, BreakSetsNothing
      <4>4. Answered(m, wire) /\ (m \in kbd_status => Cleared(m, wire))
        BY <4>1 DEF kbdInv, ReleaseOnWire, Modifiers
      <4>5. /\ Answered(m, wire \o bs)
            /\ m \in kbd_status => Cleared(m, wire \o bs)
        BY <2>0, <3>2, <4>3, <4>4, AppendKeepsReleases
      <4> QED
        BY <3>3, <4>5 DEF Answered, Cleared
    <3> QED
      BY <3>4, <3>5 DEF kbdInv, ReleaseOnWire, Modifiers
  <2>2. ASSUME NEW p \in PhysKeys, Release(p)
        PROVE  kbdInv'
    <3> DEFINE bs == Event(p, p.code + 128)
    <3>1. p.code \in KeyBytes /\ p.code + 128 \in Bytes /\ IsBreak(p.code + 128)
      BY PhysAssumption DEF Bytes, KeyBytes, IsBreak
    <3>2. /\ bs \in Seq(Bytes) /\ bs # <<>> /\ bs[Len(bs)] = p.code + 128
          /\ \A i \in 1 .. Len(bs) : IsBreak(bs[i])
      BY <3>1, EventBytes
    <3>3. /\ wire' = wire \o bs /\ held' = held \ {p}
          /\ kbd_status' = kbd_status /\ leds' = leds
          /\ expects' = expects /\ ledok' = ledok
      BY <2>2 DEF Release, Send
    <3> HIDE DEF bs
    <3>4. kbdTypeOK'
      BY <2>0, <3>2, <3>3 DEF kbdTypeOK, Bytes
    <3>5. ASSUME NEW m \in Modifiers, ~Holds(m)'
          PROVE  /\ Answered(m, wire)'
                 /\ m \in kbd_status' => Cleared(m, wire)'
      <4>1. CASE p.code \in CodesOf[m]
        <5>1. Clears(m, p.code + 128)
          BY <3>1, <4>1 DEF Clears, IsCode, CodeOf, IsBreak, KeyBytes
        <5>2. Answered(m, wire \o bs) /\ Cleared(m, wire \o bs)
          BY <2>0, <3>2, <5>1, AppendReleases
        <5> QED
          BY <3>3, <5>2 DEF Answered, Cleared
      <4>2. CASE p.code \notin CodesOf[m]
        <5>1. ~Holds(m)
          BY <3>3, <3>5, <4>2 DEF Holds
        <5>2. Answered(m, wire) /\ (m \in kbd_status => Cleared(m, wire))
          BY <5>1 DEF kbdInv, ReleaseOnWire, Modifiers
        <5>3. /\ Answered(m, wire \o bs)
              /\ m \in kbd_status => Cleared(m, wire \o bs)
          BY <2>0, <3>2, <5>2, AppendKeepsReleases, BreakSetsNothing
        <5> QED
          BY <3>3, <5>3 DEF Answered, Cleared
      <4> QED
        BY <4>1, <4>2
    <3> QED
      BY <3>4, <3>5 DEF kbdInv, ReleaseOnWire, Modifiers
  <2>3. ASSUME NEW bs \in Seq(Bytes), wire # <<>>, held' = held,
               wire' = Tail(wire) \o bs,
               \A i \in 1 .. Len(bs) : IsBreak(bs[i]),
               \A m \in Modifiers :
                 m \in kbd_status' => \/ m \in kbd_status /\ ~Clears(m, Head(wire))
                                     \/ Sets(m, Head(wire)),
               kbd_status' \subseteq Metas, leds' \subseteq Locks,
               expects' \in BOOLEAN, ledok' \in BOOLEAN
        PROVE  kbdInv'
    <3>1. ASSUME NEW m \in Modifiers, ~Holds(m)'
          PROVE  /\ Answered(m, wire)'
                 /\ m \in kbd_status' => Cleared(m, wire)'
      <4>1. ~Holds(m)
        BY <2>3, <3>1 DEF Holds
      <4>2. Answered(m, wire) /\ (m \in kbd_status => Cleared(m, wire))
        BY <4>1 DEF kbdInv, ReleaseOnWire, Modifiers
      <4>3. /\ Tail(wire) \in Seq(Bytes)
            /\ Answered(m, Tail(wire))
            /\ m \in kbd_status' => Cleared(m, Tail(wire))
        BY <2>0, <2>3, <4>2, TailKeepsReleases
      <4>4. /\ Answered(m, Tail(wire) \o bs)
            /\ m \in kbd_status' => Cleared(m, Tail(wire) \o bs)
        BY <2>3, <4>3, AppendKeepsReleases, BreakSetsNothing
      <4> QED
        BY <2>3, <4>4 DEF Answered, Cleared
    <3>2. kbdTypeOK'
      <4>1. Tail(wire) \in Seq(Bytes)
        BY <2>0, <2>3, HeadTailProperties
      <4>2. wire' \in Seq(Bytes)
        BY <2>3, <4>1, ConcatProperties
      <4> QED
        BY <2>0, <2>3, <4>2 DEF kbdTypeOK, Bytes
    <3> QED
      BY <3>1, <3>2 DEF kbdInv, ReleaseOnWire, Modifiers
  <2>4. Tail(wire) \o <<>> = Tail(wire) \/ wire = <<>>
    BY <2>0, HeadTailProperties, ConcatEmptySeq
  <2>5. /\ <<>> \in Seq(Bytes)
        /\ \A i \in 1 .. Len(<<>>) : IsBreak(<<>>[i])
    OBVIOUS
  <2>6. CASE BreakCode(Head(wire))
    <3>1. \A m \in Modifiers : m \in kbd_status' =>
            m \in kbd_status /\ ~Clears(m, Head(wire))
      BY <2>6 DEF BreakCode, Clears, Modifiers
    <3>2. kbd_status' \subseteq kbd_status
      BY <2>6 DEF BreakCode
    <3>3. /\ wire # <<>> /\ held' = held /\ wire' = Tail(wire)
          /\ UNCHANGED <<leds, expects, ledok>>
      BY <2>6 DEF BreakCode, ReadByte
    <3>4. wire' = Tail(wire) \o <<>>
      BY <2>4, <3>3
    <3> QED
      BY <2>0, <2>3, <2>5, <3>1, <3>2, <3>3, <3>4
  <2>7. CASE ModifierMake(Head(wire))
    <3>1. PICK n \in Modifiers :
            IsCode(n, Head(wire)) /\ kbd_status' = kbd_status \cup {n}
      BY <2>7 DEF ModifierMake, Modifiers
    <3>2. /\ wire # <<>> /\ held' = held /\ wire' = Tail(wire)
          /\ UNCHANGED <<leds, expects, ledok>> /\ ~IsBreak(Head(wire))
      BY <2>7 DEF ModifierMake, ReadByte
    <3>3. \A m \in Modifiers : m \in kbd_status' =>
            \/ m \in kbd_status /\ ~Clears(m, Head(wire))
            \/ Sets(m, Head(wire))
      BY <3>1, <3>2 DEF Clears, Sets
    <3>4. kbd_status' \subseteq Metas
      BY <2>0, <3>1 DEF Metas, Modifiers
    <3>5. wire' = Tail(wire) \o <<>>
      BY <2>4, <3>2
    <3> QED
      BY <2>0, <2>3, <2>5, <3>2, <3>3, <3>4, <3>5
  <2>8. ASSUME NEW n \in Locks, NEW sent1 \in BOOLEAN, NEW sent2 \in BOOLEAN,
               LockMake(Head(wire), n, sent1, sent2)
        PROVE  kbdInv'
    <3> DEFINE taken == sent2 /\ (sent1 \/ expects)
               first == IF sent1 THEN <<ACK>> ELSE <<>>
               second == IF sent2 THEN <<IF taken THEN ACK ELSE RESEND>> ELSE <<>>
               bs == first \o second
    <3>1. bs \in Seq({ACK, RESEND})
      <4>1. first \in Seq({ACK, RESEND}) /\ second \in Seq({ACK, RESEND})
        <5>1. /\ <<>> \in Seq({ACK, RESEND})
              /\ <<ACK>> \in Seq({ACK, RESEND})
              /\ <<RESEND>> \in Seq({ACK, RESEND})
          OBVIOUS
        <5>2. first = <<ACK>> \/ first = <<>>
          OBVIOUS
        <5>3. second = <<ACK>> \/ second = <<RESEND>> \/ second = <<>>
          OBVIOUS
        <5> QED
          BY <5>1, <5>2, <5>3
      <4> HIDE DEF first, second
      <4> QED
        BY <4>1, ConcatProperties
    <3>2. ACK \in Bytes /\ RESEND \in Bytes /\ IsBreak(ACK) /\ IsBreak(RESEND)
      BY DEF ACK, RESEND, Bytes, IsBreak
    <3>3. bs \in Seq(Bytes) /\ \A i \in 1 .. Len(bs) : IsBreak(bs[i])
      BY <3>1, <3>2
    <3>4. /\ wire # <<>> /\ held' = held /\ wire' = Tail(wire) \o bs
          /\ ~IsBreak(Head(wire)) /\ kbd_status' = Toggle(kbd_status, n)
      BY <2>8 DEF LockMake, ReadByte
    <3>5. /\ leds' = leds \/ leds' = LedByte(Toggle(kbd_status, n))
          /\ expects' \in BOOLEAN /\ ledok' \in BOOLEAN
      BY <2>0, <2>8 DEF LockMake
    <3>6. leds' \subseteq Locks /\ kbd_status' \subseteq Metas
      BY <2>0, <3>4, <3>5 DEF LedByte, Toggle, Metas
    <3>7. \A m \in Modifiers : m \in kbd_status' =>
            m \in kbd_status /\ ~Clears(m, Head(wire))
      BY <3>4 DEF Toggle, Clears, Modifiers, Locks
    <3> HIDE DEF bs
    <3> QED
      BY <2>3, <3>3, <3>4, <3>5, <3>6, <3>7
  <2>9. CASE KeyMake(Head(wire))
    <3>1. /\ wire # <<>> /\ held' = held /\ wire' = Tail(wire)
          /\ UNCHANGED <<kbd_status, leds, expects, ledok>>
          /\ ~IsBreak(Head(wire))
      BY <2>9 DEF KeyMake, ReadByte
    <3>2. wire' = Tail(wire) \o <<>>
      BY <2>4, <3>1
    <3> QED
      BY <2>0, <2>3, <2>5, <3>1, <3>2 DEF Clears
  <2>10. CASE UNCHANGED driver
    BY <2>10 DEF driver, kbdInv, kbdTypeOK, ReleaseOnWire, Answered, Cleared, Holds
  <2> QED
    BY <2>1, <2>2, <2>6, <2>7, <2>8, <2>9, <2>10
    DEF kbdNext, keyboard_callback, kbdVars
<1> QED
  BY <1>1, <1>2, PTL DEF kbdSpec

\* The driver's types: the wire carries bytes, and kbd_status holds the bits of
\* modifiers and locks only.
THEOREM KeyboardTypes == kbdSpec => []kbdTypeOK
<1>1. kbdInv => kbdTypeOK
  BY DEF kbdInv
<1> QED
  BY <1>1, KeyboardInvariant, PTL

\* No modifier sticks, whatever keys there are and in whatever order they go
\* down and up.
THEOREM ModifiersAreReleased == kbdSpec => []NoStuckModifier
<1>1. kbdInv => NoStuckModifier
  BY DEF kbdInv, ReleaseOnWire, Cleared, NoStuckModifier
<1> QED
  BY <1>1, KeyboardInvariant, PTL

\* The LEDs show the lock bits unless the latest update was given up.
THEOREM LedsShowLocks == kbdSpec => []LedsFollowLocks
<1>1. kbdInit => LedsFollowLocks
  BY DEF kbdInit, LedsFollowLocks
<1>2. LedsFollowLocks /\ [kbdNext]_kbdVars => LedsFollowLocks'
  <2> SUFFICES ASSUME LedsFollowLocks, [kbdNext]_kbdVars
               PROVE  LedsFollowLocks'
    OBVIOUS
  <2>1. CASE \E p \in PhysKeys : Press(p) \/ Release(p)
    BY <2>1 DEF Press, Release, LedsFollowLocks
  <2>2. CASE BreakCode(Head(wire))
    BY <2>2 DEF BreakCode, LedsFollowLocks, Locks
  <2>3. CASE ModifierMake(Head(wire))
    BY <2>3 DEF ModifierMake, LedsFollowLocks, Locks
  <2>4. CASE \E m \in Locks, sent1, sent2 \in BOOLEAN :
               LockMake(Head(wire), m, sent1, sent2)
    BY <2>4 DEF LockMake, LedsFollowLocks, LedByte
  <2>5. CASE KeyMake(Head(wire))
    BY <2>5 DEF KeyMake, LedsFollowLocks
  <2>6. CASE UNCHANGED driver
    BY <2>6 DEF driver, LedsFollowLocks
  <2> QED
    BY <2>1, <2>2, <2>3, <2>4, <2>5, <2>6 DEF kbdNext, keyboard_callback, kbdVars
<1> QED
  BY <1>1, <1>2, PTL DEF kbdSpec

-----------------------------------------------------------------------------
(* The handler and the buffer.                                             *)

LEMMA QueuedIsKey ==
  ASSUME NEW b, IsQueued(b)
  PROVE  Keymap[b] \in Keys
BY KeysAssumption DEF IsQueued, Keymap, QueuedKeys

\* The driver does to the buffer only what KbdBuffer's Interrupt does.
THEOREM DriverFeedsBuffer == kbdSpec => HandlerFeedsBuffer
<1>1. kbdInit => bufInit
  BY DEF kbdInit
<1>2. [kbdNext]_kbdVars => [bufNext]_bufVars
  <2> SUFFICES ASSUME [kbdNext]_kbdVars
               PROVE  [bufNext]_bufVars
    OBVIOUS
  <2>1. CASE \E p \in PhysKeys : Press(p) \/ Release(p)
    BY <2>1 DEF Press, Release
  <2>2. CASE \/ BreakCode(Head(wire))
             \/ ModifierMake(Head(wire))
             \/ \E m \in Locks, sent1, sent2 \in BOOLEAN :
                  LockMake(Head(wire), m, sent1, sent2)
    BY <2>2 DEF BreakCode, ModifierMake, LockMake, ReadByte, bufVars, fifo, reader
  <2>3. CASE KeyMake(Head(wire))
    <3>1. CASE IsQueued(Head(wire))
      <4>1. Interrupt(Keymap[Head(wire)])
        BY <2>3, <3>1 DEF KeyMake, ReadByte, Interrupt
      <4> QED
        BY <3>1, <4>1, QueuedIsKey DEF bufNext
    <3>2. CASE ~IsQueued(Head(wire))
      BY <2>3, <3>2 DEF KeyMake, ReadByte, bufVars, fifo, reader
    <3> QED
      BY <3>1, <3>2
  <2>4. CASE ReaderStep \/ Consume
    BY <2>4 DEF bufNext
  <2>5. CASE UNCHANGED kbdVars
    BY <2>5 DEF kbdVars
  <2> QED
    BY <2>1, <2>2, <2>3, <2>4, <2>5 DEF kbdNext, keyboard_callback
<1> QED
  BY <1>1, <1>2, PTL DEF kbdSpec, bufSpec, HandlerFeedsBuffer

\* So the shell sees the driver through a bounded first-in first-out queue.
THEOREM DriverRefinesQueue == kbdSpec => RefinesBoundedQueue
BY DriverFeedsBuffer, RingRefinesQueue DEF HandlerFeedsBuffer
=============================================================================
