------------------------------ MODULE Keyboard ------------------------------
(***************************************************************************)
(* The keyboard driver: keyboard_callback (kernel/keyboard.c:54-188) turns *)
(* the bytes of the keyboard controller into modifier state, LED commands  *)
(* and keys in the buffer of KbdBuffer.                                    *)
(*                                                                         *)
(* The keyboard itself is external: keys go down, repeat and come up in    *)
(* any order; each event puts a make or break code on the wire, after the  *)
(* byte 0xE0 for the keys of the extended block, and each byte the driver  *)
(* sends is answered.  The handler runs with interrupts masked, so one     *)
(* call is one step; it reads one byte.  Its static saw_break_code is set  *)
(* and cleared within a call, so it is not part of the state.              *)
(***************************************************************************)
EXTENDS KbdBuffer, KeyMaps

CONSTANTS
  PhysKeys,   \* the keys of the keyboard: [code |-> scan code, ext |-> 0xE0?]
  MaxWire     \* bytes of key events the controller holds

KeyBytes == 0 .. 127

ASSUME KeysAssumption == Keys = QueuedKeys /\ NUL = NULKEY
ASSUME PhysAssumption == PhysKeys \subseteq [code : KeyBytes \ {0}, ext : BOOLEAN]
ASSUME WireAssumption == MaxWire \in Nat

VARIABLES
  held,         \* keys that are down
  wire,         \* bytes not yet read from port 0x60, oldest first
  kbd_status,   \* the KBD_META_ bits that are set
  leds,         \* LEDs that are lit
  expects,      \* has the keyboard seen 0xED and waits for the LED byte?
  ledok         \* were both bytes of the latest LED update accepted?

driver == <<held, wire, kbd_status, leds, expects, ledok>>
kbdVars == <<bufVars, driver>>

Locks == {"SCRL", "NUM", "CAPS"}
Metas == {"ALT", "CTRL", "SHIFT"} \cup Locks

\* The raw codes of keyboard.h:49-67.  Left and right Alt, and left and right
\* Ctrl, have one code; the two Shift keys have two.
CodesOf == [ALT |-> {56}, CTRL |-> {29}, SHIFT |-> {42, 54},
            SCRL |-> {70}, NUM |-> {69}, CAPS |-> {58}]

EXT == 224      \* 0xE0
ACK == 250      \* 0xFA
RESEND == 254   \* 0xFE

-----------------------------------------------------------------------------
(* The keyboard, external.                                                 *)

Event(p, b) == IF p.ext THEN <<EXT, b>> ELSE <<b>>

Send(bytes) ==
  /\ Len(wire) + Len(bytes) <= MaxWire
  /\ wire' = wire \o bytes

\* A key goes down, or repeats while it is down.
Press(p) ==
  /\ Send(Event(p, p.code))
  /\ held' = held \cup {p}
  /\ UNCHANGED <<bufVars, kbd_status, leds, expects, ledok>>

Release(p) ==
  /\ p \in held
  /\ Send(Event(p, p.code + 128))
  /\ held' = held \ {p}
  /\ UNCHANGED <<bufVars, kbd_status, leds, expects, ledok>>

-----------------------------------------------------------------------------
(* keyboard_callback.                                                      *)

IsBreak(b) == b >= 128
CodeOf(b) == IF IsBreak(b) THEN b - 128 ELSE b
IsCode(m, b) == CodeOf(b) \in CodesOf[m]

\* The IRQ1 handler is entered for byte b.
ReadByte(b) ==
  /\ wire # <<>> /\ b = Head(wire)
  /\ iflag
  /\ UNCHANGED <<reader, held>>

\* Fault variant of BreakCode: only the left Shift key clears the Shift bit.
BreakCode_left_only(b) ==
  /\ ReadByte(b)
  /\ IsBreak(b)
  /\ wire' = Tail(wire)
  /\ kbd_status' =
       kbd_status \ {m \in {"ALT", "CTRL", "SHIFT"} : IsCode(m, b) /\ b # 182}
  /\ UNCHANGED <<fifo, leds, expects, ledok>>

\* Any byte from 0x80 up, 0xE0 and the keyboard's answers included.
BreakCode(b) ==
  /\ ReadByte(b)
  /\ IsBreak(b)
  /\ wire' = Tail(wire)
  /\ kbd_status' =
       kbd_status \ {m \in {"ALT", "CTRL", "SHIFT"} : IsCode(m, b)}
  /\ UNCHANGED <<fifo, leds, expects, ledok>>

\* Fault variant of ModifierMake: the right Shift key has a bit of its own.
ModifierMake_own_bit(b) ==
  /\ ReadByte(b)
  /\ ~IsBreak(b)
  /\ \E m \in {"ALT", "CTRL", "SHIFT"} :
       /\ IsCode(m, b)
       /\ kbd_status' = kbd_status \cup {IF b = 54 THEN "RIGHT_SHIFT" ELSE m}
  /\ wire' = Tail(wire)
  /\ UNCHANGED <<fifo, leds, expects, ledok>>

ModifierMake(b) ==
  /\ ReadByte(b)
  /\ ~IsBreak(b)
  /\ \E m \in {"ALT", "CTRL", "SHIFT"} :
       IsCode(m, b) /\ kbd_status' = kbd_status \cup {m}
  /\ wire' = Tail(wire)
  /\ UNCHANGED <<fifo, leds, expects, ledok>>

Toggle(S, m) == IF m \in S THEN S \ {m} ELSE S \cup {m}

\* Fault variant of LedByte: temp keeps the bits of the LEDs already lit.
LedByte_sticky(status) == leds \cup (status \cap Locks)

\* The value of temp sent after 0xED.
LedByte(status) == status \cap Locks

\* Two calls of write_kbd, each of which gives up when the controller stays
\* busy for 500000 reads of its status: sent1 and sent2 say which bytes went
\* out.  The keyboard takes the second as LED state only if it expects it.
LockMake(b, m, sent1, sent2) ==
  LET status == Toggle(kbd_status, m)
      taken == sent2 /\ (sent1 \/ expects)
      answers == (IF sent1 THEN <<ACK>> ELSE <<>>)
                   \o (IF sent2 THEN <<IF taken THEN ACK ELSE RESEND>> ELSE <<>>)
  IN /\ ReadByte(b)
     /\ ~IsBreak(b)
     /\ IsCode(m, b)
     /\ kbd_status' = status
     /\ leds' = IF taken THEN LedByte(status) ELSE leds
     /\ expects' = ((sent1 \/ expects) /\ ~taken)
     /\ ledok' = (sent1 /\ sent2)
     /\ wire' = Tail(wire) \o answers
     /\ UNCHANGED fifo

Keymap == IF "SHIFT" \in kbd_status THEN shift_map ELSE normal_map

\* Fault variant of IsQueued: the entry 0 is not ignored.
IsQueued_zero(c) == c \in DOMAIN Keymap /\ Keymap[c] \notin FunctionKeys

\* Codes beyond the table, entries 0 and the keys F1 to F11 are ignored.
IsQueued(c) ==
  /\ c \in DOMAIN Keymap
  /\ Keymap[c] # NULKEY
  /\ Keymap[c] \notin FunctionKeys

\* What CapsLock makes of the letter, temp, is not used: converted is queued.
KeyMake(b) ==
  /\ ReadByte(b)
  /\ ~IsBreak(b)
  /\ \A m \in Metas : ~IsCode(m, b)
  /\ IF IsQueued(b) THEN fifo_insert(Keymap[b]) ELSE UNCHANGED fifo
  /\ wire' = Tail(wire)
  /\ UNCHANGED <<kbd_status, leds, expects, ledok>>

keyboard_callback ==
  LET b == Head(wire)
  IN \/ BreakCode(b)
     \/ ModifierMake(b)
     \/ \E m \in Locks, sent1, sent2 \in BOOLEAN : LockMake(b, m, sent1, sent2)
     \/ KeyMake(b)

-----------------------------------------------------------------------------
kbdInit ==
  /\ bufInit
  /\ held = {}
  /\ wire = <<>>
  /\ kbd_status = {}
  /\ leds = {}
  /\ expects = FALSE
  /\ ledok = TRUE

kbdNext ==
  \/ \E p \in PhysKeys : Press(p) \/ Release(p)
  \/ keyboard_callback
  \/ (ReaderStep \/ Consume) /\ UNCHANGED driver

kbdSpec == kbdInit /\ [][kbdNext]_kbdVars

-----------------------------------------------------------------------------
(* Properties.                                                             *)

kbdTypeOK ==
  /\ held \subseteq PhysKeys
  /\ wire \in Seq(0 .. 255)
  /\ kbd_status \subseteq Metas
  /\ leds \subseteq Locks
  /\ expects \in BOOLEAN
  /\ ledok \in BOOLEAN

Holds(m) == \E p \in held : p.code \in CodesOf[m]

\* No modifier sticks: once the handler has caught up with the keyboard, a
\* modifier bit is set only while a key of that modifier is down, in whatever
\* order left and right keys, repeats and 0xE0 prefixes came in.
NoStuckModifier ==
  wire = <<>> => \A m \in {"ALT", "CTRL", "SHIFT"} :
                   m \in kbd_status => Holds(m)

\* The LEDs show the lock bits whenever the latest update got through to the
\* keyboard, whatever happened to the updates before it.
LedsFollowLocks == ledok => leds = kbd_status \cap Locks

\* Seen from the buffer, a handler run inserts one key or does nothing: the
\* entry 0, which means "no key" to the reader, is never queued, and all that
\* is proved of the buffer on its own holds behind this handler.
HandlerFeedsBuffer == bufSpec

Clears(m, b) == IsBreak(b) /\ IsCode(m, b)
Sets(m, b) == ~IsBreak(b) /\ IsCode(m, b)

\* Some byte of w clears modifier m; every byte that sets it has one behind it.
Cleared(m, w) == \E j \in 1 .. Len(w) : Clears(m, w[j])
Answered(m, w) ==
  \A i \in 1 .. Len(w) :
    Sets(m, w[i]) => \E j \in 1 .. Len(w) : i < j /\ Clears(m, w[j])

\* The inductive strengthening of NoStuckModifier: while no key of modifier m
\* is down, the release of each of its presses, handled or not, is on the wire.
ReleaseOnWire(m) ==
  ~Holds(m) => /\ Answered(m, wire)
               /\ m \in kbd_status => Cleared(m, wire)

kbdInv ==
  /\ kbdTypeOK
  /\ \A m \in {"ALT", "CTRL", "SHIFT"} : ReleaseOnWire(m)
=============================================================================
