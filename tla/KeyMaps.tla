------------------------------- MODULE KeyMaps -------------------------------
(***************************************************************************)
(* The translation tables of kernel/keyboard.c:15-37 and the codes of      *)
(* kernel/include/keyboard.h they are built from.  A character is the      *)
(* string of that character or its name; BS, TAB, NL and ESC are the codes *)
(* 8, 9, 10 and 0x1B; NULKEY is the table entry 0.                         *)
(***************************************************************************)
EXTENDS Naturals, Sequences

NULKEY == "NUL"

\* The codes 0x80 to 0x8A, F1 to F11, which the handler does not queue.
FunctionKeys == {"F1", "F2", "F3", "F4", "F5", "F6", "F7", "F8", "F9", "F10",
                 "F11"}

NormalTable == <<
  "NUL", "ESC", "1", "2", "3", "4", "5", "6", "7", "8", "9", "0", "-", "=",
  "BS", "TAB",
  "q", "w", "e", "r", "t", "y", "u", "i", "o", "p", "[", "]", "NL", "CTRL",
  "a", "s",
  "d", "f", "g", "h", "j", "k", "l", ";", "'", "GRAVE", "SHIFT", "#", "z", "x",
  "c", "v",
  "b", "n", "m", ",", ".", "/", "SHIFT", "NUL", "ALT", " ", "CAPS", "F1",
  "F2", "F3", "F4", "F5",
  "F6", "F7", "F8", "F9", "F10", "NUM", "SCROL", "HOME", "UP", "PGUP", "-",
  "LEFT", "5", "RT", "+", "END",
  "DOWN", "PGDN", "INS", "DEL", "NUL", "NUL", "BACKSLASH", "F11", "F12" >>

\* One entry shorter than NormalTable: the row of 0x48 has seven entries, so
\* everything from LEFT on sits one place early.
ShiftTable == <<
  "NUL", "ESC", "!", "@", "#", "$", "%", "^",
  "&", "*", "(", ")", "_", "+", "BS", "TAB",
  "Q", "W", "E", "R", "T", "Y", "U", "I",
  "O", "P", "{", "}", "NL", "NUL", "A", "S",
  "D", "F", "G", "H", "J", "K", "L", ":",
  "QUOTE", "~", "NUL", "|", "Z", "X", "C", "V",
  "B", "N", "M", "<", ">", "?", "NUL", "NUL",
  "NUL", " ", "NUL", "F1", "F2", "F3", "F4", "F5",
  "F6", "F7", "F8", "F9", "F10", "NUL", "NUL", "HOME",
  "UP", "PGUP", "LEFT", "5", "RT", "+", "END",
  "DOWN", "PGDN", "INS", "DEL", "NUL", "NUL", "NUL", "F11", "F12" >>

\* Indexed by the scan code, as the C arrays are.
normal_map == [c \in 0 .. Len(NormalTable) - 1 |-> NormalTable[c + 1]]
shift_map == [c \in 0 .. Len(ShiftTable) - 1 |-> ShiftTable[c + 1]]

\* Every key code that fifo_insert can be given.
QueuedKeys ==
  ({normal_map[c] : c \in DOMAIN normal_map}
     \cup {shift_map[c] : c \in DOMAIN shift_map})
  \ (FunctionKeys \cup {NULKEY})
=============================================================================
