------------------------------ MODULE Teletype ------------------------------
(***************************************************************************)
(* What a console promises: a page of ROWS lines on which each item of a   *)
(* message appears where the one before it ended, and which moves up as    *)
(* soon as a line begins below the last.                                   *)
(*                                                                         *)
(* Items are what kprintf distinguishes: a character of the format string, *)
(* "\n", "\t", a conversion with its argument, and "%" before anything     *)
(* else ("none"), which prints nothing.                                    *)
(***************************************************************************)
EXTENDS Itoa, SequencesExt

CONSTANTS COLS, ROWS, TabStop

ASSUME ScreenAssumption ==
  /\ COLS \in 1 .. 255 /\ ROWS \in 1 .. 254
  /\ TabStop \in 1 .. COLS /\ COLS + TabStop <= 256

Cells == 0 .. ROWS * COLS - 1
Blank == " "

Lines(n) == [i \in 1 .. n |-> [kind |-> "nl"]]
Char(c) == [kind |-> "char", c |-> c]
Tab == [kind |-> "tab"]
Unknown == [kind |-> "none"]
Str(s) == [kind |-> "s", s |-> s]
Num(kind, v) == [kind |-> kind, v |-> v]    \* kind: "d", "x" or "X"

\* The text a reader expects of an item.
Meaning(item) ==
  CASE item.kind = "char" -> <<item.c>>
    [] item.kind = "s" -> item.s
    [] item.kind = "d" -> Decimal(item.v)
    [] item.kind = "x" -> Hexadecimal(item.v)
    [] item.kind = "X" -> <<"0", "x">> \o [i \in DOMAIN Numeral(item.v, 16) |->
                                             toupper(Numeral(item.v, 16)[i])]
    [] OTHER -> <<>>

\* A page: its cells, where the next character goes, and the lines that have
\* left it at the top since the message began.
Sheet(cells, x, y, gone) == [cells |-> cells, x |-> x, y |-> y, gone |-> gone]
Page(cells, x, y) == Sheet(cells, x, y, 0)

MovedUp(cells) ==
  [i \in Cells |-> IF i + COLS \in Cells THEN cells[i + COLS] ELSE Blank]

LineFeed(p) ==
  IF p.y < ROWS - 1
  THEN Sheet(p.cells, 0, p.y + 1, p.gone)
  ELSE Sheet(MovedUp(p.cells), 0, p.y, p.gone + 1)

AtMargin(p) == IF p.x >= COLS THEN LineFeed(p) ELSE p

Strike(p, c) ==
  AtMargin(Sheet([p.cells EXCEPT ![p.y * COLS + p.x] = c], p.x + 1, p.y, p.gone))

\* The pages after each of the first characters of a text.
Struck(p, text) ==
  LET after[k \in 0 .. Len(text)] ==
        IF k = 0 THEN p ELSE Strike(after[k - 1], text[k])
  IN after

Typed(p, item) ==
  CASE item.kind = "nl" -> LineFeed(p)
    [] item.kind = "tab" ->
         AtMargin(Sheet(p.cells, ((p.x \div TabStop) + 1) * TabStop, p.y, p.gone))
    [] OTHER -> Struck(p, Meaning(item))[Len(Meaning(item))]

\* The pages after each of the first items of a message.
Printed(p, message) ==
  LET after[k \in 0 .. Len(message)] ==
        IF k = 0 THEN p ELSE Typed(after[k - 1], message[k])
  IN after

-----------------------------------------------------------------------------
(* The messages kprintf can print as promised.  It scrolls once, when the  *)
(* message ends, so nothing may come after the line that leaves the page;  *)
(* it looks for the margin after whole items; and hexadecimal numbers are  *)
(* taken as signed.                                                        *)

Fits(p, item) ==
  /\ item.kind \in {"x", "X"} => item.v >= 0
  /\ Typed(p, item).gone <= 1
  /\ LET length == Len(Meaning(item))
     IN /\ length > 0 => p.gone = 0
        /\ length > 1 => p.x + length <= COLS

Plain(p, message) ==
  \A i \in DOMAIN message : Fits(Printed(p, message)[i - 1], message[i])
=============================================================================
