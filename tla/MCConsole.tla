----------------------------- MODULE MCConsole ------------------------------
(***************************************************************************)
(* The console on a page of two rows.  Each message is one kind of text:   *)
(* a line, a number in each notation, a tab, strings that end at and cross *)
(* the margin, lines that follow each other, an unknown conversion.        *)
(***************************************************************************)
EXTENDS Console

ASSUME ItoaIsRight ==
  \A v \in -300 .. 5000 :
    /\ itoa(v, 10) = Decimal(v)
    /\ v >= 0 => itoa(v, 16) = Hexadecimal(v)

MCMessages ==
  { <<Char("a"), Char("b")>> \o Lines(1),
    <<Num("d", -12), Tab, Num("d", 0)>>,
    <<Num("x", 10), Str(<<"f", "g">>)>>,
    <<Num("X", 171), Unknown, Char("8")>> \o Lines(1),
    Lines(2) \o <<Char("e")>> }

MCNames == {<<"p", "q">>, <<"l", "o", "n", "g">>}

MCRebooting == Lines(1) \o <<Char("r")>>
=============================================================================
