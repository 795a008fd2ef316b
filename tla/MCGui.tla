------------------------------- MODULE MCGui --------------------------------
(***************************************************************************)
(* A screen of 9 by 8 with windows apart, overlapping at a corner, one     *)
(* inside the other, at the edges of the screen and as small as the title. *)
(***************************************************************************)
EXTENDS Gui

Win(x, y, w, h) == [x |-> x, y |-> y, w |-> w, h |-> h]

MCGeometries == {Win(1, 1, 6, 5), Win(3, 2, 8, 6), Win(4, 3, 6, 5),
                 Win(0, 0, 9, 7), Win(7, 5, 8, 7)}

MCMouseAt == <<1, 2>>
MCMouse == << <<"#", "#", "0">>, <<" ", "#", "1", "#">>, <<" ", " ", "0", "#">> >>
MCBlack == {<<3, 4>>}
MCWhite == {<<2, 3>>, <<3, 3>>, <<2, 4>>, <<4, 4>>, <<3, 5>>}

MCClientPoints == (0 .. 6) \X (0 .. 4)
=============================================================================
