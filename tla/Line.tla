-------------------------------- MODULE Line --------------------------------
(***************************************************************************)
(* VBE_DrawPixel and VBE_DrawLine (kernel/vbe.c:28-98) on a linear frame   *)
(* buffer.  One step of the line is one turn of its loop.                  *)
(***************************************************************************)
EXTENDS Integers

CONSTANTS Width, Height   \* SCREEN_WIDTH, SCREEN_HEIGHT

ASSUME ResolutionAssumption == Width \in Nat \ {0} /\ Height \in Nat \ {0}

VARIABLES
  fb,    \* the frame buffer, Width * Height words
  line   \* the locals of the latest call of VBE_DrawLine; drawing while cnt > 0

Pixels == 0 .. Width * Height - 1
Points == (0 .. Width - 1) \X (0 .. Height - 1)

abs(n) == IF n > 0 THEN n ELSE -n
Sign(n) == IF n > 0 THEN 1 ELSE IF n < 0 THEN -1 ELSE 0

VBE_DrawPixel(x, y, rgb) == fb' = [fb EXCEPT ![y * Width + x] = rgb]

\* VBE_DrawRect: its corner (x2, y2) is outside.
Filled(f, x, y, x2, y2, rgb) ==
  [p \in Pixels |-> IF /\ (p % Width) \in x .. x2 - 1
                       /\ (p \div Width) \in y .. y2 - 1
                    THEN rgb ELSE f[p]]

VBE_DrawRect(x, y, x2, y2, rgb) == fb' = Filled(fb, x, y, x2, y2, rgb)

\* The locals before the loop: m is the longer side, n the shorter, (dx2, dy2)
\* a step along the longer side and (dx1, dy1) a diagonal one.
Steep(a, b) == abs(b[1] - a[1]) < abs(b[2] - a[2])

Locals(a, b, rgb) ==
  LET sx == b[1] - a[1]
      sy == b[2] - a[2]
      steep == Steep(a, b)
      m == IF steep THEN abs(sy) ELSE abs(sx)
  IN [from |-> a, to |-> b, rgb |-> rgb,
      m |-> m, n |-> IF steep THEN abs(sx) ELSE abs(sy),
      dx1 |-> Sign(sx), dy1 |-> Sign(sy),
      dx2 |-> IF steep THEN 0 ELSE Sign(sx),
      dy2 |-> IF steep THEN Sign(sy) ELSE 0,
      x |-> a[1], y |-> a[2], k |-> 0, cnt |-> m + 1]

VBE_DrawLine(a, b, rgb) ==
  /\ line.cnt = 0
  /\ line' = Locals(a, b, rgb)

\* Fault variant of Diagonal: the error is compared too late.
Diagonal_late(k, m) == k > m

\* Has the error reached a pixel?
Diagonal(k, m) == k >= m

\* Fault variant of Carry: k -= m is missing.
Carry_kept(k, m) == k

Carry(k, m) == k - m

LineStep ==
  /\ line.cnt > 0
  /\ VBE_DrawPixel(line.x, line.y, line.rgb)
  /\ LET k == line.k + line.n
         d == Diagonal(k, line.m)
     IN line' = [line EXCEPT
          !.cnt = line.cnt - 1,
          !.k = IF d THEN Carry(k, line.m) ELSE k,
          !.x = line.x + (IF d THEN line.dx1 ELSE line.dx2),
          !.y = line.y + (IF d THEN line.dy1 ELSE line.dy2)]

-----------------------------------------------------------------------------
(* What a line is, without the error term.                                 *)

\* The pixel about to be drawn is as many steps along the longer side as were
\* drawn before it, less than one pixel from the ideal line, and the last one
\* is the end point.
LineIsStraight ==
  line.cnt > 0 =>
    LET sx == line.to[1] - line.from[1]
        sy == line.to[2] - line.from[2]
        ex == line.x - line.from[1]
        ey == line.y - line.from[2]
        drawn == line.m + 1 - line.cnt
    IN /\ abs(sx) >= abs(sy) => ex = drawn * Sign(sx)
       /\ abs(sx) < abs(sy) => ey = drawn * Sign(sy)
       /\ line.m > 0 => abs(ex * sy - ey * sx) < line.m
       /\ line.cnt = 1 => <<line.x, line.y>> = line.to

\* The error after d steps along the longer side and c along the shorter.
ErrorIs(k, n, m, d, c) == k = d * n - c * m

\* A coordinate after d steps of s from a.
After(x, a, d, s) == x = a + d * s

\* The inductive strengthening of LineIsStraight.
OnCourse(l, c) ==
  LET drawn == l.m + 1 - l.cnt
  IN /\ ErrorIs(l.k, l.n, l.m, drawn, c)
     /\ l.k >= 0
     /\ l.m > 0 => l.k < l.m
     /\ Steep(l.from, l.to) => /\ After(l.x, l.from[1], c, l.dx1)
                              /\ After(l.y, l.from[2], drawn, l.dy1)
     /\ ~Steep(l.from, l.to) => /\ After(l.x, l.from[1], drawn, l.dx1)
                               /\ After(l.y, l.from[2], c, l.dy1)

\* The locals that the loop leaves alone.
Fixed(l) == <<l.m, l.n, l.dx1, l.dy1, l.dx2, l.dy2>>

\* The colours that lines are drawn in.
Ink == {"border", "line"}

LineType ==
  [from : Int \X Int, to : Int \X Int, rgb : Ink, m : Int, n : Int,
   dx1 : Int, dy1 : Int, dx2 : Int, dy2 : Int, x : Int, y : Int, k : Int, cnt : Int]

lineInv ==
  /\ line \in LineType
  /\ Fixed(line) = Fixed(Locals(line.from, line.to, line.rgb))
  /\ line.cnt \in 0 .. line.m + 1
  /\ line.cnt > 0 => \E c \in Nat : OnCourse(line, c)
=============================================================================
