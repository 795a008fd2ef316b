----------------------------- MODULE GuiProofs ------------------------------
(***************************************************************************)
(* LineIsStraight for every resolution, every window and all end points.   *)
(* The error term of VBE_DrawLine is d * n - c * m after d steps along the *)
(* longer side and c along the shorter (lineInv): that it stays in 0..m-1  *)
(* is what keeps the line straight.                                        *)
(*                                                                         *)
(* PictureIsRight rests on it.  The borders are upright or level lines, of *)
(* which the first m + 1 - cnt pixels are drawn (Stroke); picInv says for  *)
(* every step of GUI_Init what every pixel shows: the desktop, the windows *)
(* of the slots below i (Under), and the parts of window i drawn so far.   *)
(***************************************************************************)
EXTENDS Gui, TLAPS

\* A step along the longer side adds n to the error, and m is taken off again
\* for a pixel along the shorter one.
LEMMA ErrorStep ==
  ASSUME NEW k \in Int, NEW n \in Int, NEW m \in Int, NEW d \in Int, NEW c \in Int,
         ErrorIs(k, n, m, d, c)
  PROVE  ErrorIs(k + n, n, m, d + 1, c) /\ ErrorIs(k + n - m, n, m, d + 1, c + 1)
  BY DEF ErrorIs

\* A coordinate one step further on.
LEMMA Further ==
  ASSUME NEW x \in Int, NEW a \in Int, NEW d \in Int, NEW s \in Int,
         After(x, a, d, s)
  PROVE  After(x + s, a, d + 1, s)
  BY DEF After

\* A number is its sign times its size.
LEMMA SignTimesAbs ==
  ASSUME NEW v \in Int
  PROVE  v = abs(v) * Sign(v) /\ abs(v) \in Nat /\ Sign(v) \in -1 .. 1
BY DEF abs, Sign

\* What the locals of the loop are.
LEMMA LocalsFacts ==
  ASSUME NEW a \in Int \X Int, NEW b \in Int \X Int, NEW rgb \in Ink
  PROVE  LET l == Locals(a, b, rgb)
             sx == b[1] - a[1]
             sy == b[2] - a[2]
         IN /\ l \in LineType
            /\ l.m >= l.n /\ l.n >= 0
            /\ l.from = a /\ l.to = b /\ l.rgb = rgb
            /\ l.x = a[1] /\ l.y = a[2] /\ l.k = 0 /\ l.cnt = l.m + 1
            /\ l.dx1 = Sign(sx) /\ l.dy1 = Sign(sy)
            /\ Steep(a, b) => /\ l.m = abs(sy) /\ l.n = abs(sx)
                              /\ l.dx2 = 0 /\ l.dy2 = Sign(sy)
            /\ ~Steep(a, b) => /\ l.m = abs(sx) /\ l.n = abs(sy)
                               /\ l.dx2 = Sign(sx) /\ l.dy2 = 0
<1> DEFINE sx == b[1] - a[1]
           sy == b[2] - a[2]
<1>1. /\ sx \in Int /\ sy \in Int /\ abs(sx) \in Nat /\ abs(sy) \in Nat
      /\ Sign(sx) \in Int /\ Sign(sy) \in Int /\ a[1] \in Int /\ a[2] \in Int
  BY SignTimesAbs
<1>2. Steep(a, b) <=> abs(sx) < abs(sy)
  BY DEF Steep
<1>3. CASE Steep(a, b)
  <2>1. Locals(a, b, rgb) =
          [from |-> a, to |-> b, rgb |-> rgb, m |-> abs(sy), n |-> abs(sx),
           dx1 |-> Sign(sx), dy1 |-> Sign(sy), dx2 |-> 0, dy2 |-> Sign(sy),
           x |-> a[1], y |-> a[2], k |-> 0, cnt |-> abs(sy) + 1]
    BY <1>3 DEF Locals
  <2>2. Locals(a, b, rgb) \in LineType
    BY <1>1, <2>1 DEF LineType
  <2> QED  BY <1>1, <1>2, <1>3, <2>1, <2>2
<1>4. CASE ~Steep(a, b)
  <2>1. Locals(a, b, rgb) =
          [from |-> a, to |-> b, rgb |-> rgb, m |-> abs(sx), n |-> abs(sy),
           dx1 |-> Sign(sx), dy1 |-> Sign(sy), dx2 |-> Sign(sx), dy2 |-> 0,
           x |-> a[1], y |-> a[2], k |-> 0, cnt |-> abs(sx) + 1]
    BY <1>4 DEF Locals
  <2>2. Locals(a, b, rgb) \in LineType
    BY <1>1, <2>1 DEF LineType
  <2> QED  BY <1>1, <1>2, <1>4, <2>1, <2>2
<1> QED  BY <1>3, <1>4

\* A call of VBE_DrawLine starts at its first end point, without an error.
LEMMA StartsOnCourse ==
  ASSUME NEW a \in Int \X Int, NEW b \in Int \X Int, NEW rgb \in Ink,
         line' = Locals(a, b, rgb)
  PROVE  lineInv'
<1> DEFINE l == Locals(a, b, rgb)
<1>1. /\ l \in LineType /\ l.m >= 0 /\ l.m \in Int /\ l.n \in Int
      /\ l.from = a /\ l.to = b /\ l.rgb = rgb
      /\ l.x = a[1] /\ l.y = a[2] /\ l.k = 0 /\ l.cnt = l.m + 1
      /\ l.dx1 \in Int /\ l.dy1 \in Int
  BY LocalsFacts DEF LineType
<1>2. OnCourse(l, 0)
  <2>1. /\ ErrorIs(0, l.n, l.m, 0, 0)
        /\ After(a[1], a[1], 0, l.dx1) /\ After(a[2], a[2], 0, l.dy1)
    BY <1>1 DEF ErrorIs, After
  <2>2. l.m + 1 - l.cnt = 0
    BY <1>1
  <2> QED  BY <1>1, <2>1, <2>2 DEF OnCourse
<1>3. lineInv' <=> /\ l \in LineType
                   /\ Fixed(l) = Fixed(Locals(l.from, l.to, l.rgb))
                   /\ l.cnt \in 0 .. l.m + 1
                   /\ l.cnt > 0 => \E c \in Nat : OnCourse(l, c)
  BY DEF lineInv
<1> QED  BY <1>1, <1>2, <1>3

\* A turn of the loop assigns cnt, k, x and y only.
LEMMA LoopKeepsLocals ==
  ASSUME lineInv, LineStep
  PROVE  /\ line' \in LineType
         /\ Fixed(line') = Fixed(line)
         /\ line'.from = line.from /\ line'.to = line.to /\ line'.rgb = line.rgb
         /\ line'.cnt = line.cnt - 1
<1>1. line \in LineType
  BY DEF lineInv
<1>2. PICK k \in Int, x \in Int, y \in Int :
        line' = [line EXCEPT !.cnt = line.cnt - 1, !.k = k, !.x = x, !.y = y]
  <2> DEFINE e == line.k + line.n
             t == Diagonal(e, line.m)
             k == IF t THEN Carry(e, line.m) ELSE e
             x == line.x + (IF t THEN line.dx1 ELSE line.dx2)
             y == line.y + (IF t THEN line.dy1 ELSE line.dy2)
  <2>1. k \in Int /\ x \in Int /\ y \in Int
    BY <1>1 DEF LineType, Carry
  <2>2. line' = [line EXCEPT !.cnt = line.cnt - 1, !.k = k, !.x = x, !.y = y]
    BY DEF LineStep
  <2> QED  BY <2>1, <2>2
<1>3. /\ line'.m = line.m /\ line'.n = line.n
      /\ line'.dx1 = line.dx1 /\ line'.dy1 = line.dy1
      /\ line'.dx2 = line.dx2 /\ line'.dy2 = line.dy2
  BY <1>1, <1>2 DEF LineType
<1>4. /\ line'.from = line.from /\ line'.to = line.to /\ line'.rgb = line.rgb
      /\ line'.cnt = line.cnt - 1
  BY <1>1, <1>2 DEF LineType
<1>5. line' \in LineType
  <2>1. line.cnt - 1 \in Int
    BY <1>1 DEF LineType
  <2>2. [line EXCEPT !.cnt = line.cnt - 1] \in LineType
    BY <1>1, <2>1, Zenon DEF LineType
  <2>3. ASSUME NEW l \in LineType  PROVE [l EXCEPT !.k = k] \in LineType
    BY <1>2, Zenon DEF LineType
  <2>4. ASSUME NEW l \in LineType  PROVE [l EXCEPT !.x = x] \in LineType
    BY <1>2, Zenon DEF LineType
  <2>5. ASSUME NEW l \in LineType  PROVE [l EXCEPT !.y = y] \in LineType
    BY <1>2, Zenon DEF LineType
  <2> QED  BY <1>2, <2>2, <2>3, <2>4, <2>5
<1> QED  BY <1>3, <1>4, <1>5 DEF Fixed

\* One turn of the loop, with d pixels drawn before it.
LEMMA TurnOnCourse ==
  ASSUME lineInv, LineStep, NEW c \in Nat, OnCourse(line, c)
  PROVE  OnCourse(line', c) \/ OnCourse(line', c + 1)
<1> DEFINE d == line.m + 1 - line.cnt
           a == line.from
           b == line.to
<1>1. /\ line \in LineType /\ a \in Int \X Int /\ b \in Int \X Int
      /\ line.rgb \in Ink /\ d \in Int
      /\ line.k \in Int /\ line.n \in Int /\ line.m \in Int
      /\ line.x \in Int /\ line.y \in Int
      /\ line.dx1 \in Int /\ line.dy1 \in Int
  BY DEF lineInv, LineType
<1>2. a[1] \in Int /\ a[2] \in Int /\ c \in Int /\ c + 1 \in Int
  BY <1>1
<1>3. /\ line.m >= line.n /\ line.n >= 0
      /\ Steep(a, b) => line.dx2 = 0 /\ line.dy2 = line.dy1
      /\ ~Steep(a, b) => line.dx2 = line.dx1 /\ line.dy2 = 0
  <2> DEFINE l == Locals(a, b, line.rgb)
  <2>1. /\ line.m = l.m /\ line.n = l.n /\ line.dx1 = l.dx1 /\ line.dy1 = l.dy1
        /\ line.dx2 = l.dx2 /\ line.dy2 = l.dy2
    BY DEF lineInv, Fixed
  <2>2. /\ l.m >= l.n /\ l.n >= 0
        /\ Steep(a, b) => l.dx2 = 0 /\ l.dy2 = l.dy1
        /\ ~Steep(a, b) => l.dx2 = l.dx1 /\ l.dy2 = 0
    BY <1>1, LocalsFacts
  <2> HIDE DEF l
  <2> QED  BY <2>1, <2>2
<1>4. /\ line'.m = line.m /\ line'.n = line.n
      /\ line'.dx1 = line.dx1 /\ line'.dy1 = line.dy1
      /\ line'.from = a /\ line'.to = b
      /\ line'.m + 1 - line'.cnt = d + 1
  <2>1. /\ line'.m = line.m /\ line'.n = line.n
        /\ line'.dx1 = line.dx1 /\ line'.dy1 = line.dy1
    BY LoopKeepsLocals DEF Fixed
  <2>2. line'.m + 1 - line'.cnt = d + 1
    BY LoopKeepsLocals, <1>1, <2>1 DEF lineInv
  <2> QED  BY LoopKeepsLocals, <2>1, <2>2
<1>5. /\ ErrorIs(line.k, line.n, line.m, d, c) /\ line.k >= 0
      /\ line.m > 0 => line.k < line.m
      /\ Steep(a, b) => After(line.x, a[1], c, line.dx1) /\ After(line.y, a[2], d, line.dy1)
      /\ ~Steep(a, b) => After(line.x, a[1], d, line.dx1) /\ After(line.y, a[2], c, line.dy1)
  BY DEF OnCourse
<1> HIDE DEF d, a, b
<1>6. /\ ErrorIs(line.k + line.n, line.n, line.m, d + 1, c)
      /\ ErrorIs(line.k + line.n - line.m, line.n, line.m, d + 1, c + 1)
  BY <1>1, <1>2, <1>5, ErrorStep, Zenon
<1>7. /\ Steep(a, b) => /\ After(line.x + line.dx1, a[1], c + 1, line.dx1)
                        /\ After(line.y + line.dy1, a[2], d + 1, line.dy1)
      /\ ~Steep(a, b) => /\ After(line.x + line.dx1, a[1], d + 1, line.dx1)
                         /\ After(line.y + line.dy1, a[2], c + 1, line.dy1)
  BY <1>1, <1>2, <1>5, Further, Zenon
<1>8. CASE line.k + line.n < line.m
  <2>1. /\ line'.k = line.k + line.n
        /\ line'.x = line.x + line.dx2 /\ line'.y = line.y + line.dy2
    BY <1>1, <1>8 DEF LineStep, LineType, Diagonal, Carry
  <2>2. CASE Steep(a, b)
    <3>1. After(line'.y, a[2], d + 1, line.dy1) /\ After(line'.x, a[1], c, line.dx1)
      BY <1>1, <1>3, <1>5, <2>1, <2>2, <1>7
    <3> QED  BY <1>1, <1>3, <1>4, <1>5, <1>6, <1>8, <2>1, <2>2, <3>1 DEF OnCourse
  <2>3. CASE ~Steep(a, b)
    <3>1. After(line'.x, a[1], d + 1, line.dx1) /\ After(line'.y, a[2], c, line.dy1)
      BY <1>1, <1>3, <1>5, <2>1, <2>3, <1>7
    <3> QED  BY <1>1, <1>3, <1>4, <1>5, <1>6, <1>8, <2>1, <2>3, <3>1 DEF OnCourse
  <2> QED  BY <2>2, <2>3
<1>9. CASE ~(line.k + line.n < line.m)
  <2>1. /\ line'.k = line.k + line.n - line.m
        /\ line'.x = line.x + line.dx1 /\ line'.y = line.y + line.dy1
    BY <1>1, <1>9 DEF LineStep, LineType, Diagonal, Carry
  <2>2. line'.k >= 0 /\ (line.m > 0 => line'.k < line.m)
    BY <1>1, <1>3, <1>5, <1>9, <2>1
  <2>3. CASE Steep(a, b)
    <3>1. After(line'.y, a[2], d + 1, line.dy1) /\ After(line'.x, a[1], c + 1, line.dx1)
      BY <2>1, <2>3, <1>7
    <3> QED  BY <1>4, <1>6, <2>1, <2>2, <2>3, <3>1 DEF OnCourse
  <2>4. CASE ~Steep(a, b)
    <3>1. After(line'.x, a[1], d + 1, line.dx1) /\ After(line'.y, a[2], c + 1, line.dy1)
      BY <2>1, <2>4, <1>7
    <3> QED  BY <1>4, <1>6, <2>1, <2>2, <2>4, <3>1 DEF OnCourse
  <2> QED  BY <2>3, <2>4
<1> QED  BY <1>8, <1>9

\* Hence a turn of the loop preserves lineInv.
LEMMA StaysOnCourse ==
  ASSUME lineInv, LineStep
  PROVE  lineInv'
<1>1. line.cnt > 0 /\ line.cnt \in Int /\ line.m \in Int /\ line.cnt \in 0 .. line.m + 1
  BY DEF lineInv, LineType, LineStep
<1>2. PICK c \in Nat : OnCourse(line, c)
  BY <1>1 DEF lineInv
<1>3. \E e \in Nat : OnCourse(line', e)
  BY <1>2, TurnOnCourse
<1>4. Fixed(line') = Fixed(Locals(line'.from, line'.to, line'.rgb))
  BY LoopKeepsLocals DEF lineInv
<1>5. line'.m = line.m
  BY LoopKeepsLocals DEF Fixed
<1>6. line'.cnt \in 0 .. line'.m + 1
  BY <1>1, <1>5, LoopKeepsLocals
<1> QED  BY <1>3, <1>4, <1>6, LoopKeepsLocals DEF lineInv

-----------------------------------------------------------------------------
(* From the error term to the geometry.                                    *)

\* An error below m at the end of the longer side means the end of the shorter.
LEMMA NoErrorAtEnd ==
  ASSUME NEW m \in Int, NEW n \in Int, NEW c \in Int, m > 0,
         m * n - c * m >= 0, m * n - c * m < m
  PROVE  c = n
<1>1. m * n - c * m = m * (n - c)
  OBVIOUS
<1>2. CASE n - c >= 1
  <2>1. m * (n - c) >= m * 1
    BY <1>2
  <2> QED  BY <1>1, <2>1
<1>3. CASE n - c <= -1
  <2>1. m * (n - c) <= m * (-1)
    BY <1>3
  <2> QED  BY <1>1, <2>1
<1> QED  BY <1>2, <1>3

\* The distance from the ideal line is the error, up to its sign.
LEMMA ErrorIsDistance ==
  ASSUME NEW d \in Int, NEW c \in Int, NEW n \in Int, NEW m \in Int,
         NEW s \in -1 .. 1, NEW t \in -1 .. 1, NEW k \in Int,
         ErrorIs(k, n, m, d, c), k >= 0, k < m
  PROVE  /\ abs((d * s) * (n * t) - (c * t) * (m * s)) < m
         /\ abs((c * t) * (m * s) - (d * s) * (n * t)) < m
<1>1. /\ 1 * (d * n - c * m) = k /\ -1 * (d * n - c * m) = -k
      /\ 0 * (d * n - c * m) = 0
  BY DEF ErrorIs
<1>2. (d * s) * (n * t) - (c * t) * (m * s) = (s * t) * (d * n - c * m)
  BY SMTT(30)
<1>3. (s * t) \in {-1, 0, 1}
  OBVIOUS
<1>4. (d * s) * (n * t) - (c * t) * (m * s) \in {k, -k, 0}
  BY <1>1, <1>2, <1>3
<1>5. (c * t) * (m * s) - (d * s) * (n * t) = -((d * s) * (n * t) - (c * t) * (m * s))
  OBVIOUS
<1> QED  BY <1>4, <1>5 DEF abs

\* A line that is longer in x, d steps on.
LEMMA FlatLine ==
  ASSUME NEW sx \in Int, NEW sy \in Int, NEW ex \in Int, NEW ey \in Int,
         NEW d \in Int, NEW c \in Int, NEW k \in Int,
         abs(sx) >= abs(sy),
         ErrorIs(k, abs(sy), abs(sx), d, c), k >= 0, abs(sx) > 0 => k < abs(sx),
         ex = d * Sign(sx), ey = c * Sign(sy)
  PROVE  /\ abs(sx) > 0 => abs(ex * sy - ey * sx) < abs(sx)
         /\ d = abs(sx) => ex = sx /\ ey = sy
<1>1. /\ sx = abs(sx) * Sign(sx) /\ abs(sx) \in Int /\ Sign(sx) \in -1 .. 1
      /\ sy = abs(sy) * Sign(sy) /\ abs(sy) \in Int /\ Sign(sy) \in -1 .. 1
  BY SignTimesAbs
<1>2. abs(sx) > 0 => abs(ex * sy - ey * sx) < abs(sx)
  <2> SUFFICES ASSUME abs(sx) > 0  PROVE abs(ex * sy - ey * sx) < abs(sx)
    OBVIOUS
  <2>1. abs((d * Sign(sx)) * (abs(sy) * Sign(sy)) - (c * Sign(sy)) * (abs(sx) * Sign(sx)))
          < abs(sx)
    BY <1>1, ErrorIsDistance
  <2> QED  BY <1>1, <2>1
<1>3. ASSUME d = abs(sx)  PROVE ex = sx /\ ey = sy
  <2>1. CASE abs(sx) > 0
    <3>1. c = abs(sy)
      <4>1. k = abs(sx) * abs(sy) - c * abs(sx)
        BY <1>3 DEF ErrorIs
      <4> QED  BY <1>1, <2>1, <4>1, NoErrorAtEnd
    <3> QED  BY <1>1, <1>3, <3>1
  <2>2. CASE ~(abs(sx) > 0)
    BY <1>1, <1>3, <2>2 DEF abs, Sign
  <2> QED  BY <2>1, <2>2
<1> QED  BY <1>2, <1>3

\* A line that is longer in y, d steps on.
LEMMA SteepLine ==
  ASSUME NEW sx \in Int, NEW sy \in Int, NEW ex \in Int, NEW ey \in Int,
         NEW d \in Int, NEW c \in Int, NEW k \in Int,
         abs(sx) < abs(sy),
         ErrorIs(k, abs(sx), abs(sy), d, c), k >= 0, abs(sy) > 0 => k < abs(sy),
         ex = c * Sign(sx), ey = d * Sign(sy)
  PROVE  /\ abs(ex * sy - ey * sx) < abs(sy)
         /\ d = abs(sy) => ex = sx /\ ey = sy
<1>1. /\ sx = abs(sx) * Sign(sx) /\ abs(sx) \in Int /\ Sign(sx) \in -1 .. 1
      /\ sy = abs(sy) * Sign(sy) /\ abs(sy) \in Int /\ Sign(sy) \in -1 .. 1
      /\ abs(sy) > 0
  BY SignTimesAbs
<1>2. abs(ex * sy - ey * sx) < abs(sy)
  <2>1. abs((c * Sign(sx)) * (abs(sy) * Sign(sy)) - (d * Sign(sy)) * (abs(sx) * Sign(sx)))
          < abs(sy)
    BY <1>1, ErrorIsDistance
  <2> QED  BY <1>1, <2>1
<1>3. ASSUME d = abs(sy)  PROVE ex = sx /\ ey = sy
  <2>1. k = abs(sy) * abs(sx) - c * abs(sy)
    BY <1>3 DEF ErrorIs
  <2>2. c = abs(sx)
    BY <1>1, <2>1, NoErrorAtEnd
  <2> QED  BY <1>1, <1>3, <2>2
<1> QED  BY <1>2, <1>3

\* A line on its course is straight.
LEMMA CourseIsStraight == lineInv => LineIsStraight
<1> SUFFICES ASSUME lineInv, line.cnt > 0  PROVE LineIsStraight
  BY DEF LineIsStraight
<1> DEFINE a == line.from
           b == line.to
           sx == b[1] - a[1]
           sy == b[2] - a[2]
           ex == line.x - a[1]
           ey == line.y - a[2]
           d == line.m + 1 - line.cnt
<1>1. PICK c \in Nat : OnCourse(line, c)
  BY DEF lineInv
<1>2. /\ a \in Int \X Int /\ b \in Int \X Int /\ line.rgb \in Ink
      /\ line.x \in Int /\ line.y \in Int /\ line.k \in Int
      /\ line.m \in Int /\ line.cnt \in Int /\ line.cnt \in 0 .. line.m + 1
  BY DEF lineInv, LineType
<1>3. /\ sx \in Int /\ sy \in Int /\ ex \in Int /\ ey \in Int /\ d \in Int /\ c \in Int
      /\ a[1] \in Int /\ a[2] \in Int /\ b[1] \in Int /\ b[2] \in Int
      /\ line.cnt = 1 => d = line.m
  BY <1>2
<1>4. /\ line.dx1 = Sign(sx) /\ line.dy1 = Sign(sy)
      /\ Steep(a, b) => line.m = abs(sy) /\ line.n = abs(sx)
      /\ ~Steep(a, b) => line.m = abs(sx) /\ line.n = abs(sy)
  <2> DEFINE l == Locals(a, b, line.rgb)
  <2>1. /\ line.m = l.m /\ line.n = l.n /\ line.dx1 = l.dx1 /\ line.dy1 = l.dy1
    BY DEF lineInv, Fixed
  <2>2. /\ l.dx1 = Sign(sx) /\ l.dy1 = Sign(sy)
        /\ Steep(a, b) => l.m = abs(sy) /\ l.n = abs(sx)
        /\ ~Steep(a, b) => l.m = abs(sx) /\ l.n = abs(sy)
    BY <1>2, LocalsFacts
  <2> HIDE DEF l
  <2> QED  BY <2>1, <2>2
<1>5. Steep(a, b) <=> abs(sx) < abs(sy)
  BY DEF Steep
<1>6. abs(sx) \in Nat /\ abs(sy) \in Nat
  BY <1>3, SignTimesAbs
<1>7. /\ ErrorIs(line.k, line.n, line.m, d, c) /\ line.k >= 0
      /\ line.m > 0 => line.k < line.m
      /\ Steep(a, b) => /\ After(line.x, a[1], c, line.dx1)
                        /\ After(line.y, a[2], d, line.dy1)
      /\ ~Steep(a, b) => /\ After(line.x, a[1], d, line.dx1)
                         /\ After(line.y, a[2], c, line.dy1)
  BY <1>1 DEF OnCourse
<1>8. line.cnt = 1 /\ ex = sx /\ ey = sy => <<line.x, line.y>> = b
  BY <1>2, <1>3
<1>9. LineIsStraight <=>
         /\ abs(sx) >= abs(sy) => ex = d * Sign(sx)
         /\ abs(sx) < abs(sy) => ey = d * Sign(sy)
         /\ line.m > 0 => abs(ex * sy - ey * sx) < line.m
         /\ line.cnt = 1 => <<line.x, line.y>> = b
  BY DEF LineIsStraight
<1>10. CASE ~Steep(a, b)
  <2>1. ex = d * Sign(sx) /\ ey = c * Sign(sy)
    <3>1. /\ After(line.x, a[1], d, Sign(sx)) /\ After(line.y, a[2], c, Sign(sy))
      BY <1>4, <1>7, <1>10
    <3>2. Sign(sx) \in Int /\ Sign(sy) \in Int
      BY <1>3, SignTimesAbs
    <3> HIDE DEF sx, sy, d
    <3> QED  BY <1>2, <1>3, <3>1, <3>2 DEF After
  <2> HIDE DEF sx, sy, ex, ey, d
  <2>2. abs(sx) >= abs(sy)
    BY <1>5, <1>6, <1>10
  <2>3. /\ abs(sx) > 0 => abs(ex * sy - ey * sx) < abs(sx)
        /\ d = abs(sx) => ex = sx /\ ey = sy
    <3> DEFINE k == line.k
    <3>1. /\ sx \in Int /\ sy \in Int /\ ex \in Int /\ ey \in Int
          /\ d \in Int /\ c \in Int /\ k \in Int
          /\ abs(sx) >= abs(sy)
          /\ ErrorIs(k, abs(sy), abs(sx), d, c) /\ k >= 0
          /\ abs(sx) > 0 => k < abs(sx)
          /\ ex = d * Sign(sx) /\ ey = c * Sign(sy)
      BY <1>2, <1>3, <1>4, <1>7, <1>10, <2>1, <2>2
    <3> HIDE DEF k
    <3> QED  BY <3>1, FlatLine
  <2> QED  BY <1>3, <1>4, <1>6, <1>8, <1>9, <1>10, <2>1, <2>2, <2>3
<1>11. CASE Steep(a, b)
  <2>1. ex = c * Sign(sx) /\ ey = d * Sign(sy)
    <3>1. /\ After(line.x, a[1], c, Sign(sx)) /\ After(line.y, a[2], d, Sign(sy))
      BY <1>4, <1>7, <1>11
    <3>2. Sign(sx) \in Int /\ Sign(sy) \in Int
      BY <1>3, SignTimesAbs
    <3> HIDE DEF sx, sy, d
    <3> QED  BY <1>2, <1>3, <3>1, <3>2 DEF After
  <2> HIDE DEF sx, sy, ex, ey, d
  <2>2. abs(sx) < abs(sy)
    BY <1>5, <1>11
  <2>3. /\ abs(ex * sy - ey * sx) < abs(sy)
        /\ d = abs(sy) => ex = sx /\ ey = sy
    <3> DEFINE k == line.k
    <3>1. /\ sx \in Int /\ sy \in Int /\ ex \in Int /\ ey \in Int
          /\ d \in Int /\ c \in Int /\ k \in Int
          /\ abs(sx) < abs(sy)
          /\ ErrorIs(k, abs(sx), abs(sy), d, c) /\ k >= 0
          /\ abs(sy) > 0 => k < abs(sy)
          /\ ex = c * Sign(sx) /\ ey = d * Sign(sy)
      BY <1>2, <1>3, <1>4, <1>7, <1>11, <2>1, <2>2
    <3> HIDE DEF k
    <3> QED  BY <3>1, SteepLine
  <2> QED  BY <1>3, <1>4, <1>6, <1>8, <1>9, <1>11, <2>1, <2>2, <2>3
<1> QED  BY <1>10, <1>11

-----------------------------------------------------------------------------
(* The specification.                                                      *)

\* Every entry of the table has numbers for its corners, and a step that draws
\* window i has an i below MAX_WINDOWS.
tableInv ==
  /\ window \in [Slots -> [id : Int, x : Int, y : Int, w : Int, h : Int,
                           active : BOOLEAN]]
  /\ id \in Int
  /\ i \in 0 .. MAX_WINDOWS
  /\ pc \in {"main", "title", "left", "right", "bottom"} => i \in Slots

guiInv == lineInv /\ tableInv

\* Before GUI_Init no line is being drawn and the table is empty.
LEMMA InitHolds == guiInit => guiInv
<1> SUFFICES ASSUME guiInit  PROVE guiInv
  OBVIOUS
<1>1. lineInv
  <2> DEFINE l == Locals(<<0, 0>>, <<0, 0>>, "line")
  <2>1. /\ l \in LineType /\ l.from = <<0, 0>> /\ l.to = <<0, 0>> /\ l.rgb = "line"
        /\ l.m \in Int /\ l.m >= 0
    <3> DEFINE o == <<0, 0>>
               rgb == "line"
    <3>1. o \in Int \X Int /\ rgb \in Ink /\ l = Locals(o, o, rgb)
      BY DEF Ink
    <3> HIDE DEF o, rgb, l
    <3>2. /\ l \in LineType /\ l.from = o /\ l.to = o /\ l.rgb = rgb
          /\ l.m >= l.n /\ l.n >= 0
      BY <3>1, LocalsFacts
    <3>3. l.m \in Int /\ l.n \in Int
      BY <3>2 DEF LineType
    <3> QED  BY <3>2, <3>3 DEF o, rgb
  <2>2. line = [l EXCEPT !.cnt = 0]
    BY DEF guiInit
  <2> HIDE DEF l
  <2>3. /\ line.from = l.from /\ line.to = l.to /\ line.rgb = l.rgb /\ line.m = l.m
        /\ line.cnt = 0 /\ Fixed(line) = Fixed(l)
    BY <2>1, <2>2 DEF LineType, Fixed
  <2>4. line \in LineType
    BY <2>1, <2>2 DEF LineType
  <2>5. l = Locals(l.from, l.to, l.rgb)
    BY <2>1 DEF l
  <2> QED  BY <2>1, <2>3, <2>4, <2>5 DEF lineInv
<1>2. tableInv
  BY GuiAssumption DEF guiInit, tableInv, Slots, Unused
<1> QED  BY <1>1, <1>2 DEF guiInv

\* GUI_CreateWindow leaves a table of windows.
LEMMA WithWindowTyped ==
  ASSUME tableInv, NEW g \in Geometries
  PROVE  WithWindow(window, g, id) \in
           [Slots -> [id : Int, x : Int, y : Int, w : Int, h : Int, active : BOOLEAN]]
<1> DEFINE R == [id : Int, x : Int, y : Int, w : Int, h : Int, active : BOOLEAN]
           others == [t \in Slots |-> [window[t] EXCEPT !.active = FALSE]]
           new == [id |-> id, x |-> g.x, y |-> g.y, w |-> g.w, h |-> g.h, active |-> TRUE]
<1>1. new \in R
  BY GuiAssumption, ResolutionAssumption DEF tableInv
<1>2. others \in [Slots -> R]
  BY DEF tableInv
<1>3. WithWindow(window, g, id) = [others EXCEPT ![Min(Free(window))] = new]
  BY DEF WithWindow
<1> HIDE DEF R, others, new
<1>4. [others EXCEPT ![Min(Free(window))] = new] \in [Slots -> R]
  BY <1>1, <1>2
<1> QED  BY <1>3, <1>4 DEF R

\* The borders of a window are lines between its corners.
LEMMA BordersStartOnCourse ==
  ASSUME guiInv, Borders
  PROVE  guiInv'
<1>1. W.x \in Int /\ W.y \in Int /\ W.w \in Int /\ W.h \in Int /\ TitleHeight \in Int
      /\ i \in Slots
  BY GuiAssumption DEF guiInv, tableInv, Borders, Border, At, W
<1>2. PICK a \in Int \X Int, b \in Int \X Int : line' = Locals(a, b, "border")
  <2>1. /\ <<W.x, W.y + TitleHeight>> \in Int \X Int /\ <<W.x, W.h>> \in Int \X Int
        /\ <<W.w - 1, W.y + TitleHeight>> \in Int \X Int
        /\ <<W.w - 1, W.h>> \in Int \X Int
    BY <1>1
  <2> QED  BY <2>1 DEF Borders, Border, VBE_DrawLine
<1>3. lineInv'
  <2> DEFINE rgb == "border"
  <2>1. rgb \in Ink /\ line' = Locals(a, b, rgb)
    BY <1>2 DEF Ink
  <2> HIDE DEF rgb
  <2> QED  BY <2>1, StartsOnCourse
<1>4. tableInv'
  <2>1. /\ window' = window /\ id' = id /\ pc' \in {"right", "bottom", "window"}
        /\ i' \in 0 .. MAX_WINDOWS /\ (i' = i \/ pc' = "window")
    BY <1>1, GuiAssumption DEF Borders, Border, Go, Slots
  <2> QED  BY <1>1, <2>1 DEF guiInv, tableInv
<1> QED  BY <1>3, <1>4 DEF guiInv

\* Only VBE_DrawLine and its loop touch the locals of the line.
LEMMA StepHolds == guiInv /\ [guiNext]_guiVars => guiInv'
<1> SUFFICES ASSUME guiInv, [guiNext]_guiVars  PROVE guiInv'
  OBVIOUS
<1>1. ASSUME UNCHANGED line  PROVE lineInv'
  BY <1>1 DEF guiInv, lineInv
<1>2. CASE ClientLine
  <2>1. ClientPoints \subseteq Int \X Int
    BY GuiAssumption, ResolutionAssumption DEF Points
  <2>2. PICK a \in Int \X Int, b \in Int \X Int : line' = Locals(a, b, "line")
    BY <1>2, <2>1 DEF ClientLine, VBE_DrawLine
  <2>3. lineInv'
    <3> DEFINE rgb == "line"
    <3>1. rgb \in Ink /\ line' = Locals(a, b, rgb)
      BY <2>2 DEF Ink
    <3> HIDE DEF rgb
    <3> QED  BY <3>1, StartsOnCourse
  <2> QED  BY <1>2, <2>3 DEF guiInv, tableInv, ClientLine, Go
<1>3. CASE ClearTable
  <2>1. tableInv'
    BY <1>3 DEF guiInv, tableInv, ClearTable, Go
  <2> QED  BY <1>1, <1>3, <2>1 DEF guiInv, ClearTable
<1>4. CASE Create("first", "second") \/ Create("second", "desktop")
  <2>1. PICK g \in Geometries : window' = WithWindow(window, g, id) /\ id' = id + 1
    BY <1>4 DEF Create, GUI_CreateWindow
  <2>2. tableInv'
    BY <1>4, <2>1, WithWindowTyped DEF guiInv, tableInv, Create, Go
  <2> QED  BY <1>1, <1>4, <2>2 DEF guiInv, Create
<1>5. CASE GUI_DrawDesktop \/ GUI_DrawTaskBar \/ GUI_DrawMouse \/ Again
  <2>1. tableInv'
    BY <1>5, GuiAssumption
    DEF guiInv, tableInv, GUI_DrawDesktop, GUI_DrawTaskBar, GUI_DrawMouse, Again, Go
  <2> QED  BY <1>1, <1>5, <2>1
           DEF guiInv, GUI_DrawDesktop, GUI_DrawTaskBar, GUI_DrawMouse, Again
<1>6. CASE NextWindow
  <2>1. /\ window' = window /\ id' = id
        /\ \/ pc' = "mouse" /\ i' = i
           \/ pc' = pc /\ pc = "window" /\ i < MAX_WINDOWS /\ i' = i + 1
           \/ pc' = "main" /\ i < MAX_WINDOWS /\ i' = i
    BY <1>6 DEF NextWindow, At, Go
  <2>2. MAX_WINDOWS \in Int /\ i \in 0 .. MAX_WINDOWS
    BY GuiAssumption DEF guiInv, tableInv
  <2>3. /\ i' \in 0 .. MAX_WINDOWS
        /\ pc' \in {"main", "title", "left", "right", "bottom"} => i' \in Slots
    BY <2>1, <2>2 DEF Slots
  <2>4. tableInv'
    BY <2>1, <2>3 DEF guiInv, tableInv, Slots
  <2> QED  BY <1>1, <1>6, <2>4 DEF guiInv, NextWindow
<1>7. CASE MainWindow \/ TitleBar
  <2>1. tableInv'
    BY <1>7 DEF guiInv, tableInv, MainWindow, TitleBar, At, Go
  <2> QED  BY <1>1, <1>7, <2>1 DEF guiInv, MainWindow, TitleBar
<1>8. CASE Borders
  BY <1>8, BordersStartOnCourse
<1>9. CASE Drawing
  BY <1>9, StaysOnCourse DEF guiInv, tableInv, Drawing
<1>10. CASE UNCHANGED guiVars
  BY <1>1, <1>10 DEF guiInv, tableInv, guiVars
<1> QED  BY <1>2, <1>3, <1>4, <1>5, <1>6, <1>7, <1>8, <1>9, <1>10 DEF guiNext

\* Every line that is drawn is as long as its longer side, less than a pixel
\* from the ideal one and ends at its end point, for every resolution, all
\* windows and all end points (VBE_DrawLine).
THEOREM LinesAreStraight == guiSpec => []LineIsStraight
<1>1. guiSpec => []guiInv
  BY InitHolds, StepHolds, PTL DEF guiSpec
<1>2. guiInv => LineIsStraight
  BY CourseIsStraight DEF guiInv
<1> QED  BY <1>1, <1>2, PTL

-----------------------------------------------------------------------------
(* The picture.  After every step of a turn the frame buffer is the desktop *)
(* with the windows below i, and with as much of window i as is drawn.      *)

Columns == 0 .. Width - 1
Rows == 0 .. Height - 1

Pixel(px, py) == fb[py * Width + px]

\* The windows of the slots below k, on the desktop.
Above(t, k, px, py) == {s \in Slots : s < k /\ Covers(t[s], px, py)}

Under(t, latest, k, px, py) ==
  IF Above(t, k, px, py) # {} THEN WindowColor(t[Max(Above(t, k, px, py))], latest, px, py)
  ELSE IF py < TaskBarHeight THEN "taskbar" ELSE "desktop"

\* The same with the first one, two, three and four parts of window k.
Body(t, latest, k, px, py) ==
  IF px \in t[k].x .. t[k].w - 1 /\ py \in t[k].y .. t[k].h - 1 THEN "body"
  ELSE Under(t, latest, k, px, py)

Titled(t, latest, k, px, py) ==
  IF px \in t[k].x .. t[k].w - 1 /\ py \in t[k].y .. (t[k].y + TitleHeight) - 1
  THEN TitleColor(t[k].active) ELSE Body(t, latest, k, px, py)

LeftDone(t, latest, k, px, py) ==
  IF px = t[k].x /\ py \in t[k].y + TitleHeight .. t[k].h THEN "border"
  ELSE Titled(t, latest, k, px, py)

RightDone(t, latest, k, px, py) ==
  IF px = t[k].w - 1 /\ py \in t[k].y + TitleHeight .. t[k].h THEN "border"
  ELSE LeftDone(t, latest, k, px, py)

\* The pixels of an upright or level line that are drawn.
Stroke(l, px, py) ==
  /\ px \in l.from[1] .. l.to[1] /\ py \in l.from[2] .. l.to[2]
  /\ (px - l.from[1]) + (py - l.from[2]) < l.m + 1 - l.cnt

IsBorder(l, a, b) == l.from = a /\ l.to = b /\ l.rgb = "border"

Fits(w) ==
  /\ 0 <= w.x /\ w.x < w.w /\ w.w <= Width
  /\ 0 <= w.y /\ w.y + TitleHeight <= w.h /\ w.h < Height

Steps == {"start", "called", "first", "second", "desktop", "taskbar", "window",
          "main", "title", "left", "right", "bottom", "mouse", "shown"}

WindowType == [id : 0 .. 2, x : 0 .. Width, y : 0 .. Height,
               w : 0 .. Width, h : 0 .. Height, active : BOOLEAN]

\* The windows are on the screen and the latest is the active one.
windowsInv ==
  /\ pc \in Steps
  /\ pc \in {"start", "called", "first"} => id = 1
  /\ pc = "second" => id = 2
  /\ id \in 1 .. 3
  /\ window \in [Slots -> WindowType]
  /\ \A s \in Slots :
       /\ window[s].id < id
       /\ window[s].id # 0 =>
            Fits(window[s]) /\ (window[s].active <=> window[s].id = id - 1)
  /\ pc \in {"main", "title", "left", "right", "bottom"} => i \in Slots /\ window[i].id # 0

\* The line that GUI_DrawWindows drew last and may still be drawing.
borderInv ==
  /\ line.cnt > 0 => pc \in {"called", "right", "bottom", "window"}
  /\ pc = "right" =>
       IsBorder(line, <<W.x, W.y + TitleHeight>>, <<W.x, W.h>>)
  /\ pc = "bottom" =>
       IsBorder(line, <<W.w - 1, W.y + TitleHeight>>, <<W.w - 1, W.h>>)
  /\ pc = "window" /\ line.cnt > 0 =>
       /\ i - 1 \in Slots /\ window[i - 1].id # 0
       /\ IsBorder(line, <<window[i - 1].x, window[i - 1].h>>,
                         <<window[i - 1].w - 1, window[i - 1].h>>)

Painted(px, py) ==
  /\ pc = "taskbar" => Pixel(px, py) = "desktop"
  /\ pc = "window" /\ line.cnt = 0 => Pixel(px, py) = Under(window, id - 1, i, px, py)
  /\ pc = "main" => Pixel(px, py) = Under(window, id - 1, i, px, py)
  /\ pc = "title" => Pixel(px, py) = Body(window, id - 1, i, px, py)
  /\ pc = "left" => Pixel(px, py) = Titled(window, id - 1, i, px, py)
  /\ pc = "right" =>
       Pixel(px, py) = IF Stroke(line, px, py) THEN "border"
                       ELSE Titled(window, id - 1, i, px, py)
  /\ pc = "bottom" =>
       Pixel(px, py) = IF Stroke(line, px, py) THEN "border"
                       ELSE LeftDone(window, id - 1, i, px, py)
  /\ pc = "window" /\ line.cnt > 0 =>
       Pixel(px, py) = IF Stroke(line, px, py) THEN "border"
                       ELSE RightDone(window, id - 1, i - 1, px, py)
  /\ pc = "mouse" => Pixel(px, py) = Under(window, id - 1, MAX_WINDOWS, px, py)
  /\ pc = "shown" => Pixel(px, py) = Seen(px, py)

paintInv == \A px \in Columns, py \in Rows : Painted(px, py)

bufferInv ==
  /\ fb \in [Pixels -> Colors]
  /\ line.k \in 0 .. line.m

picInv == guiInv /\ windowsInv /\ borderInv /\ paintInv /\ bufferInv

-----------------------------------------------------------------------------
(* Pixels and points.                                                      *)

\* Division by the width has one answer.
LEMMA DivUnique ==
  ASSUME NEW w \in Int, w > 0, NEW q \in Int, NEW r \in Int, NEW y \in Int, NEW x \in Int,
         w * q + r = w * y + x, r >= 0, r < w, x >= 0, x < w
  PROVE  q = y /\ r = x
<1>1. w * (q - y) = x - r
  OBVIOUS
<1>2. CASE q - y >= 1
  <2>1. w * (q - y) >= w * 1
    BY <1>2
  <2> QED  BY <1>1, <2>1
<1>3. CASE q - y <= -1
  <2>1. w * (q - y) <= w * (-1)
    BY <1>3
  <2> QED  BY <1>1, <2>1
<1> QED  BY <1>1, <1>2, <1>3

\* What the division does to the address of a pixel.
LEMMA Division ==
  ASSUME NEW w \in Int, w > 0, NEW p \in Int, p >= 0
  PROVE  p = w * (p \div w) + (p % w) /\ (p \div w) \in Int /\ (p % w) \in 0 .. w - 1
OBVIOUS

\* Every point of the screen has a pixel in the frame buffer.
LEMMA AddressInside ==
  ASSUME NEW w \in Int, w > 0, NEW h \in Int, h > 0, NEW x \in 0 .. w - 1, NEW y \in 0 .. h - 1
  PROVE  y * w + x \in 0 .. w * h - 1
<1>1. y * w >= 0 /\ y * w <= (h - 1) * w /\ (h - 1) * w = w * h - w
  OBVIOUS
<1> QED  BY <1>1

\* The pixel of a point, and the point of that pixel.
LEMMA PixelOfPoint ==
  ASSUME NEW px \in Columns, NEW py \in Rows
  PROVE  /\ py * Width + px \in Pixels
         /\ (py * Width + px) % Width = px
         /\ (py * Width + px) \div Width = py
<1>1. /\ Width \in Int /\ Width > 0 /\ Height \in Int /\ Height > 0
      /\ px \in 0 .. Width - 1 /\ py \in 0 .. Height - 1
  BY ResolutionAssumption DEF Columns, Rows
<1> DEFINE p == py * Width + px
<1>2. p \in 0 .. Width * Height - 1
  BY <1>1, AddressInside
<1>3. p \in Int /\ p >= 0 /\ p = Width * py + px
  BY <1>1, <1>2
<1>4. /\ p = Width * (p \div Width) + (p % Width)
      /\ (p \div Width) \in Int /\ (p % Width) \in 0 .. Width - 1
  <2> HIDE DEF p
  <2> QED  BY <1>1, <1>3, Division
<1>5. py = p \div Width /\ px = p % Width
  <2> DEFINE q == p \div Width
             r == p % Width
  <2>1. /\ q \in Int /\ r \in Int /\ r >= 0 /\ r < Width
        /\ Width * q + r = Width * py + px
    BY <1>1, <1>3, <1>4
  <2> HIDE DEF p, q, r
  <2>2. /\ py \in Int /\ px \in Int /\ px >= 0 /\ px < Width
    BY <1>1
  <2>3. q = py /\ r = px
    BY <1>1, <2>1, <2>2, DivUnique
  <2> QED  BY <2>3 DEF q, r
<1> QED  BY <1>2, <1>5 DEF Pixels

\* Two points do not share a pixel.
LEMMA PixelsDiffer ==
  ASSUME NEW px \in Columns, NEW py \in Rows, NEW x \in Columns, NEW y \in Rows,
         py * Width + px = y * Width + x
  PROVE  px = x /\ py = y
BY PixelOfPoint

\* A rectangle paints the points inside it and leaves the others.
LEMMA RectPaints ==
  ASSUME NEW px \in Columns, NEW py \in Rows,
         NEW x, NEW y, NEW x2, NEW y2, NEW rgb, VBE_DrawRect(x, y, x2, y2, rgb)
  PROVE  Pixel(px, py)' =
           IF px \in x .. x2 - 1 /\ py \in y .. y2 - 1 THEN rgb ELSE Pixel(px, py)
<1> DEFINE p == py * Width + px
<1>1. p \in Pixels /\ p % Width = px /\ p \div Width = py
  BY PixelOfPoint
<1>2. fb' = [q \in Pixels |-> IF /\ (q % Width) \in x .. x2 - 1
                               /\ (q \div Width) \in y .. y2 - 1
                            THEN rgb ELSE fb[q]]
  BY DEF VBE_DrawRect, Filled
<1>3. Pixel(px, py) = fb[p] /\ Pixel(px, py)' = fb'[p]
  BY DEF Pixel
<1> HIDE DEF p
<1>4. fb'[p] = IF (p % Width) \in x .. x2 - 1 /\ (p \div Width) \in y .. y2 - 1
               THEN rgb ELSE fb[p]
  BY <1>1, <1>2, Zenon
<1> QED  BY <1>1, <1>3, <1>4, Zenon

\* A turn of the loop of a line paints one point.
LEMMA LinePaints ==
  ASSUME NEW px \in Columns, NEW py \in Rows, fb \in [Pixels -> Colors],
         line.x \in Columns, line.y \in Rows, LineStep
  PROVE  Pixel(px, py)' =
           IF px = line.x /\ py = line.y THEN line.rgb ELSE Pixel(px, py)
<1> DEFINE p == py * Width + px
           q == line.y * Width + line.x
<1>1. p \in Pixels /\ q \in Pixels
  BY PixelOfPoint
<1>2. fb' = [fb EXCEPT ![q] = line.rgb]
  BY DEF LineStep, VBE_DrawPixel
<1>3. p = q <=> px = line.x /\ py = line.y
  BY PixelsDiffer
<1>4. Pixel(px, py) = fb[p] /\ Pixel(px, py)' = fb'[p]
  BY DEF Pixel
<1> HIDE DEF p, q
<1>5. fb'[p] = IF p = q THEN line.rgb ELSE fb[p]
  BY <1>1, <1>2
<1> QED  BY <1>3, <1>4, <1>5

-----------------------------------------------------------------------------
(* Upright and level lines.                                                *)

Straight(l) ==
  /\ l.from[1] <= l.to[1] /\ l.from[2] <= l.to[2]
  /\ l.from[1] = l.to[1] \/ l.from[2] = l.to[2]

\* The pixel about to be drawn is the next one between the end points.
LEMMA NextOfStroke ==
  ASSUME lineInv, Straight(line), line.cnt > 0
  PROVE  /\ line.x \in line.from[1] .. line.to[1] /\ line.y \in line.from[2] .. line.to[2]
         /\ (line.x - line.from[1]) + (line.y - line.from[2]) = line.m + 1 - line.cnt
<1> DEFINE a == line.from
           b == line.to
           sx == b[1] - a[1]
           sy == b[2] - a[2]
           d == line.m + 1 - line.cnt
<1>1. PICK c \in Nat : OnCourse(line, c)
  BY DEF lineInv
<1>2. /\ a \in Int \X Int /\ b \in Int \X Int /\ line.rgb \in Ink
      /\ line.x \in Int /\ line.y \in Int /\ line.m \in Int /\ line.cnt \in Int
      /\ line.cnt \in 0 .. line.m + 1
  BY DEF lineInv, LineType
<1>3. /\ a[1] \in Int /\ a[2] \in Int /\ b[1] \in Int /\ b[2] \in Int
      /\ sx \in Int /\ sy \in Int /\ d \in Int /\ d >= 0 /\ d <= line.m
      /\ sx >= 0 /\ sy >= 0 /\ (sx = 0 \/ sy = 0)
  BY <1>2 DEF Straight
<1>4. /\ line.dx1 = Sign(sx) /\ line.dy1 = Sign(sy)
      /\ Steep(a, b) => line.m = abs(sy)
      /\ ~Steep(a, b) => line.m = abs(sx)
  <2> DEFINE l == Locals(a, b, line.rgb)
  <2>1. line.m = l.m /\ line.dx1 = l.dx1 /\ line.dy1 = l.dy1
    BY DEF lineInv, Fixed
  <2>2. /\ l.dx1 = Sign(sx) /\ l.dy1 = Sign(sy)
        /\ Steep(a, b) => l.m = abs(sy)
        /\ ~Steep(a, b) => l.m = abs(sx)
    BY <1>2, LocalsFacts
  <2> HIDE DEF l
  <2> QED  BY <2>1, <2>2
<1>5. Steep(a, b) <=> abs(sx) < abs(sy)
  BY DEF Steep
<1>6. /\ Steep(a, b) => /\ After(line.x, a[1], c, line.dx1)
                        /\ After(line.y, a[2], d, line.dy1)
      /\ ~Steep(a, b) => /\ After(line.x, a[1], d, line.dx1)
                         /\ After(line.y, a[2], c, line.dy1)
  BY <1>1 DEF OnCourse
<1>7. sx = b[1] - a[1] /\ sy = b[2] - a[2]
  OBVIOUS
<1>8. abs(sx) = sx /\ abs(sy) = sy
  BY <1>3 DEF abs
<1> HIDE DEF sx, sy, d
<1>9. CASE Steep(a, b)
  <2>1. sx = 0 /\ sy > 0 /\ line.dx1 = 0 /\ line.dy1 = 1 /\ line.m = sy
    BY <1>3, <1>4, <1>5, <1>8, <1>9 DEF Sign
  <2>2. line.x = a[1] /\ line.y = a[2] + d
    BY <1>2, <1>3, <1>6, <1>9, <2>1 DEF After
  <2> QED  BY <1>2, <1>3, <1>7, <2>1, <2>2 DEF d
<1>10. CASE ~Steep(a, b)
  <2>1. sy = 0 /\ line.dy1 = 0 /\ line.m = sx /\ line.dx1 = IF sx > 0 THEN 1 ELSE 0
    BY <1>3, <1>4, <1>5, <1>8, <1>10 DEF Sign
  <2>2. line.x = a[1] + d /\ line.y = a[2]
    <3>1. d * line.dx1 = d
      BY <1>3, <2>1
    <3> QED  BY <1>2, <1>3, <1>6, <1>10, <2>1, <3>1 DEF After
  <2> QED  BY <1>2, <1>3, <1>7, <2>1, <2>2 DEF d
<1> QED  BY <1>9, <1>10

\* A straight line has as many pixels as it is long, and m + 1 in all.
LEMMA StrokeLength ==
  ASSUME lineInv, Straight(line)
  PROVE  line.m = (line.to[1] - line.from[1]) + (line.to[2] - line.from[2])
<1> DEFINE a == line.from
           b == line.to
           l == Locals(a, b, line.rgb)
<1>1. /\ a \in Int \X Int /\ b \in Int \X Int /\ line.rgb \in Ink
      /\ line.m = l.m
  BY DEF lineInv, LineType, Fixed
<1>2. /\ Steep(a, b) => l.m = abs(b[2] - a[2])
      /\ ~Steep(a, b) => l.m = abs(b[1] - a[1])
  BY <1>1, LocalsFacts
<1>3. a[1] \in Int /\ a[2] \in Int /\ b[1] \in Int /\ b[2] \in Int
  BY <1>1
<1> HIDE DEF l
<1> QED  BY <1>1, <1>2, <1>3 DEF Straight, abs, Steep

\* The pixel that is drawn is the one that the stroke gains.
LEMMA StrokeGrows ==
  ASSUME lineInv, Straight(line), LineStep, NEW px \in Int, NEW py \in Int
  PROVE  /\ Stroke(line', px, py) <=> Stroke(line, px, py) \/ (px = line.x /\ py = line.y)
<1> DEFINE a == line.from
           b == line.to
           d == line.m + 1 - line.cnt
<1>1. /\ a \in Int \X Int /\ b \in Int \X Int
      /\ line.x \in Int /\ line.y \in Int /\ line.m \in Int /\ line.cnt \in Int
      /\ line.cnt > 0
  BY DEF lineInv, LineType, LineStep
<1>2. a[1] \in Int /\ a[2] \in Int /\ b[1] \in Int /\ b[2] \in Int
  BY <1>1
<1>3. /\ line'.from = a /\ line'.to = b /\ line'.m = line.m /\ line'.cnt = line.cnt - 1
  BY LoopKeepsLocals DEF Fixed
<1>4. /\ line.x \in a[1] .. b[1] /\ line.y \in a[2] .. b[2]
      /\ (line.x - a[1]) + (line.y - a[2]) = d
  BY <1>1, NextOfStroke
<1>5. /\ a[1] = b[1] \/ a[2] = b[2]
  BY DEF Straight
<1>6. Stroke(line, px, py) <=> /\ px \in a[1] .. b[1] /\ py \in a[2] .. b[2]
                               /\ (px - a[1]) + (py - a[2]) < d
  BY DEF Stroke
<1>7. Stroke(line', px, py) <=> /\ px \in a[1] .. b[1] /\ py \in a[2] .. b[2]
                                /\ (px - a[1]) + (py - a[2]) < d + 1
  BY <1>1, <1>3 DEF Stroke
<1>8. d \in Int
  BY <1>1
<1> HIDE DEF d, a, b
<1> QED  BY <1>1, <1>2, <1>4, <1>5, <1>6, <1>7, <1>8

\* Nothing of a line is drawn at first.
LEMMA NoStroke ==
  ASSUME NEW l \in LineType, l.cnt = l.m + 1, NEW px \in Int, NEW py \in Int
  PROVE  ~Stroke(l, px, py)
<1>1. /\ l.from[1] \in Int /\ l.from[2] \in Int /\ l.to[1] \in Int /\ l.to[2] \in Int
      /\ l.m \in Int /\ l.cnt \in Int
  BY DEF LineType
<1> QED  BY <1>1 DEF Stroke

\* All of it is drawn in the end.
LEMMA AllStroke ==
  ASSUME NEW l \in LineType, l.cnt = 0, NEW px \in Int, NEW py \in Int,
         l.m = (l.to[1] - l.from[1]) + (l.to[2] - l.from[2])
  PROVE  Stroke(l, px, py) <=> /\ px \in l.from[1] .. l.to[1]
                               /\ py \in l.from[2] .. l.to[2]
<1>1. /\ l.from[1] \in Int /\ l.from[2] \in Int /\ l.to[1] \in Int /\ l.to[2] \in Int
      /\ l.m \in Int /\ l.cnt \in Int
  BY DEF LineType
<1> QED  BY <1>1 DEF Stroke

\* A turn of the loop on a border that is on the screen.
LEMMA BorderGrows ==
  ASSUME lineInv, fb \in [Pixels -> Colors], Straight(line), LineStep, line.rgb = "border",
         line.from[1] >= 0, line.to[1] < Width, line.from[2] >= 0, line.to[2] < Height,
         NEW px \in Columns, NEW py \in Rows, NEW beneath,
         Pixel(px, py) = IF Stroke(line, px, py) THEN "border" ELSE beneath
  PROVE  Pixel(px, py)' = IF Stroke(line', px, py) THEN "border" ELSE beneath
<1>1. /\ line.from[1] \in Int /\ line.to[1] \in Int
      /\ line.from[2] \in Int /\ line.to[2] \in Int
      /\ line.cnt > 0 /\ Width \in Int /\ Height \in Int
  BY ResolutionAssumption DEF lineInv, LineType, LineStep
<1>2. line.x \in Columns /\ line.y \in Rows
  BY <1>1, NextOfStroke DEF Columns, Rows
<1>3. Pixel(px, py)' = IF px = line.x /\ py = line.y THEN "border" ELSE Pixel(px, py)
  BY <1>2, LinePaints
<1>4. px \in Int /\ py \in Int
  BY ResolutionAssumption DEF Columns, Rows
<1>5. Stroke(line', px, py) <=> Stroke(line, px, py) \/ (px = line.x /\ py = line.y)
  BY <1>4, StrokeGrows
<1> QED  BY <1>3, <1>5

-----------------------------------------------------------------------------
(* The stack of windows.                                                   *)

\* A window that does not cover a point changes nothing there; one that does
\* hides what is under it.
LEMMA UnderNext ==
  ASSUME NEW t, NEW latest, NEW k \in Slots, NEW px, NEW py
  PROVE  Under(t, latest, k + 1, px, py) =
           IF Covers(t[k], px, py) THEN WindowColor(t[k], latest, px, py)
           ELSE Under(t, latest, k, px, py)
<1> DEFINE S == Above(t, k, px, py)
           U == Above(t, k + 1, px, py)
<1>1. /\ \A s \in S : s \in Int /\ s < k
      /\ k \in Int
  BY GuiAssumption DEF Above, Slots
<1>2. CASE Covers(t[k], px, py)
  <2>1. U = S \cup {k}
    BY <1>2, GuiAssumption DEF Above, Slots
  <2> HIDE DEF S
  <2>2. Max(S \cup {k}) = k
    BY <1>1 DEF Max
  <2>3. U # {} /\ Max(U) = k
    BY <2>1, <2>2
  <2> QED  BY <1>2, <2>3 DEF Under
<1>3. CASE ~Covers(t[k], px, py)
  <2>1. U = S
    BY <1>3, GuiAssumption DEF Above, Slots
  <2> QED  BY <1>3, <2>1 DEF Under
<1> QED  BY <1>2, <1>3

\* The bottom border completes window k.
LEMMA WindowComplete ==
  ASSUME NEW t \in [Slots -> WindowType], NEW latest, NEW k \in Slots,
         t[k].id # 0, Fits(t[k]), t[k].active <=> t[k].id = latest,
         NEW px \in Columns, NEW py \in Rows
  PROVE  Under(t, latest, k + 1, px, py) =
           IF px \in t[k].x .. t[k].w - 1 /\ py = t[k].h THEN "border"
           ELSE RightDone(t, latest, k, px, py)
<1> DEFINE w == t[k]
           u == Under(t, latest, k, px, py)
<1>1. /\ w.x \in Int /\ w.y \in Int /\ w.w \in Int /\ w.h \in Int
      /\ px \in Int /\ py \in Int /\ TitleHeight \in Nat
  BY GuiAssumption, ResolutionAssumption DEF WindowType, Columns, Rows
<1>2. /\ w.id # 0 /\ (w.active <=> w.id = latest)
      /\ w.x < w.w /\ w.y + TitleHeight <= w.h
  BY DEF Fits
<1>3. Under(t, latest, k + 1, px, py) =
        IF Covers(w, px, py) THEN WindowColor(w, latest, px, py) ELSE u
  BY UnderNext
<1>4. RightDone(t, latest, k, px, py) =
        IF px = w.w - 1 /\ py \in w.y + TitleHeight .. w.h THEN "border"
        ELSE IF px = w.x /\ py \in w.y + TitleHeight .. w.h THEN "border"
        ELSE IF px \in w.x .. w.w - 1 /\ py \in w.y .. (w.y + TitleHeight) - 1
        THEN TitleColor(w.active)
        ELSE IF px \in w.x .. w.w - 1 /\ py \in w.y .. w.h - 1 THEN "body"
        ELSE u
  BY DEF RightDone, LeftDone, Titled, Body
<1>5. TitleColor(w.active) = IF w.id = latest THEN "active title" ELSE "title"
  BY <1>2 DEF TitleColor
<1> SUFFICES Under(t, latest, k + 1, px, py) =
               IF px \in w.x .. w.w - 1 /\ py = w.h THEN "border"
               ELSE RightDone(t, latest, k, px, py)
  OBVIOUS
<1> HIDE DEF w, u
<1>6. CASE Covers(w, px, py)
  <2>1. px \in w.x .. w.w - 1 /\ py \in w.y .. w.h
    BY <1>6 DEF Covers
  <2>2. CASE py = w.h
    BY <1>1, <1>3, <1>6, <2>1, <2>2 DEF WindowColor
  <2>3. CASE py # w.h /\ py >= w.y + TitleHeight
    <3>1. CASE px = w.x \/ px = w.w - 1
      <4>1. WindowColor(w, latest, px, py) = "border"
        BY <2>3, <3>1, Zenon DEF WindowColor
      <4>2. RightDone(t, latest, k, px, py) = "border"
        BY <1>1, <1>4, <2>1, <2>3, <3>1
      <4> QED  BY <1>3, <1>6, <2>3, <4>1, <4>2
    <3>2. CASE px # w.x /\ px # w.w - 1
      <4>1. WindowColor(w, latest, px, py) = "body"
        BY <2>3, <3>2, Zenon DEF WindowColor
      <4>2. RightDone(t, latest, k, px, py) = "body"
        BY <1>1, <1>4, <2>1, <2>3, <3>2
      <4> QED  BY <1>3, <1>6, <2>3, <4>1, <4>2
    <3> QED  BY <3>1, <3>2
  <2>4. CASE py # w.h /\ py < w.y + TitleHeight
    <3>1. WindowColor(w, latest, px, py) = TitleColor(w.active)
      <4>1. ~(py >= w.y + TitleHeight)
        BY <1>1, <2>4
      <4> QED  BY <1>5, <2>4, <4>1, Zenon DEF WindowColor
    <3>2. RightDone(t, latest, k, px, py) = TitleColor(w.active)
      BY <1>1, <1>4, <2>1, <2>4
    <3> QED  BY <1>3, <1>6, <2>4, <3>1, <3>2
  <2> QED  BY <1>1, <2>2, <2>3, <2>4
<1>7. CASE ~Covers(w, px, py)
  <2>1. ~(px \in w.x .. w.w - 1 /\ py \in w.y .. w.h)
    BY <1>2, <1>7 DEF Covers
  <2> QED  BY <1>1, <1>2, <1>3, <1>4, <1>7, <2>1
<1> QED  BY <1>6, <1>7

\* Under no window is the desktop with its task bar.
LEMMA UnderNothing ==
  ASSUME NEW t, NEW latest, NEW px, NEW py
  PROVE  Under(t, latest, 0, px, py) = IF py < TaskBarHeight THEN "taskbar" ELSE "desktop"
<1>1. Above(t, 0, px, py) = {}
  BY GuiAssumption DEF Above, Slots
<1> QED  BY <1>1 DEF Under

\* The mouse is on top of all windows.
LEMMA MouseOnTop ==
  ASSUME NEW px \in Columns, NEW py \in Rows, fb' = Mouse(fb),
         UNCHANGED <<window, id>>,
         Pixel(px, py) = Under(window, id - 1, MAX_WINDOWS, px, py)
  PROVE  Pixel(px, py)' = Seen(px, py)'
<1> DEFINE p == py * Width + px
           x == px - MouseAt[1]
           row == MouseRow(py - MouseAt[2])
           u == Under(window, id - 1, MAX_WINDOWS, px, py)
           pt == <<px, py>>
<1>1. p \in Pixels /\ p % Width = px /\ p \div Width = py
  BY PixelOfPoint
<1>2. /\ pt \in BlackPixels <=> x \in DOMAIN row /\ row[x] = "1"
      /\ pt \in WhitePixels <=> x \in DOMAIN row /\ row[x] \notin {"0", "1"}
  <2>1. pt \in Points /\ pt[1] = px /\ pt[2] = py
    BY DEF Points, Columns, Rows
  <2> HIDE DEF pt
  <2> QED  BY <2>1, MouseAssumption
<1>3. fb'[p] = IF x \notin DOMAIN row \/ row[x] = "0" THEN fb[p]
               ELSE IF row[x] = "1" THEN "black" ELSE "white"
  BY <1>1 DEF Mouse
<1>4. Pixel(px, py) = fb[p] /\ Pixel(px, py)' = fb'[p]
  BY DEF Pixel
<1>5. Seen(px, py)' = IF pt \in BlackPixels THEN "black"
                      ELSE IF pt \in WhitePixels THEN "white" ELSE u
  <2>1. Above(window, MAX_WINDOWS, px, py) = {s \in Slots : Covers(window[s], px, py)}
    BY GuiAssumption DEF Above, Slots
  <2>2. Seen(px, py)' =
          LET above == {s \in Slots : Covers(window[s], px, py)}
          IN IF pt \in BlackPixels THEN "black"
             ELSE IF pt \in WhitePixels THEN "white"
             ELSE IF above # {} THEN WindowColor(window[Max(above)], id - 1, px, py)
             ELSE IF py < TaskBarHeight THEN "taskbar" ELSE "desktop"
    BY DEF Seen
  <2> QED  BY <2>1, <2>2 DEF Under
<1> HIDE DEF p, x, row, u, pt
<1> QED  BY <1>2, <1>3, <1>4, <1>5 DEF u

-----------------------------------------------------------------------------
(* The table of windows, the border and the frame buffer, step by step.    *)

\* A new window takes the active title bar from the others.
LEMMA CreateKeepsWindows ==
  ASSUME windowsInv, NEW g \in Geometries, id \in 1 .. 2,
         window' = WithWindow(window, g, id), id' = id + 1
  PROVE  /\ window' \in [Slots -> WindowType]
         /\ \A s \in Slots :
              /\ window'[s].id < id'
              /\ window'[s].id # 0 =>
                   Fits(window'[s]) /\ (window'[s].active <=> window'[s].id = id' - 1)
<1> DEFINE f == Min(Free(window))
           others == [t \in Slots |-> [window[t] EXCEPT !.active = FALSE]]
           new == [id |-> id, x |-> g.x, y |-> g.y, w |-> g.w, h |-> g.h, active |-> TRUE]
<1>1. /\ new \in WindowType /\ new.id = id /\ new.active = TRUE /\ Fits(new)
  <2>1. g \in [x : 0 .. Width, y : 0 .. Height, w : 0 .. Width, h : 0 .. Height]
    BY GuiAssumption
  <2>2. Fits(g)
    BY GuiAssumption DEF Fits
  <2> QED  BY <2>1, <2>2 DEF WindowType, Fits
<1>2. window' = [others EXCEPT ![f] = new]
  BY DEF WithWindow
<1>3. window \in [Slots -> WindowType]
  BY DEF windowsInv
<1>4. ASSUME NEW s \in Slots
      PROVE  /\ others[s] \in WindowType /\ others[s].active = FALSE
             /\ others[s].id = window[s].id
             /\ Fits(window[s]) => Fits(others[s])
  <2>1. window[s] \in WindowType /\ others[s] = [window[s] EXCEPT !.active = FALSE]
    BY <1>3
  <2> QED  BY <2>1 DEF WindowType, Fits
<1> HIDE DEF others, new, f
<1>5. others \in [Slots -> WindowType]
  <2>1. others = [t \in Slots |-> others[t]]
    BY Zenon DEF others
  <2> QED  BY <1>4, <2>1
<1>6. window' \in [Slots -> WindowType]
  BY <1>1, <1>2, <1>5
<1>7. ASSUME NEW s \in Slots
      PROVE  /\ window'[s].id < id'
             /\ window'[s].id # 0 =>
                  Fits(window'[s]) /\ (window'[s].active <=> window'[s].id = id' - 1)
  <2>1. CASE s = f
    <3>1. window'[s] = new
      BY <1>2, <1>5, <2>1
    <3> QED  BY <1>1, <3>1
  <2>2. CASE s # f
    <3>1. window'[s] = others[s]
      BY <1>2, <1>5, <2>2
    <3>2. /\ window[s].id < id /\ window[s].id \in 0 .. 2
          /\ window[s].id # 0 => Fits(window[s])
      BY <1>3 DEF windowsInv, WindowType
    <3>3. window[s].id < id' /\ window[s].id # id' - 1
      BY <3>2
    <3>4. /\ window'[s].id = window[s].id /\ window'[s].active = FALSE
          /\ window[s].id # 0 => Fits(window'[s])
      BY <1>4, <3>1, <3>2
    <3> QED  BY <3>3, <3>4, Zenon
  <2> QED  BY <2>1, <2>2
<1> QED  BY <1>6, <1>7

\* Only ClearTable and GUI_CreateWindow assign the table.
LEMMA WindowsStep == guiInv /\ windowsInv /\ [guiNext]_guiVars => windowsInv'
<1> SUFFICES ASSUME guiInv, windowsInv, [guiNext]_guiVars  PROVE windowsInv'
  OBVIOUS
<1>1. ASSUME UNCHANGED <<window, id>>, pc' \in Steps, pc \in {"start", "called", "first"},
             pc' \in {"start", "called"}
      PROVE  windowsInv'
  BY <1>1 DEF windowsInv, Slots, WindowType, Fits
<1>2. ASSUME UNCHANGED <<window, id>>,
             pc' \in {"desktop", "taskbar", "window", "mouse", "shown"}
      PROVE  windowsInv'
  BY <1>2 DEF windowsInv, Slots, WindowType, Fits, Steps
<1>3. ASSUME UNCHANGED <<window, id, i>>, i \in Slots, window[i].id # 0,
             pc' \in {"main", "title", "left", "right", "bottom"}
      PROVE  windowsInv'
  BY <1>3 DEF windowsInv, Slots, WindowType, Fits, Steps
<1>4. CASE ClientLine
  BY <1>1, <1>4 DEF ClientLine, At, Go, Steps
<1>5. CASE ClearTable
  <2>1. /\ window' = [s \in Slots |-> [window[s] EXCEPT !.id = 0]]
        /\ pc' = "first" /\ id' = id /\ id = 1
    BY <1>5 DEF ClearTable, At, Go, windowsInv
  <2>2. window' \in [Slots -> WindowType] /\ \A s \in Slots : window'[s].id = 0
    BY <2>1 DEF windowsInv, WindowType
  <2> QED  BY <2>1, <2>2 DEF windowsInv, Steps, Slots, WindowType, Fits
<1>6. CASE Create("first", "second") \/ Create("second", "desktop")
  <2>1. PICK g \in Geometries : window' = WithWindow(window, g, id) /\ id' = id + 1
    BY <1>6 DEF Create, GUI_CreateWindow
  <2>2. \/ id = 1 /\ pc' = "second"
        \/ id = 2 /\ pc' = "desktop"
    BY <1>6 DEF Create, At, Go, windowsInv
  <2>3. /\ window' \in [Slots -> WindowType]
        /\ \A s \in Slots :
             /\ window'[s].id < id'
             /\ window'[s].id # 0 =>
                  Fits(window'[s]) /\ (window'[s].active <=> window'[s].id = id' - 1)
    BY <2>1, <2>2, CreateKeepsWindows
  <2> QED  BY <2>1, <2>2, <2>3 DEF windowsInv, Steps, Slots, WindowType, Fits
<1>7. CASE GUI_DrawDesktop \/ GUI_DrawTaskBar \/ GUI_DrawMouse \/ Again
  BY <1>2, <1>7 DEF GUI_DrawDesktop, GUI_DrawTaskBar, GUI_DrawMouse, Again, Go
<1>8. CASE NextWindow
  <2>1. /\ UNCHANGED <<window, id>>
        /\ \/ pc' = "mouse" \/ pc' = "window"
           \/ pc' = "main" /\ i' = i /\ i < MAX_WINDOWS /\ window[i].id # 0
    BY <1>8 DEF NextWindow, At, Go, W
  <2>2. MAX_WINDOWS \in Int /\ i \in 0 .. MAX_WINDOWS
    BY GuiAssumption DEF guiInv, tableInv
  <2> QED  BY <1>2, <1>3, <2>1, <2>2 DEF Slots
<1>9. CASE MainWindow \/ TitleBar
  BY <1>3, <1>9 DEF MainWindow, TitleBar, At, Go, windowsInv
<1>10. CASE Borders
  <2>1. /\ UNCHANGED <<window, id>> /\ i \in Slots /\ window[i].id # 0
        /\ pc' = "window" \/ (pc' \in {"right", "bottom"} /\ i' = i)
    BY <1>10 DEF Borders, Border, At, Go, windowsInv
  <2> QED  BY <1>2, <1>3, <2>1
<1>11. CASE Drawing \/ UNCHANGED guiVars
  BY <1>11 DEF Drawing, guiVars, windowsInv, Slots, WindowType, Fits
<1> QED  BY <1>4, <1>5, <1>6, <1>7, <1>8, <1>9, <1>10, <1>11 DEF guiNext

\* The line being drawn is the border that GUI_DrawWindows called last.
LEMMA BorderStep == guiInv /\ windowsInv /\ borderInv /\ [guiNext]_guiVars => borderInv'
<1> SUFFICES ASSUME guiInv, windowsInv, borderInv, [guiNext]_guiVars  PROVE borderInv'
  OBVIOUS
<1>1. ASSUME UNCHANGED line, line.cnt = 0, pc' \notin {"right", "bottom"}
      PROVE  borderInv'
  BY <1>1 DEF borderInv
<1>2. CASE ClientLine
  BY <1>2 DEF ClientLine, Go, borderInv
<1>3. CASE \/ ClearTable \/ Create("first", "second") \/ Create("second", "desktop")
           \/ GUI_DrawDesktop \/ GUI_DrawTaskBar \/ NextWindow \/ MainWindow \/ TitleBar
           \/ GUI_DrawMouse \/ Again
  BY <1>1, <1>3 DEF ClearTable, Create, GUI_DrawDesktop, GUI_DrawTaskBar, NextWindow,
     MainWindow, TitleBar, GUI_DrawMouse, Again, At, Go
<1>4. CASE Borders
  <2>1. i \in Slots /\ window[i].id # 0 /\ window' = window /\ i \in Int
    BY <1>4, GuiAssumption DEF Borders, Border, At, windowsInv, Slots
  <2>2. /\ \/ pc' = "right" /\ i' = i /\ line' = Locals(<<W.x, W.y + TitleHeight>>, <<W.x, W.h>>, "border")
           \/ pc' = "bottom" /\ i' = i
                /\ line' = Locals(<<W.w - 1, W.y + TitleHeight>>, <<W.w - 1, W.h>>, "border")
           \/ pc' = "window" /\ i' = i + 1
                /\ line' = Locals(<<W.x, W.h>>, <<W.w - 1, W.h>>, "border")
    BY <1>4 DEF Borders, Border, Go, VBE_DrawLine
  <2>3. ASSUME NEW a, NEW b, line' = Locals(a, b, "border")
        PROVE  IsBorder(line', a, b)
    BY <2>3 DEF Locals, IsBorder
  <2>4. CASE pc' = "right"
    BY <2>1, <2>2, <2>3, <2>4 DEF borderInv, W
  <2>5. CASE pc' = "bottom"
    BY <2>1, <2>2, <2>3, <2>5 DEF borderInv, W
  <2>6. CASE pc' = "window"
    <3>1. i' - 1 = i
      BY <2>1, <2>2, <2>6
    <3> QED  BY <2>1, <2>2, <2>3, <2>6, <3>1 DEF borderInv, W, Slots
  <2> QED  BY <2>2, <2>4, <2>5, <2>6
<1>5. CASE Drawing
  <2>1. /\ line'.from = line.from /\ line'.to = line.to /\ line'.rgb = line.rgb
        /\ UNCHANGED <<window, i, pc>> /\ line.cnt > 0
    BY <1>5, LoopKeepsLocals DEF Drawing, guiInv, LineStep
  <2> QED  BY <2>1 DEF borderInv, IsBorder, W, Slots
<1>6. CASE UNCHANGED guiVars
  BY <1>6 DEF guiVars, borderInv, IsBorder, W, Slots
<1> QED  BY <1>2, <1>3, <1>4, <1>5, <1>6 DEF guiNext

\* The locals of a new line and of the next turn of a line keep the error
\* between 0 and m.
LEMMA ErrorBounded ==
  ASSUME lineInv, line.k \in 0 .. line.m, LineStep
  PROVE  line'.k \in 0 .. line'.m
<1> DEFINE l == Locals(line.from, line.to, line.rgb)
<1>1. /\ line \in LineType /\ line.k \in Int /\ line.n \in Int /\ line.m \in Int
      /\ line.from \in Int \X Int /\ line.to \in Int \X Int /\ line.rgb \in Ink
  BY DEF lineInv, LineType
<1>2. line.m = l.m /\ line.n = l.n
  BY DEF lineInv, Fixed
<1>3. l.m >= l.n /\ l.n >= 0
  BY <1>1, LocalsFacts
<1> HIDE DEF l
<1>4. line'.m = line.m
  BY LoopKeepsLocals DEF Fixed
<1>5. line'.k = IF line.k + line.n >= line.m THEN line.k + line.n - line.m
                ELSE line.k + line.n
  BY <1>1 DEF LineStep, LineType, Diagonal, Carry
<1> QED  BY <1>1, <1>2, <1>3, <1>4, <1>5

\* A new line has no error.
LEMMA NoErrorAtFirst ==
  ASSUME NEW a \in Int \X Int, NEW b \in Int \X Int, NEW rgb \in Ink,
         line' = Locals(a, b, rgb)
  PROVE  line'.k \in 0 .. line'.m /\ line'.cnt = line'.m + 1
<1> DEFINE l == Locals(a, b, rgb)
<1>1. l \in LineType /\ l.m >= l.n /\ l.n >= 0 /\ l.k = 0 /\ l.cnt = l.m + 1
  BY LocalsFacts
<1>2. l.m \in Int /\ l.n \in Int
  BY <1>1 DEF LineType
<1> HIDE DEF l
<1>3. line' = l
  BY DEF l
<1> QED  BY <1>1, <1>2, <1>3

\* Rectangles, lines and the mouse paint in the colours of the GUI and inside
\* the frame buffer.
LEMMA BufferStep ==
  guiInv /\ windowsInv /\ bufferInv /\ [guiNext]_guiVars => bufferInv'
<1> SUFFICES ASSUME guiInv, windowsInv, bufferInv, [guiNext]_guiVars  PROVE bufferInv'
  OBVIOUS
<1>1. ASSUME NEW x, NEW y, NEW x2, NEW y2, NEW rgb \in Colors,
             VBE_DrawRect(x, y, x2, y2, rgb), UNCHANGED line
      PROVE  bufferInv'
  <2>1. fb' \in [Pixels -> Colors]
    BY <1>1 DEF VBE_DrawRect, Filled, bufferInv
  <2> QED  BY <1>1, <2>1 DEF bufferInv, Pixels, Colors
<1>2. ASSUME UNCHANGED fb, line'.k \in 0 .. line'.m  PROVE bufferInv'
  BY <1>2 DEF bufferInv, Pixels, Colors
<1>3. ASSUME UNCHANGED <<fb, line>>  PROVE bufferInv'
  BY <1>3 DEF bufferInv, Pixels, Colors
<1>4. CASE ClientLine
  <2>1. ClientPoints \subseteq Int \X Int
    BY GuiAssumption, ResolutionAssumption DEF Points
  <2>2. PICK a \in Int \X Int, b \in Int \X Int : line' = Locals(a, b, "line")
    BY <1>4, <2>1 DEF ClientLine, VBE_DrawLine
  <2>3. line'.k \in 0 .. line'.m
    <3> DEFINE rgb == "line"
    <3>1. rgb \in Ink /\ line' = Locals(a, b, rgb)
      BY <2>2 DEF Ink
    <3> HIDE DEF rgb
    <3> QED  BY <3>1, NoErrorAtFirst
  <2> QED  BY <1>2, <1>4, <2>3 DEF ClientLine
<1>5. CASE ClearTable \/ Create("first", "second") \/ Create("second", "desktop")
           \/ NextWindow \/ Again \/ UNCHANGED guiVars
  BY <1>3, <1>5 DEF ClearTable, Create, NextWindow, Again, guiVars
<1>6. CASE GUI_DrawDesktop
  <2>1. "desktop" \in Colors
    BY DEF Colors
  <2> QED  BY <1>1, <1>6, <2>1 DEF GUI_DrawDesktop
<1>7. CASE GUI_DrawTaskBar
  <2>1. "taskbar" \in Colors
    BY DEF Colors
  <2> QED  BY <1>1, <1>7, <2>1 DEF GUI_DrawTaskBar
<1>8. CASE MainWindow
  <2>1. "body" \in Colors
    BY DEF Colors
  <2> QED  BY <1>1, <1>8, <2>1 DEF MainWindow
<1>9. CASE TitleBar
  <2>1. TitleColor(W.active) \in Colors
    BY DEF Colors, TitleColor
  <2> QED  BY <1>1, <1>9, <2>1 DEF TitleBar
<1>10. CASE Borders
  <2>1. W.x \in Int /\ W.y \in Int /\ W.w \in Int /\ W.h \in Int /\ TitleHeight \in Int
    BY <1>10, GuiAssumption DEF guiInv, tableInv, Borders, Border, At, W
  <2>2. PICK a \in Int \X Int, b \in Int \X Int : line' = Locals(a, b, "border")
    <3>1. /\ <<W.x, W.y + TitleHeight>> \in Int \X Int /\ <<W.x, W.h>> \in Int \X Int
          /\ <<W.w - 1, W.y + TitleHeight>> \in Int \X Int
          /\ <<W.w - 1, W.h>> \in Int \X Int
      BY <2>1
    <3> QED  BY <1>10, <3>1 DEF Borders, Border, VBE_DrawLine
  <2>3. line'.k \in 0 .. line'.m
    <3> DEFINE rgb == "border"
    <3>1. rgb \in Ink /\ line' = Locals(a, b, rgb)
      BY <2>2 DEF Ink
    <3> HIDE DEF rgb
    <3> QED  BY <3>1, NoErrorAtFirst
  <2> QED  BY <1>2, <1>10, <2>3 DEF Borders, Border
<1>11. CASE Drawing
  <2>1. line'.k \in 0 .. line'.m
    BY <1>11, ErrorBounded DEF Drawing, guiInv, bufferInv
  <2>2. fb' \in [Pixels -> Colors]
    <3>1. line.rgb \in Colors
      BY DEF guiInv, lineInv, LineType, Ink, Colors
    <3> QED  BY <1>11, <3>1 DEF Drawing, LineStep, VBE_DrawPixel, bufferInv
  <2> QED  BY <2>1, <2>2 DEF bufferInv, Pixels, Colors
<1>12. CASE GUI_DrawMouse
  <2>1. fb' \in [Pixels -> Colors]
    <3>1. ASSUME NEW p \in Pixels  PROVE Mouse(fb)[p] \in Colors
      BY DEF Mouse, bufferInv, Colors
    <3>2. Mouse(fb) = [p \in Pixels |-> Mouse(fb)[p]]
      BY Zenon DEF Mouse
    <3> QED  BY <1>12, <3>1, <3>2 DEF GUI_DrawMouse
  <2> QED  BY <1>12, <2>1 DEF bufferInv, Pixels, Colors, GUI_DrawMouse
<1> QED  BY <1>4, <1>5, <1>6, <1>7, <1>8, <1>9, <1>10, <1>11, <1>12 DEF guiNext

-----------------------------------------------------------------------------
(* The picture, step by step.                                              *)

\* The borders of a window on the screen.
LEMMA BorderOnScreen ==
  ASSUME windowsInv, borderInv, lineInv,
         pc \in {"right", "bottom"} \/ (pc = "window" /\ line.cnt > 0)
  PROVE  /\ Straight(line) /\ line.rgb = "border"
         /\ line.from[1] >= 0 /\ line.to[1] < Width
         /\ line.from[2] >= 0 /\ line.to[2] < Height
<1> DEFINE k == IF pc = "window" THEN i - 1 ELSE i
           w == window[k]
<1>1. k \in Slots /\ w.id # 0
  BY DEF windowsInv, borderInv
<1>2. w \in WindowType /\ Fits(w)
  BY <1>1 DEF windowsInv
<1>3. \/ IsBorder(line, <<w.x, w.y + TitleHeight>>, <<w.x, w.h>>)
      \/ IsBorder(line, <<w.w - 1, w.y + TitleHeight>>, <<w.w - 1, w.h>>)
      \/ IsBorder(line, <<w.x, w.h>>, <<w.w - 1, w.h>>)
  BY DEF borderInv, W
<1> HIDE DEF k, w
<1>4. /\ w.x \in Int /\ w.y \in Int /\ w.w \in Int /\ w.h \in Int /\ TitleHeight \in Nat
      /\ Width \in Int /\ Height \in Int
  BY <1>2, GuiAssumption, ResolutionAssumption DEF WindowType
<1> QED  BY <1>2, <1>3, <1>4 DEF IsBorder, Straight, Fits

\* The desktop and the task bar.
LEMMA PaintDesktop ==
  ASSUME picInv, GUI_DrawDesktop \/ GUI_DrawTaskBar
  PROVE  paintInv'
<1> SUFFICES ASSUME NEW px \in Columns, NEW py \in Rows  PROVE Painted(px, py)'
  BY DEF paintInv, Columns, Rows
<1>1. /\ px \in 0 .. Width - 1 /\ py \in 0 .. Height - 1 /\ Width \in Nat /\ Height \in Nat
      /\ TaskBarHeight \in Nat
  BY GuiAssumption, ResolutionAssumption DEF Columns, Rows
<1>2. CASE GUI_DrawDesktop
  <2>1. Pixel(px, py)' = IF px \in 0 .. Width - 1 /\ py \in 0 .. Height - 1 THEN "desktop"
                         ELSE Pixel(px, py)
    BY <1>2, RectPaints DEF GUI_DrawDesktop
  <2>2. pc' = "taskbar"
    BY <1>2 DEF GUI_DrawDesktop, Go
  <2> QED  BY <1>1, <2>1, <2>2 DEF Painted
<1>3. CASE GUI_DrawTaskBar
  <2>1. Pixel(px, py)' = IF px \in 0 .. Width - 1 /\ py \in 0 .. TaskBarHeight - 1
                         THEN "taskbar" ELSE Pixel(px, py)
    BY <1>3, RectPaints DEF GUI_DrawTaskBar
  <2>2. pc' = "window" /\ pc = "taskbar" /\ i' = 0 /\ line' = line /\ line.cnt = 0
    BY <1>3 DEF GUI_DrawTaskBar, Go, At
  <2>3. Pixel(px, py) = "desktop"
    BY <2>2 DEF picInv, paintInv, Painted
  <2>4. Pixel(px, py)' = IF py < TaskBarHeight THEN "taskbar" ELSE "desktop"
    BY <1>1, <2>1, <2>3
  <2>5. Pixel(px, py)' = Under(window', id' - 1, i', px, py)
    BY <2>2, <2>4, UnderNothing
  <2> QED  BY <2>2, <2>5 DEF Painted
<1> QED  BY <1>2, <1>3

\* The head of the loop over the windows.
LEMMA PaintNext ==
  ASSUME picInv, NextWindow
  PROVE  paintInv'
<1> SUFFICES ASSUME NEW px \in Columns, NEW py \in Rows  PROVE Painted(px, py)'
  BY DEF paintInv, Columns, Rows
<1>1. /\ UNCHANGED <<fb, line, window, id>> /\ pc = "window" /\ line.cnt = 0
      /\ \/ i = MAX_WINDOWS /\ pc' = "mouse" /\ i' = i
         \/ i < MAX_WINDOWS /\ window[i].id = 0 /\ i' = i + 1 /\ pc' = pc
         \/ i < MAX_WINDOWS /\ i' = i /\ pc' = "main"
  BY DEF NextWindow, At, Go, W
<1>2. Pixel(px, py)' = Pixel(px, py)
  BY <1>1 DEF Pixel
<1>3. Pixel(px, py) = Under(window, id - 1, i, px, py)
  BY <1>1 DEF picInv, paintInv, Painted
<1>4. CASE pc' = "mouse"
  BY <1>1, <1>2, <1>3, <1>4 DEF Painted
<1>5. CASE pc' = "window"
  <2>1. i \in Slots /\ window[i].id = 0 /\ i' = i + 1
    BY <1>1, <1>5, GuiAssumption DEF picInv, guiInv, tableInv, Slots
  <2>2. ~Covers(window[i], px, py)
    BY <2>1 DEF Covers
  <2>3. Under(window, id - 1, i + 1, px, py) = Under(window, id - 1, i, px, py)
    BY <2>1, <2>2, UnderNext
  <2> QED  BY <1>1, <1>2, <1>3, <1>5, <2>1, <2>3 DEF Painted
<1>6. CASE pc' = "main"
  BY <1>1, <1>2, <1>3, <1>6 DEF Painted
<1> QED  BY <1>1, <1>4, <1>5, <1>6

\* The area and the title bar of a window.
LEMMA PaintWindow ==
  ASSUME picInv, MainWindow \/ TitleBar
  PROVE  paintInv'
<1> SUFFICES ASSUME NEW px \in Columns, NEW py \in Rows  PROVE Painted(px, py)'
  BY DEF paintInv, Columns, Rows
<1>1. CASE MainWindow
  <2>1. pc = "main" /\ pc' = "title" /\ UNCHANGED <<window, id, i>>
        /\ VBE_DrawRect(window[i].x, window[i].y, window[i].w, window[i].h, "body")
    BY <1>1 DEF MainWindow, At, Go, W
  <2>2. Pixel(px, py) = Under(window, id - 1, i, px, py)
    BY <2>1 DEF picInv, paintInv, Painted
  <2>3. Pixel(px, py)' = Body(window, id - 1, i, px, py)
    BY <2>1, <2>2, RectPaints DEF Body
  <2> QED  BY <2>1, <2>3 DEF Painted
<1>2. CASE TitleBar
  <2>1. pc = "title" /\ pc' = "left" /\ UNCHANGED <<window, id, i>>
        /\ VBE_DrawRect(window[i].x, window[i].y, window[i].w, window[i].y + TitleHeight,
                        TitleColor(window[i].active))
    BY <1>2 DEF TitleBar, At, Go, W
  <2>2. Pixel(px, py) = Body(window, id - 1, i, px, py)
    BY <2>1 DEF picInv, paintInv, Painted
  <2>3. Pixel(px, py)' = Titled(window, id - 1, i, px, py)
    <3> DEFINE w == window[i]
               y2 == w.y + TitleHeight
               rgb == TitleColor(w.active)
    <3>1. Titled(window, id - 1, i, px, py) =
            IF px \in w.x .. w.w - 1 /\ py \in w.y .. y2 - 1 THEN rgb
            ELSE Body(window, id - 1, i, px, py)
      BY Zenon DEF Titled
    <3>2. VBE_DrawRect(w.x, w.y, w.w, y2, rgb)
      BY <2>1
    <3> HIDE DEF w, y2, rgb
    <3>3. Pixel(px, py)' = IF px \in w.x .. w.w - 1 /\ py \in w.y .. y2 - 1 THEN rgb
                           ELSE Pixel(px, py)
      BY <3>2, RectPaints
    <3> QED  BY <2>2, <3>1, <3>3
  <2> QED  BY <2>1, <2>3 DEF Painted
<1> QED  BY <1>1, <1>2

\* The call of VBE_DrawLine for the next border finds the last one complete.
LEMMA PaintBorders ==
  ASSUME picInv, Borders
  PROVE  paintInv'
<1> SUFFICES ASSUME NEW px \in Columns, NEW py \in Rows  PROVE Painted(px, py)'
  BY DEF paintInv, Columns, Rows
<1> DEFINE w == window[i]
<1>1. px \in Int /\ py \in Int
  BY ResolutionAssumption DEF Columns, Rows
<1>2. /\ UNCHANGED <<fb, window, id>> /\ line.cnt = 0
      /\ \/ pc = "left" /\ pc' = "right" /\ i' = i
         \/ pc = "right" /\ pc' = "bottom" /\ i' = i
         \/ pc = "bottom" /\ pc' = "window" /\ i' = i + 1
  BY DEF Borders, Border, At, Go
<1>3. Pixel(px, py)' = Pixel(px, py)
  BY <1>2 DEF Pixel
<1>4. /\ i \in Slots /\ i \in Int /\ w \in WindowType
      /\ w.x \in Int /\ w.y \in Int /\ w.w \in Int /\ w.h \in Int /\ TitleHeight \in Int
  <2>1. i \in Slots /\ window \in [Slots -> WindowType]
    BY <1>2 DEF picInv, windowsInv
  <2>2. w \in WindowType
    BY <2>1
  <2>3. i \in Int /\ TitleHeight \in Int
    BY <2>1, GuiAssumption DEF Slots
  <2> HIDE DEF w
  <2> QED  BY <2>1, <2>2, <2>3, ResolutionAssumption DEF WindowType
<1>5. ~Stroke(line', px, py) /\ line'.cnt > 0
  <2>1. PICK a \in Int \X Int, b \in Int \X Int : line' = Locals(a, b, "border")
    <3>1. /\ <<w.x, w.y + TitleHeight>> \in Int \X Int /\ <<w.x, w.h>> \in Int \X Int
          /\ <<w.w - 1, w.y + TitleHeight>> \in Int \X Int
          /\ <<w.w - 1, w.h>> \in Int \X Int
      BY <1>4
    <3> QED  BY <3>1 DEF Borders, Border, VBE_DrawLine, W
  <2> DEFINE rgb == "border"
  <2>2. rgb \in Ink /\ line' = Locals(a, b, rgb)
    BY <2>1 DEF Ink
  <2> HIDE DEF rgb
  <2>3. /\ line' \in LineType /\ line'.cnt = line'.m + 1 /\ line'.m >= line'.n
        /\ line'.n >= 0
    BY <2>2, LocalsFacts
  <2>4. line'.m \in Int /\ line'.n \in Int
    BY <2>3 DEF LineType
  <2> QED  BY <1>1, <2>3, <2>4, NoStroke
<1>6. ASSUME pc \in {"right", "bottom"}
      PROVE  Stroke(line, px, py) <=> /\ px \in line.from[1] .. line.to[1]
                                      /\ py \in line.from[2] .. line.to[2]
  <2>1. lineInv /\ windowsInv /\ borderInv /\ line \in LineType
    BY DEF picInv, guiInv, lineInv
  <2>2. Straight(line)
    BY <1>6, <2>1, BorderOnScreen
  <2>3. line.m = (line.to[1] - line.from[1]) + (line.to[2] - line.from[2])
    BY <2>1, <2>2, StrokeLength
  <2> QED  BY <1>1, <1>2, <2>1, <2>3, AllStroke
<1>7. CASE pc = "left"
  <2>1. Pixel(px, py) = Titled(window, id - 1, i, px, py)
    BY <1>7 DEF picInv, paintInv, Painted
  <2> QED  BY <1>2, <1>3, <1>5, <1>7, <2>1 DEF Painted
<1>8. CASE pc = "right"
  <2>1. Pixel(px, py) = IF Stroke(line, px, py) THEN "border"
                        ELSE Titled(window, id - 1, i, px, py)
    BY <1>8 DEF picInv, paintInv, Painted
  <2>2. IsBorder(line, <<w.x, w.y + TitleHeight>>, <<w.x, w.h>>)
    BY <1>8 DEF picInv, borderInv, W
  <2>3. Stroke(line, px, py) <=> px = w.x /\ py \in w.y + TitleHeight .. w.h
    <3>1. /\ line.from[1] = w.x /\ line.to[1] = w.x
          /\ line.from[2] = w.y + TitleHeight /\ line.to[2] = w.h
      BY <2>2 DEF IsBorder
    <3> HIDE DEF w
    <3> QED  BY <1>1, <1>4, <1>6, <1>8, <3>1
  <2>4. Pixel(px, py) = LeftDone(window, id - 1, i, px, py)
    BY <2>1, <2>3, Zenon DEF LeftDone
  <2> QED  BY <1>2, <1>3, <1>5, <1>8, <2>4 DEF Painted
<1>9. CASE pc = "bottom"
  <2>1. Pixel(px, py) = IF Stroke(line, px, py) THEN "border"
                        ELSE LeftDone(window, id - 1, i, px, py)
    BY <1>9 DEF picInv, paintInv, Painted
  <2>2. IsBorder(line, <<w.w - 1, w.y + TitleHeight>>, <<w.w - 1, w.h>>)
    BY <1>9 DEF picInv, borderInv, W
  <2>3. Stroke(line, px, py) <=> px = w.w - 1 /\ py \in w.y + TitleHeight .. w.h
    <3>1. /\ line.from[1] = w.w - 1 /\ line.to[1] = w.w - 1
          /\ line.from[2] = w.y + TitleHeight /\ line.to[2] = w.h
      BY <2>2 DEF IsBorder
    <3> HIDE DEF w
    <3> QED  BY <1>1, <1>4, <1>6, <1>9, <3>1
  <2>4. Pixel(px, py) = RightDone(window, id - 1, i, px, py)
    BY <2>1, <2>3, Zenon DEF RightDone
  <2>5. i' - 1 = i
    BY <1>2, <1>4, <1>9
  <2>6. RightDone(window', id' - 1, i' - 1, px, py) = RightDone(window, id - 1, i, px, py)
    BY <1>2, <2>5
  <2> QED  BY <1>2, <1>3, <1>5, <1>9, <2>4, <2>6 DEF Painted
<1> QED  BY <1>2, <1>7, <1>8, <1>9

\* A turn of the loop of a border; the last one of the bottom border completes
\* the window.
LEMMA PaintLine ==
  ASSUME picInv, Drawing
  PROVE  paintInv'
<1> SUFFICES ASSUME NEW px \in Columns, NEW py \in Rows  PROVE Painted(px, py)'
  BY DEF paintInv, Columns, Rows
<1>1. px \in Int /\ py \in Int
  BY ResolutionAssumption DEF Columns, Rows
<1>2. /\ UNCHANGED <<window, id, i, pc>> /\ LineStep /\ line.cnt > 0 /\ line.cnt \in Int
      /\ pc \in {"called", "right", "bottom", "window"}
      /\ lineInv /\ windowsInv /\ borderInv /\ fb \in [Pixels -> Colors]
  BY DEF Drawing, LineStep, picInv, borderInv, bufferInv, guiInv, lineInv, LineType
<1>3. ASSUME NEW beneath, pc \in {"right", "bottom", "window"},
             Pixel(px, py) = IF Stroke(line, px, py) THEN "border" ELSE beneath
      PROVE  Pixel(px, py)' = IF Stroke(line', px, py) THEN "border" ELSE beneath
  <2>1. /\ Straight(line) /\ line.rgb = "border"
        /\ line.from[1] >= 0 /\ line.to[1] < Width
        /\ line.from[2] >= 0 /\ line.to[2] < Height
    BY <1>2, <1>3, BorderOnScreen
  <2> QED  BY <1>2, <1>3, <2>1, BorderGrows
<1>4. CASE pc = "called"
  BY <1>2, <1>4 DEF Painted
<1>5. CASE pc = "right"
  <2>1. Pixel(px, py)' = IF Stroke(line', px, py) THEN "border"
                         ELSE Titled(window, id - 1, i, px, py)
    BY <1>3, <1>5 DEF picInv, paintInv, Painted
  <2> QED  BY <1>2, <1>5, <2>1 DEF Painted
<1>6. CASE pc = "bottom"
  <2>1. Pixel(px, py)' = IF Stroke(line', px, py) THEN "border"
                         ELSE LeftDone(window, id - 1, i, px, py)
    BY <1>3, <1>6 DEF picInv, paintInv, Painted
  <2> QED  BY <1>2, <1>6, <2>1 DEF Painted
<1>7. CASE pc = "window"
  <2> DEFINE k == i - 1
             w == window[k]
  <2>1. Pixel(px, py)' = IF Stroke(line', px, py) THEN "border"
                         ELSE RightDone(window, id - 1, k, px, py)
    BY <1>2, <1>3, <1>7 DEF picInv, paintInv, Painted
  <2>2. /\ k \in Slots /\ w.id # 0 /\ k + 1 = i
        /\ IsBorder(line, <<w.x, w.h>>, <<w.w - 1, w.h>>)
    BY <1>2, <1>7, GuiAssumption DEF borderInv, picInv, guiInv, tableInv
  <2>3. CASE line'.cnt > 0
    BY <1>2, <1>7, <2>1, <2>3 DEF Painted
  <2>4. CASE line'.cnt = 0
    <3>1. /\ line' \in LineType /\ line'.from = line.from /\ line'.to = line.to
          /\ line'.m = line.m
      BY <1>2, LoopKeepsLocals DEF Fixed
    <3>2. line.m = (line.to[1] - line.from[1]) + (line.to[2] - line.from[2])
      BY <1>2, <1>7, BorderOnScreen, StrokeLength
    <3>3. Stroke(line', px, py) <=> /\ px \in line'.from[1] .. line'.to[1]
                                    /\ py \in line'.from[2] .. line'.to[2]
      BY <1>1, <2>4, <3>1, <3>2, AllStroke
    <3>4. /\ w.x \in Int /\ w.w \in Int /\ w.h \in Int
          /\ window \in [Slots -> WindowType] /\ Fits(w)
          /\ w.active <=> w.id = id - 1
      BY <1>2, <2>2, ResolutionAssumption DEF windowsInv, WindowType
    <3>5. Stroke(line', px, py) <=> px \in w.x .. w.w - 1 /\ py = w.h
      BY <1>1, <2>2, <3>1, <3>3, <3>4 DEF IsBorder
    <3>6. Under(window, id - 1, k + 1, px, py) =
            IF px \in w.x .. w.w - 1 /\ py = w.h THEN "border"
            ELSE RightDone(window, id - 1, k, px, py)
      BY <2>2, <3>4, WindowComplete
    <3> HIDE DEF k, w
    <3>7. Pixel(px, py)' = Under(window, id - 1, i, px, py)
      BY <2>1, <2>2, <3>5, <3>6
    <3> QED  BY <1>2, <1>7, <2>4, <3>7 DEF Painted
  <2>5. line'.cnt = line.cnt - 1
    BY <1>2, LoopKeepsLocals
  <2> QED  BY <1>2, <2>3, <2>4, <2>5
<1> QED  BY <1>2, <1>4, <1>5, <1>6, <1>7

\* The mouse, and the steps that paint nothing.
LEMMA PaintRest ==
  ASSUME picInv,
         \/ GUI_DrawMouse \/ Again \/ ClientLine \/ ClearTable
         \/ Create("first", "second") \/ Create("second", "desktop") \/ UNCHANGED guiVars
  PROVE  paintInv'
<1> SUFFICES ASSUME NEW px \in Columns, NEW py \in Rows  PROVE Painted(px, py)'
  BY DEF paintInv, Columns, Rows
<1>1. CASE GUI_DrawMouse
  <2>1. /\ pc = "mouse" /\ pc' = "shown" /\ fb' = Mouse(fb) /\ UNCHANGED <<window, id>>
    BY <1>1 DEF GUI_DrawMouse, At, Go
  <2>2. Pixel(px, py) = Under(window, id - 1, MAX_WINDOWS, px, py)
    BY <2>1 DEF picInv, paintInv, Painted
  <2>3. Pixel(px, py)' = Seen(px, py)'
    BY <2>1, <2>2, MouseOnTop
  <2> QED  BY <2>1, <2>3 DEF Painted
<1>2. CASE \/ Again \/ ClientLine \/ ClearTable
           \/ Create("first", "second") \/ Create("second", "desktop")
  <2>1. pc' \in {"desktop", "called", "first", "second"}
    BY <1>2 DEF Again, ClientLine, ClearTable, Create, Go
  <2> QED  BY <2>1 DEF Painted
<1>3. CASE UNCHANGED guiVars
  <2>1. UNCHANGED <<fb, line, window, id, i, pc>>
    BY <1>3 DEF guiVars
  <2>2. Pixel(px, py)' = Pixel(px, py) /\ Seen(px, py)' = Seen(px, py)
    BY <2>1 DEF Pixel, Seen
  <2>3. Painted(px, py)
    BY DEF picInv, paintInv
  <2> QED  BY <2>1, <2>2, <2>3 DEF Painted
<1> QED  BY <1>1, <1>2, <1>3

\* The picture before GUI_Init.
LEMMA PictureInit == guiInit => picInv
<1> SUFFICES ASSUME guiInit  PROVE picInv
  OBVIOUS
<1>1. guiInv
  BY InitHolds
<1>2. windowsInv
  <2>1. Unused \in WindowType /\ Unused.id = 0
    BY ResolutionAssumption DEF Unused, WindowType
  <2>2. window = [s \in Slots |-> Unused] /\ id = 1 /\ pc = "start"
    BY DEF guiInit
  <2> HIDE DEF Unused
  <2> QED  BY <2>1, <2>2 DEF windowsInv, Steps
<1>3. line.cnt = 0 /\ line.k = 0 /\ line.m \in Nat
  <2> DEFINE l == Locals(<<0, 0>>, <<0, 0>>, "line")
             o == <<0, 0>>
             rgb == "line"
  <2>1. o \in Int \X Int /\ rgb \in Ink /\ l = Locals(o, o, rgb) /\ line = [l EXCEPT !.cnt = 0]
    BY DEF Ink, guiInit
  <2> HIDE DEF o, rgb, l
  <2>2. l \in LineType /\ l.m >= l.n /\ l.n >= 0 /\ l.k = 0
    BY <2>1, LocalsFacts
  <2>3. l.m \in Int /\ l.n \in Int
    BY <2>2 DEF LineType
  <2> QED  BY <2>1, <2>2, <2>3 DEF LineType
<1>4. borderInv
  BY <1>3 DEF guiInit, borderInv
<1>5. paintInv
  BY DEF guiInit, paintInv, Painted
<1>6. bufferInv
  BY <1>3 DEF guiInit, bufferInv, Colors
<1> QED  BY <1>1, <1>2, <1>4, <1>5, <1>6 DEF picInv

\* Every step of GUI_Init adds its part to the picture.
LEMMA PictureStep == picInv /\ [guiNext]_guiVars => picInv'
<1> SUFFICES ASSUME picInv, [guiNext]_guiVars  PROVE picInv'
  OBVIOUS
<1>1. guiInv' /\ windowsInv' /\ borderInv' /\ bufferInv'
  BY StepHolds, WindowsStep, BorderStep, BufferStep DEF picInv
<1>2. paintInv'
  BY PaintDesktop, PaintNext, PaintWindow, PaintBorders, PaintLine, PaintRest DEF guiNext
<1> QED  BY <1>1, <1>2 DEF picInv

\* The invariant of GUI_Init: the table, the line being drawn and the picture.
THEOREM PictureInvariant == guiSpec => []picInv
BY PictureInit, PictureStep, PTL DEF guiSpec

\* The frame buffer holds only colours of the GUI and the windows their table
\* entries, for every resolution and all windows.
THEOREM GuiTypes == guiSpec => []guiTypeOK
<1>1. picInv => guiTypeOK
  BY DEF picInv, bufferInv, windowsInv, WindowType, guiInv, lineInv, tableInv, guiTypeOK
<1> QED  BY <1>1, PictureInvariant, PTL

\* Each turn of GUI_Init leaves the picture of overlapping windows, for every
\* resolution, every size of the table, all windows that fit the screen and
\* every bitmap of the mouse.
THEOREM PictureRight == guiSpec => []PictureIsRight
<1>1. picInv => PictureIsRight
  <2> SUFFICES ASSUME picInv, pc = "shown", NEW pt \in Points
               PROVE  fb[pt[2] * Width + pt[1]] = Seen(pt[1], pt[2])
    BY DEF PictureIsRight
  <2>1. pt[1] \in Columns /\ pt[2] \in Rows
    BY DEF Points, Columns, Rows
  <2>2. Pixel(pt[1], pt[2]) = Seen(pt[1], pt[2])
    BY <2>1 DEF picInv, paintInv, Painted
  <2> QED  BY <2>2 DEF Pixel
<1> QED  BY <1>1, PictureInvariant, PTL
=============================================================================
