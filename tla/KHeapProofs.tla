---------------------------- MODULE KHeapProofs -----------------------------
(***************************************************************************)
(* The heap for every page size, heap area, set of requests and number of  *)
(* blocks, and for clients that free in any order and align whatever they  *)
(* like: up to the first of the four defects, it is a heap.                *)
(*                                                                         *)
(* The layout that every call keeps: chunks, each a hole of the index or a *)
(* client's block, lie side by side from the start of the heap to its end, *)
(* and each has a right header; a block has a right footer as well, a hole *)
(* need not.  A call takes the chunks of a stretch of the heap away and    *)
(* puts others there, and writes nowhere else; Rebuild says that this      *)
(* keeps the layout.                                                       *)
(*                                                                         *)
(* The last section is about the index alone, whatever the clients do.     *)
(***************************************************************************)
EXTENDS KHeap, FiniteSetTheorems, NaturalsInduction, WellFoundedInduction, TLAPS

\* What a word of memory holds.
Cell == -2 .. 2 ^ Bits - 1

\* The header of a block, and the items of an array.
Hdr(b) == b.addr - H
SetOf(array) == {array[i] : i \in 1 .. Len(array)}
Once(array) == \A i, j \in 1 .. Len(array) : array[i] = array[j] => i = j

\* The chunks at the headers C lie side by side from lo to hi.
Tiles(C, m, lo, hi) ==
  /\ \A c \in C : /\ c \in Int /\ m[c + 2] \in Int
                  /\ lo <= c /\ 5 <= m[c + 2] /\ c + m[c + 2] <= hi
  /\ \A c, d \in C : c < d => c + m[c + 2] <= d
  /\ \A a \in lo .. hi - 1 : \E c \in C : c <= a /\ a < c + m[c + 2]

\* The words of a hole, and of a block with its footer and what is written in it.
HoleAt(m, h) == m[h] = MAGIC /\ m[h + 1] = 1
BlockAt(m, b) ==
  /\ b.addr \in Int /\ b.size \in Int /\ 1 <= b.size
  /\ m[Hdr(b)] = MAGIC /\ m[Hdr(b) + 1] = 0
  /\ b.size + 5 <= m[Hdr(b) + 2]
  /\ m[(Hdr(b) + m[Hdr(b) + 2]) - 2] = MAGIC
  /\ m[(Hdr(b) + m[Hdr(b) + 2]) - 1] = Hdr(b)
  /\ b.written => \A a \in Payload(b) : m[a] = DATA

\* The holes Hs and the blocks L, from lo to hi.
Layout(Hs, L, m, lo, hi) ==
  /\ Tiles(Hs \cup {Hdr(b) : b \in L}, m, lo, hi)
  /\ \A h \in Hs : HoleAt(m, h)
  /\ \A b \in L : BlockAt(m, b)
  /\ \A b, c \in L : Hdr(b) = Hdr(c) => b = c

\* The inductive invariant.
typesInv ==
  /\ request \in Requests \cup {None}
  /\ mode \in {"run", "panic", "undefined"}
  /\ defect \in Defects \cup {"none"}

wordsInv ==
  /\ mem \in [Mapped -> Cell] /\ mem[Start - F] # MAGIC
  /\ end \in Start + MinSize .. HeapMax /\ end \in {Page * n : n \in 1 .. HeapMax}
  /\ index \in Seq(Int) /\ Once(index)
  /\ IsFiniteSet(live)
  /\ live \subseteq [addr : Int, size : {r.size : r \in Requests}, written : BOOLEAN]

heapInv ==
  /\ typesInv
  /\ Sound => wordsInv /\ Layout(SetOf(index), live, mem, Start, end)

-----------------------------------------------------------------------------
(* Words and pages.                                                        *)

\* The constants are numbers, and small enough for an address.
LEMMA Sizes32 ==
  /\ Page \in Int /\ Page > 5
  /\ Start \in Int /\ InitialEnd \in Int /\ HeapMax \in Int /\ MinSize \in Int
  /\ 2 ^ Bits \in Int /\ HeapMax < 2 ^ Bits
  /\ Start >= Page /\ MinSize >= 2 * Page
  /\ Start + MinSize <= InitialEnd /\ InitialEnd <= HeapMax
<1>1. Page \in Int /\ Page > 5
  BY HeapAssumption DEF Overhead, H, F
<1>2. PICK n \in 1 .. HeapMax : Start = Page * n
  BY HeapAssumption
<1>3. \A x \in {Start, InitialEnd, HeapMax, MinSize} : \E k \in 1 .. HeapMax : x = Page * k
  BY HeapAssumption
<1>4. \A x \in {Start, InitialEnd, HeapMax, MinSize} : x \in Int
  BY <1>1, <1>3
<1>5. Start >= Page
  BY <1>1, <1>2
<1> QED  BY <1>1, <1>4, <1>5, HeapAssumption

\* Computing modulo 2^Bits changes no address of the heap and no size.
LEMMA Small ==
  ASSUME NEW n \in Int, 0 <= n, n <= HeapMax
  PROVE  U(n) = n
BY Sizes32 DEF U

\* What a header in memory says.
LEMMA Reads ==
  ASSUME NEW m, NEW h \in Int, 0 <= h, h + 2 < HeapMax
  PROVE  /\ IsMagic(m, h) <=> m[h] = MAGIC
         /\ IsHole(m, h) <=> m[h + 1] # 0
         /\ SizeAt(m, h) = m[h + 2]
         /\ Word(m, U(h + 1)) = m[h + 1]
<1>1. U(h + 1) = h + 1 /\ U(h + 2) = h + 2
  BY Small, Sizes32
<1>2. h \in Mapped /\ h + 1 \in Mapped /\ h + 2 \in Mapped
  BY Sizes32 DEF Mapped
<1> QED  BY <1>1, <1>2 DEF IsMagic, IsHole, SizeAt, Word

\* What PutSize, PutHeader and PutFooter write, and what they leave alone.
LEMMA SizePut ==
  ASSUME NEW m \in [Mapped -> Cell], NEW h \in Int, 0 <= h, h + 2 < HeapMax,
         NEW size \in Cell
  PROVE  /\ PutSize(m, h, size) \in [Mapped -> Cell]
         /\ PutSize(m, h, size)[h + 2] = size
         /\ \A a \in Mapped : a # h + 2 => PutSize(m, h, size)[a] = m[a]
<1>1. U(h + 2) = h + 2 /\ h + 2 \in Mapped
  BY Small, Sizes32 DEF Mapped
<1> QED  BY <1>1 DEF PutSize

\* A header is put into three words.
LEMMA HeaderPut ==
  ASSUME NEW m \in [Mapped -> Cell], NEW h \in Int, 0 <= h, h + 2 < HeapMax,
         NEW hole \in Cell, NEW size \in Cell
  PROVE  /\ PutHeader(m, h, hole, size) \in [Mapped -> Cell]
         /\ PutHeader(m, h, hole, size)[h] = MAGIC
         /\ PutHeader(m, h, hole, size)[h + 1] = hole
         /\ PutHeader(m, h, hole, size)[h + 2] = size
         /\ \A a \in Mapped : a \notin h .. h + 2 => PutHeader(m, h, hole, size)[a] = m[a]
<1>1. U(h + 1) = h + 1 /\ U(h + 2) = h + 2
  BY Small, Sizes32
<1>2. h \in Mapped /\ h + 1 \in Mapped /\ h + 2 \in Mapped
  BY Sizes32 DEF Mapped
<1>3. MAGIC \in Cell
  BY Sizes32 DEF MAGIC, Cell
<1> DEFINE m2 == [m EXCEPT ![h] = MAGIC, ![h + 1] = hole, ![h + 2] = size]
<1>4. PutHeader(m, h, hole, size) = m2
  BY <1>1 DEF PutHeader
<1>5. h # h + 1 /\ h # h + 2 /\ h + 1 # h + 2
  OBVIOUS
<1>6. \A a \in Mapped : a \notin h .. h + 2 => a # h /\ a # h + 1 /\ a # h + 2
  BY Sizes32
<1>7. m2 \in [Mapped -> Cell]
  BY <1>3
<1>8. m2[h] = MAGIC /\ m2[h + 1] = hole /\ m2[h + 2] = size
  BY <1>2, <1>5
<1>9. \A a \in Mapped : a \notin h .. h + 2 => m2[a] = m[a]
  BY <1>6
<1> QED  BY <1>4, <1>7, <1>8, <1>9

\* A footer is put into two words.
LEMMA FooterPut ==
  ASSUME NEW m \in [Mapped -> Cell], NEW f \in Int, 0 <= f, f + 1 < HeapMax,
         NEW h \in Cell
  PROVE  /\ PutFooter(m, f, h) \in [Mapped -> Cell]
         /\ PutFooter(m, f, h)[f] = MAGIC
         /\ PutFooter(m, f, h)[f + 1] = h
         /\ \A a \in Mapped : a \notin f .. f + 1 => PutFooter(m, f, h)[a] = m[a]
<1>1. U(f + 1) = f + 1
  BY Small, Sizes32
<1>2. f \in Mapped /\ f + 1 \in Mapped
  BY Sizes32 DEF Mapped
<1>3. MAGIC \in Cell
  BY Sizes32 DEF MAGIC, Cell
<1> DEFINE m2 == [m EXCEPT ![f] = MAGIC, ![f + 1] = h]
<1>4. PutFooter(m, f, h) = m2
  BY <1>1 DEF PutFooter
<1>5. f # f + 1
  OBVIOUS
<1>6. \A a \in Mapped : a \notin f .. f + 1 => a # f /\ a # f + 1
  BY Sizes32
<1>7. m2 \in [Mapped -> Cell]
  BY <1>3
<1>8. m2[f] = MAGIC /\ m2[f + 1] = h
  BY <1>2, <1>5
<1>9. \A a \in Mapped : a \notin f .. f + 1 => m2[a] = m[a]
  BY <1>6
<1> QED  BY <1>4, <1>7, <1>8, <1>9


\* expand goes on to a page boundary beyond what is needed.
LEMMA NextPage ==
  ASSUME NEW size \in Int, size >= Page
  PROVE  /\ ExpandedSize(size) \in Int /\ ExpandedSize(size) > size
         /\ \E n \in Int : n >= 1 /\ ExpandedSize(size) = n * Page
<1> DEFINE q == size \div Page
<1>1. Page \in Int /\ Page > 0
  BY Sizes32
<1>2. q \in Int /\ size >= Page * q /\ size < Page * q + Page
  <2>1. /\ size = Page * q + (size % Page)
        /\ size % Page \in 0 .. Page - 1 /\ q \in Int
    BY <1>1
  <2> QED  BY <1>1, <2>1
<1> HIDE DEF q
<1>3. q >= 1
  <2> SUFFICES ASSUME q <= 0  PROVE FALSE
    BY <1>2
  <2>1. Page * q <= 0
    BY <1>1, <1>2
  <2> QED  BY <1>1, <1>2, <2>1
<1>4. ExpandedSize(size) = (q + 1) * Page
  BY DEF ExpandedSize, q
<1>5. (q + 1) * Page = Page * q + Page
  BY <1>1, <1>2
<1>6. q + 1 \in Int /\ q + 1 >= 1
  BY <1>2, <1>3
<1>7. \E n \in Int : n >= 1 /\ ExpandedSize(size) = n * Page
  BY <1>4, <1>6
<1>8. Page * q \in Int
  BY <1>1, <1>2
<1> QED  BY <1>1, <1>2, <1>4, <1>5, <1>7, <1>8

\* Whole pages behind whole pages.
LEMMA WholePages ==
  ASSUME NEW n \in Int, n >= 1, Start + n * Page <= HeapMax
  PROVE  Start + n * Page \in {Page * k : k \in 1 .. HeapMax}
<1>1. PICK m \in 1 .. HeapMax : Start = Page * m
  BY HeapAssumption
<1>2. Page \in Int /\ Page > 0 /\ HeapMax \in Int
  BY Sizes32
<1>3. Start + n * Page = Page * (m + n)
  BY <1>1, <1>2
<1>4. m + n \in Int /\ m + n >= 1 /\ Page * (m + n) <= HeapMax
  BY <1>1, <1>2, <1>3
<1>5. Page * (m + n) >= m + n
  BY <1>2, <1>4
<1>6. m + n \in 1 .. HeapMax
  BY <1>2, <1>4, <1>5
<1> QED  BY <1>3, <1>6


-----------------------------------------------------------------------------
(* Layouts.                                                                *)

\* Cutting at a chunk, joining, and moving to another memory.
LEMMA TilesSplit ==
  ASSUME NEW C, NEW m, NEW lo \in Int, NEW hi \in Int, Tiles(C, m, lo, hi),
         NEW x \in Int, lo <= x, x <= hi, x \in C \/ x = hi
  PROVE  /\ Tiles({c \in C : c < x}, m, lo, x)
         /\ Tiles({c \in C : ~(c < x)}, m, x, hi)
<1> DEFINE A == {c \in C : c < x}
           B == {c \in C : ~(c < x)}
<1>1. \A c \in C : /\ c \in Int /\ m[c + 2] \in Int
                   /\ lo <= c /\ 5 <= m[c + 2] /\ c + m[c + 2] <= hi
  BY DEF Tiles
<1>2. \A c, d \in C : c < d => c + m[c + 2] <= d
  BY DEF Tiles
<1>3. \A a \in lo .. hi - 1 : \E c \in C : c <= a /\ a < c + m[c + 2]
  BY DEF Tiles
<1>4. \A c \in A : c + m[c + 2] <= x
  BY <1>1, <1>2
<1>5. \A a \in lo .. x - 1 : \E c \in A : c <= a /\ a < c + m[c + 2]
  <2> SUFFICES ASSUME NEW a \in lo .. x - 1
               PROVE  \E c \in A : c <= a /\ a < c + m[c + 2]
    OBVIOUS
  <2>1. a \in lo .. hi - 1
    OBVIOUS
  <2>2. PICK c \in C : c <= a /\ a < c + m[c + 2]
    BY <1>3, <2>1
  <2>3. c \in A
    BY <1>1, <2>2
  <2> QED  BY <2>2, <2>3
<1>6. \A a \in x .. hi - 1 : \E c \in B : c <= a /\ a < c + m[c + 2]
  <2> SUFFICES ASSUME NEW a \in x .. hi - 1
               PROVE  \E c \in B : c <= a /\ a < c + m[c + 2]
    OBVIOUS
  <2>1. a \in lo .. hi - 1
    OBVIOUS
  <2>2. PICK c \in C : c <= a /\ a < c + m[c + 2]
    BY <1>3, <2>1
  <2>3. c \in B
    BY <1>1, <1>4, <2>2
  <2> QED  BY <2>2, <2>3
<1>7. Tiles(A, m, lo, x)
  BY <1>1, <1>2, <1>4, <1>5 DEF Tiles
<1>8. Tiles(B, m, x, hi)
  BY <1>1, <1>2, <1>6 DEF Tiles
<1> QED  BY <1>7, <1>8

\* Joining.
LEMMA TilesJoin ==
  ASSUME NEW A, NEW B, NEW m, NEW lo \in Int, NEW x \in Int, NEW hi \in Int,
         Tiles(A, m, lo, x), Tiles(B, m, x, hi), lo <= x, x <= hi
  PROVE  Tiles(A \cup B, m, lo, hi)
<1>1. \A c \in A : /\ c \in Int /\ m[c + 2] \in Int
                   /\ lo <= c /\ 5 <= m[c + 2] /\ c + m[c + 2] <= x
  BY DEF Tiles
<1>2. \A c \in B : /\ c \in Int /\ m[c + 2] \in Int
                   /\ x <= c /\ 5 <= m[c + 2] /\ c + m[c + 2] <= hi
  BY DEF Tiles
<1>3. \A c, d \in A \cup B : c < d => c + m[c + 2] <= d
  <2>1. \A c, d \in A : c < d => c + m[c + 2] <= d
    BY DEF Tiles
  <2>2. \A c, d \in B : c < d => c + m[c + 2] <= d
    BY DEF Tiles
  <2>3. \A c \in A, d \in B : c + m[c + 2] <= d
    BY <1>1, <1>2
  <2>4. \A c \in A, d \in B : ~(d < c)
    BY <1>1, <1>2
  <2> QED  BY <2>1, <2>2, <2>3, <2>4
<1>4. \A a \in lo .. hi - 1 : \E c \in A \cup B : c <= a /\ a < c + m[c + 2]
  <2> SUFFICES ASSUME NEW a \in lo .. hi - 1
               PROVE  \E c \in A \cup B : c <= a /\ a < c + m[c + 2]
    OBVIOUS
  <2>1. CASE a < x
    <3>1. a \in lo .. x - 1
      BY <2>1
    <3>2. \E c \in A : c <= a /\ a < c + m[c + 2]
      BY <3>1 DEF Tiles
    <3> QED  BY <3>2
  <2>2. CASE ~(a < x)
    <3>1. a \in x .. hi - 1
      BY <2>2
    <3>2. \E c \in B : c <= a /\ a < c + m[c + 2]
      BY <3>1 DEF Tiles
    <3> QED  BY <3>2
  <2> QED  BY <2>1, <2>2
<1>5. \A c \in A \cup B : /\ c \in Int /\ m[c + 2] \in Int
                          /\ lo <= c /\ 5 <= m[c + 2] /\ c + m[c + 2] <= hi
  BY <1>1, <1>2
<1> QED  BY <1>3, <1>4, <1>5 DEF Tiles

\* The words of a chunk are its own.
LEMMA LayoutFrame ==
  ASSUME NEW Hs, NEW L, NEW m, NEW m2, NEW lo \in Int, NEW hi \in Int,
         Layout(Hs, L, m, lo, hi), \A a \in lo .. hi - 1 : m2[a] = m[a]
  PROVE  Layout(Hs, L, m2, lo, hi)
<1> DEFINE C == Hs \cup {Hdr(b) : b \in L}
<1>1. Tiles(C, m, lo, hi)
  BY DEF Layout
<1>2. \A c \in C : /\ c \in Int /\ m[c + 2] \in Int
                   /\ lo <= c /\ 5 <= m[c + 2] /\ c + m[c + 2] <= hi
  BY <1>1 DEF Tiles
<1>3. ASSUME NEW c \in C
      PROVE  /\ m2[c] = m[c] /\ m2[c + 1] = m[c + 1] /\ m2[c + 2] = m[c + 2]
             /\ \A a \in c .. (c + m[c + 2]) - 1 : m2[a] = m[a]
  <2>1. c \in Int /\ m[c + 2] \in Int /\ lo <= c /\ 5 <= m[c + 2] /\ c + m[c + 2] <= hi
    BY <1>2
  <2>2. c \in lo .. hi - 1 /\ c + 1 \in lo .. hi - 1 /\ c + 2 \in lo .. hi - 1
    BY <2>1
  <2>3. \A a \in c .. (c + m[c + 2]) - 1 : a \in lo .. hi - 1
    BY <2>1
  <2> QED  BY <2>2, <2>3
<1>4. Tiles(C, m2, lo, hi)
  <2> HIDE DEF C
  <2> QED  BY <1>1, <1>3 DEF Tiles
<1>5. \A h \in Hs : HoleAt(m2, h)
  BY <1>3 DEF Layout, HoleAt
<1>6. ASSUME NEW b \in L  PROVE BlockAt(m2, b)
  <2> DEFINE c == Hdr(b)
             s == m[c + 2]
  <2>1. c \in C
    OBVIOUS
  <2>2. BlockAt(m, b)
    BY DEF Layout
  <2>3. c \in Int /\ s \in Int /\ 5 <= s /\ c + s <= hi /\ lo <= c
    BY <1>2, <2>1
  <2>4. m2[c] = m[c] /\ m2[c + 1] = m[c + 1] /\ m2[c + 2] = s
    BY <1>3, <2>1
  <2>5. \A a \in c .. (c + s) - 1 : m2[a] = m[a]
    BY <1>3, <2>1
  <2>6. b.addr \in Int /\ b.size \in Int /\ 1 <= b.size /\ b.size + 5 <= s /\ c = b.addr - 3
    BY <2>2 DEF BlockAt, Hdr, H
  <2> HIDE DEF C
  <2>7. (c + s) - 2 \in c .. (c + s) - 1 /\ (c + s) - 1 \in c .. (c + s) - 1
    <3> HIDE DEF c, s
    <3> QED  BY <2>3
  <2>8. \A a \in Payload(b) : a \in c .. (c + s) - 1
    <3> HIDE DEF c, s
    <3> QED  BY <2>3, <2>6 DEF Payload
  <2>9. /\ m[c] = MAGIC /\ m[c + 1] = 0 /\ m[(c + s) - 2] = MAGIC /\ m[(c + s) - 1] = c
        /\ b.written => \A a \in Payload(b) : m[a] = DATA
    BY <2>2 DEF BlockAt
  <2>10. /\ m2[c] = MAGIC /\ m2[c + 1] = 0 /\ m2[(c + s) - 2] = MAGIC /\ m2[(c + s) - 1] = c
         /\ b.written => \A a \in Payload(b) : m2[a] = DATA
    <3> HIDE DEF c, s
    <3> QED  BY <2>4, <2>5, <2>7, <2>8, <2>9
  <2> QED  BY <2>4, <2>6, <2>10 DEF BlockAt
<1> QED  BY <1>4, <1>5, <1>6 DEF Layout

\* Cutting a layout at a chunk.
LEMMA LayoutSplit ==
  ASSUME NEW Hs, NEW L, NEW m, NEW lo \in Int, NEW hi \in Int, Layout(Hs, L, m, lo, hi),
         NEW x \in Int, lo <= x, x <= hi, x \in Hs \/ x \in {Hdr(b) : b \in L} \/ x = hi
  PROVE  /\ Layout({h \in Hs : h < x}, {b \in L : Hdr(b) < x}, m, lo, x)
         /\ Layout({h \in Hs : ~(h < x)}, {b \in L : ~(Hdr(b) < x)}, m, x, hi)
<1> DEFINE C == Hs \cup {Hdr(b) : b \in L}
           LA == {b \in L : Hdr(b) < x}
           LB == {b \in L : ~(Hdr(b) < x)}
           HA == {h \in Hs : h < x}
           HB == {h \in Hs : ~(h < x)}
<1>1. Tiles(C, m, lo, hi) /\ (x \in C \/ x = hi)
  BY DEF Layout
<1>2. Tiles({c \in C : c < x}, m, lo, x) /\ Tiles({c \in C : ~(c < x)}, m, x, hi)
  <2> HIDE DEF C
  <2> QED  BY <1>1, TilesSplit
<1>3. {c \in C : c < x} = HA \cup {Hdr(b) : b \in LA}
  OBVIOUS
<1>4. {c \in C : ~(c < x)} = HB \cup {Hdr(b) : b \in LB}
  OBVIOUS
<1>5. Tiles(HA \cup {Hdr(b) : b \in LA}, m, lo, x) /\ Tiles(HB \cup {Hdr(b) : b \in LB}, m, x, hi)
  <2> HIDE DEF C, HA, HB, LA, LB
  <2> QED  BY <1>2, <1>3, <1>4
<1>6. /\ \A h \in HA : HoleAt(m, h)
      /\ \A b \in LA : BlockAt(m, b)
      /\ \A b, c \in LA : Hdr(b) = Hdr(c) => b = c
  BY DEF Layout
<1>7. /\ \A h \in HB : HoleAt(m, h)
      /\ \A b \in LB : BlockAt(m, b)
      /\ \A b, c \in LB : Hdr(b) = Hdr(c) => b = c
  BY DEF Layout
<1> HIDE DEF C, HA, HB, LA, LB
<1>8. Layout(HA, LA, m, lo, x) /\ Layout(HB, LB, m, x, hi)
  BY <1>5, <1>6, <1>7 DEF Layout
<1> QED  BY <1>8 DEF HA, HB, LA, LB

\* Joining two layouts.
LEMMA LayoutJoin ==
  ASSUME NEW HA, NEW LA, NEW HB, NEW LB, NEW m, NEW lo \in Int, NEW x \in Int, NEW hi \in Int,
         Layout(HA, LA, m, lo, x), Layout(HB, LB, m, x, hi), lo <= x, x <= hi
  PROVE  Layout(HA \cup HB, LA \cup LB, m, lo, hi)
<1> DEFINE A == HA \cup {Hdr(b) : b \in LA}
           B == HB \cup {Hdr(b) : b \in LB}
<1>1. Tiles(A, m, lo, x) /\ Tiles(B, m, x, hi)
  BY DEF Layout
<1>2. Tiles(A \cup B, m, lo, hi)
  <2> HIDE DEF A, B
  <2> QED  BY <1>1, TilesJoin
<1>3. A \cup B = (HA \cup HB) \cup {Hdr(b) : b \in LA \cup LB}
  OBVIOUS
<1>4. \A c \in A, d \in B : c # d
  <2> HIDE DEF A, B
  <2>1. \A c \in A : c \in Int /\ m[c + 2] \in Int /\ 5 <= m[c + 2] /\ c + m[c + 2] <= x
    BY <1>1 DEF Tiles
  <2>2. \A d \in B : d \in Int /\ x <= d
    BY <1>1 DEF Tiles
  <2> QED  BY <2>1, <2>2
<1>5. \A b \in LA, c \in LB : Hdr(b) # Hdr(c)
  BY <1>4
<1>6. \A b, c \in LA \cup LB : Hdr(b) = Hdr(c) => b = c
  BY <1>5 DEF Layout
<1>7. (\A h \in HA \cup HB : HoleAt(m, h)) /\ (\A b \in LA \cup LB : BlockAt(m, b))
  BY DEF Layout
<1>8. Tiles((HA \cup HB) \cup {Hdr(b) : b \in LA \cup LB}, m, lo, hi)
  <2> HIDE DEF A, B
  <2> QED  BY <1>2, <1>3
<1> QED  BY <1>6, <1>7, <1>8 DEF Layout

\* A stretch of one hole, of one block, and of nothing.
LEMMA LayoutHole ==
  ASSUME NEW m, NEW h \in Int, NEW s \in Int, 5 <= s, HoleAt(m, h), m[h + 2] = s
  PROVE  Layout({h}, {}, m, h, h + s)
<1>1. Tiles({h}, m, h, h + s)
  BY DEF Tiles
<1>2. {h} \cup {Hdr(b) : b \in {}} = {h}
  OBVIOUS
<1> QED  BY <1>1, <1>2 DEF Layout

\* One block.
LEMMA LayoutBlock ==
  ASSUME NEW m, NEW b, NEW s \in Int, 5 <= s, BlockAt(m, b), m[Hdr(b) + 2] = s
  PROVE  Layout({}, {b}, m, Hdr(b), Hdr(b) + s)
<1> DEFINE h == Hdr(b)
<1>1. h \in Int
  BY DEF BlockAt, Hdr, H
<1> HIDE DEF h
<1>2. Tiles({h}, m, h, h + s)
  BY <1>1 DEF Tiles, h
<1>3. {} \cup {Hdr(c) : c \in {b}} = {h}
  BY DEF h
<1> QED  BY <1>2, <1>3 DEF Layout, h

\* Nothing.
LEMMA LayoutNone ==
  ASSUME NEW m, NEW x \in Int
  PROVE  Layout({}, {}, m, x, x)
<1>1. Tiles({}, m, x, x)
  BY DEF Tiles
<1>2. {} \cup {Hdr(b) : b \in {}} = {}
  OBVIOUS
<1> QED  BY <1>1, <1>2 DEF Layout

\* A stretch of the heap is built anew, and the heap may end elsewhere if the
\* stretch was its last.
LEMMA Rebuild ==
  ASSUME NEW Hs, NEW L, NEW m, NEW e \in Int, Layout(Hs, L, m, Start, e),
         NEW x \in Int, NEW y \in Int, Start <= x, x <= y, y <= e,
         x \in Hs \/ x \in {Hdr(b) : b \in L} \/ x = e,
         y \in Hs \/ y \in {Hdr(b) : b \in L} \/ y = e,
         NEW HD, NEW LD, NEW m2, NEW y2 \in Int, NEW e2 \in Int,
         x <= y2, Layout(HD, LD, m2, x, y2),
         \A a \in Start .. x - 1 : m2[a] = m[a],
         \/ y2 = y /\ e2 = e /\ \A a \in y .. e - 1 : m2[a] = m[a]
         \/ y = e /\ y2 = e2
  PROVE  Layout({h \in Hs : h < x \/ ~(h < y)} \cup HD,
                {b \in L : Hdr(b) < x \/ ~(Hdr(b) < y)} \cup LD, m2, Start, e2)
<1> DEFINE HA == {h \in Hs : h < x}
           LA == {b \in L : Hdr(b) < x}
           HB == {h \in Hs : ~(h < y)}
           LB == {b \in L : ~(Hdr(b) < y)}
<1>0. Start \in Int
  BY Sizes32
<1>1. Layout(HA, LA, m, Start, x)
  <2>1. x <= e
    OBVIOUS
  <2> QED  BY <1>0, <2>1, LayoutSplit
<1>2. Layout(HB, LB, m, y, e)
  <2>1. Start <= y
    BY <1>0
  <2> QED  BY <1>0, <2>1, LayoutSplit
<1> HIDE DEF HA, LA, HB, LB
<1>3. Layout(HA, LA, m2, Start, x)
  BY <1>0, <1>1, LayoutFrame
<1>4. Layout(HA \cup HD, LA \cup LD, m2, Start, y2)
  BY <1>0, <1>3, LayoutJoin
<1>5. Layout(HB, LB, m2, y2, e2) /\ y2 <= e2
  <2>1. CASE y2 = y /\ e2 = e /\ \A a \in y .. e - 1 : m2[a] = m[a]
    BY <1>2, <2>1, LayoutFrame
  <2>2. CASE y = e /\ y2 = e2
    <3>1. Tiles(HB \cup {Hdr(b) : b \in LB}, m, e, e)
      BY <1>2, <2>2 DEF Layout
    <3>2. HB \cup {Hdr(b) : b \in LB} = {}
      <4> DEFINE Z == HB \cup {Hdr(b) : b \in LB}
      <4>1. \A c \in Z : /\ c \in Int /\ m[c + 2] \in Int
                         /\ e <= c /\ 5 <= m[c + 2] /\ c + m[c + 2] <= e
        BY <3>1 DEF Tiles
      <4> QED  BY <4>1
    <3>3. HB = {} /\ LB = {}
      BY <3>2
    <3> QED  BY <2>2, <3>3, LayoutNone
  <2> QED  BY <2>1, <2>2
<1>6. Layout((HA \cup HD) \cup HB, (LA \cup LD) \cup LB, m2, Start, e2)
  <2>1. Start <= y2
    BY <1>0
  <2> QED  BY <1>0, <1>4, <1>5, <2>1, LayoutJoin
<1>7. (HA \cup HD) \cup HB = {h \in Hs : h < x \/ ~(h < y)} \cup HD
  BY DEF HA, HB
<1>8. (LA \cup LD) \cup LB = {b \in L : Hdr(b) < x \/ ~(Hdr(b) < y)} \cup LD
  BY DEF LA, LB
<1> QED  BY <1>6, <1>7, <1>8

\* A chunk shares no word with another.
LEMMA OnlyChunk ==
  ASSUME NEW C, NEW m, NEW lo, NEW hi, Tiles(C, m, lo, hi),
         NEW x \in C, NEW c \in C, x <= c, c < x + m[x + 2]
  PROVE  c = x
<1>1. x \in Int /\ c \in Int /\ m[x + 2] \in Int
  BY DEF Tiles
<1>2. x < c => x + m[x + 2] <= c
  BY DEF Tiles
<1> QED  BY <1>1, <1>2

\* Behind a chunk is the next one or the end.
LEMMA NextChunk ==
  ASSUME NEW C, NEW m, NEW lo \in Int, NEW hi \in Int, Tiles(C, m, lo, hi), NEW x \in C
  PROVE  x + m[x + 2] \in C \/ x + m[x + 2] = hi
<1> DEFINE y == x + m[x + 2]
<1>1. x \in Int /\ m[x + 2] \in Int /\ lo <= x /\ 5 <= m[x + 2] /\ y <= hi
  BY DEF Tiles
<1> SUFFICES ASSUME y # hi  PROVE y \in C
  OBVIOUS
<1>2. y \in lo .. hi - 1 /\ x < y
  BY <1>1
<1> HIDE DEF y
<1>3. PICK c \in C : c <= y /\ y < c + m[c + 2]
  BY <1>2 DEF Tiles
<1>4. c \in Int /\ m[c + 2] \in Int
  BY DEF Tiles
<1>5. c < x => c + m[c + 2] <= x
  BY DEF Tiles
<1>6. x < c => y <= c
  BY DEF Tiles, y
<1>7. c # x
  BY <1>1, <1>3 DEF y
<1>8. c = y
  BY <1>1, <1>2, <1>3, <1>4, <1>5, <1>6, <1>7
<1> QED  BY <1>8

\* A chunk ends at x.
ChunkBefore(C, m, x) == \E c \in C : c < x /\ c + m[c + 2] = x

\* In front of a place inside the stretch is a chunk.
LEMMA PreviousChunk ==
  ASSUME NEW C, NEW m, NEW lo \in Int, NEW hi \in Int, Tiles(C, m, lo, hi),
         NEW x \in C, lo < x
  PROVE  ChunkBefore(C, m, x)
<1>1. x \in Int /\ m[x + 2] \in Int /\ 5 <= m[x + 2] /\ x + m[x + 2] <= hi
  BY DEF Tiles
<1>2. x - 1 \in lo .. hi - 1
  BY <1>1
<1>3. PICK c \in C : c <= x - 1 /\ x - 1 < c + m[c + 2]
  BY <1>2 DEF Tiles
<1>4. c \in Int /\ m[c + 2] \in Int
  BY DEF Tiles
<1>5. c < x
  BY <1>1, <1>3, <1>4
<1>6. c + m[c + 2] <= x
  BY <1>5 DEF Tiles
<1> QED  BY <1>1, <1>3, <1>4, <1>5, <1>6 DEF ChunkBefore

\* The chunks of a layout: their numbers, and that a hole is no block.
Facts(Hs, L, m, lo, hi) ==
  LET C == Hs \cup {Hdr(b) : b \in L}
  IN /\ Tiles(C, m, lo, hi)
     /\ \A c \in C : /\ c \in Int /\ m[c + 2] \in Int /\ m[c] = MAGIC
                     /\ lo <= c /\ 5 <= m[c + 2] /\ c + m[c + 2] <= hi
     /\ \A h \in Hs : m[h + 1] = 1 /\ \A b \in L : Hdr(b) # h
     /\ \A b \in L : m[Hdr(b) + 1] = 0

\* A layout has them.
LEMMA LayoutFacts ==
  ASSUME NEW Hs, NEW L, NEW m, NEW lo \in Int, NEW hi \in Int, Layout(Hs, L, m, lo, hi)
  PROVE  Facts(Hs, L, m, lo, hi)
<1> DEFINE C == Hs \cup {Hdr(b) : b \in L}
<1>1. Tiles(C, m, lo, hi)
  BY DEF Layout
<1>2. \A h \in Hs : m[h] = MAGIC /\ m[h + 1] = 1
  BY DEF Layout, HoleAt
<1>3. \A b \in L : m[Hdr(b)] = MAGIC /\ m[Hdr(b) + 1] = 0
  BY DEF Layout, BlockAt
<1>4. \A c \in C : m[c] = MAGIC
  BY <1>2, <1>3
<1>5. \A c \in C : /\ c \in Int /\ m[c + 2] \in Int
                   /\ lo <= c /\ 5 <= m[c + 2] /\ c + m[c + 2] <= hi
  <2> HIDE DEF C
  <2> QED  BY <1>1 DEF Tiles
<1>6. \A h \in Hs : \A b \in L : Hdr(b) # h
  BY <1>2, <1>3
<1> QED  BY <1>1, <1>2, <1>3, <1>4, <1>5, <1>6 DEF Facts

\* In place of the hole at x other chunks are built.
LEMMA ReplaceHole ==
  ASSUME NEW Hs, NEW L, NEW m, NEW e \in Int, Layout(Hs, L, m, Start, e), NEW x \in Hs,
         NEW HD, NEW LD, NEW m2, NEW y2 \in Int, NEW e2 \in Int,
         x <= y2, Layout(HD, LD, m2, x, y2),
         \A a \in Start .. x - 1 : m2[a] = m[a],
         \/ y2 = x + m[x + 2] /\ e2 = e /\ \A a \in y2 .. e - 1 : m2[a] = m[a]
         \/ x + m[x + 2] = e /\ y2 = e2
  PROVE  Layout((Hs \ {x}) \cup HD, L \cup LD, m2, Start, e2)
<1> DEFINE C == Hs \cup {Hdr(b) : b \in L}
           y == x + m[x + 2]
<1>0. Start \in Int
  BY Sizes32
<1>1. /\ Tiles(C, m, Start, e)
      /\ \A c \in C : /\ c \in Int /\ m[c + 2] \in Int
                      /\ Start <= c /\ 5 <= m[c + 2] /\ c + m[c + 2] <= e
      /\ \A b \in L : Hdr(b) # x
  BY <1>0, LayoutFacts DEF Facts
<1>2. x \in C
  OBVIOUS
<1>3. x \in Int /\ m[x + 2] \in Int /\ Start <= x /\ 5 <= m[x + 2] /\ y <= e
  BY <1>1, <1>2
<1>4. y \in Int /\ x <= y
  BY <1>3
<1>5. y \in C \/ y = e
  <2> HIDE DEF C
  <2> QED  BY <1>0, <1>1, <1>2, NextChunk
<1>6. \A c \in C : x <= c /\ c < y => c = x
  <2> HIDE DEF C
  <2> QED  BY <1>1, <1>2, OnlyChunk
<1>7. \A c \in C : c \in Int
  BY <1>1
<1>8. {h \in Hs : h < x \/ ~(h < y)} = Hs \ {x}
  <2>1. \A h \in Hs : h \in Int /\ (x <= h /\ h < y => h = x)
    BY <1>6, <1>7
  <2>2. ~(x < x) /\ x < y
    BY <1>3
  <2> HIDE DEF y
  <2>3. \A h \in Hs : (h < x \/ ~(h < y)) <=> h # x
    BY <1>3, <1>4, <2>1, <2>2
  <2> QED  BY <2>3
<1>9. {b \in L : Hdr(b) < x \/ ~(Hdr(b) < y)} = L
  <2>1. \A b \in L : Hdr(b) \in C
    OBVIOUS
  <2>2. \A b \in L : Hdr(b) \in Int /\ (x <= Hdr(b) /\ Hdr(b) < y => Hdr(b) = x)
    BY <1>6, <1>7, <2>1
  <2> HIDE DEF y, C
  <2>3. \A b \in L : Hdr(b) < x \/ ~(Hdr(b) < y)
    BY <1>1, <1>3, <1>4, <2>2
  <2> QED  BY <2>3
<1>10. \/ y2 = y /\ e2 = e /\ \A a \in y .. e - 1 : m2[a] = m[a]
       \/ y = e /\ y2 = e2
  <2>1. CASE y2 = x + m[x + 2] /\ e2 = e /\ \A a \in y2 .. e - 1 : m2[a] = m[a]
    <3>1. y2 = y
      BY <2>1
    <3> HIDE DEF y
    <3> QED  BY <2>1, <3>1
  <2>2. CASE x + m[x + 2] = e /\ y2 = e2
    BY <2>2
  <2> QED  BY <2>1, <2>2
<1>11. y \in Hs \/ y \in {Hdr(b) : b \in L} \/ y = e
  BY <1>5
<1> HIDE DEF y
<1>12. Layout({h \in Hs : h < x \/ ~(h < y)} \cup HD,
              {b \in L : Hdr(b) < x \/ ~(Hdr(b) < y)} \cup LD, m2, Start, e2)
  BY <1>3, <1>4, <1>10, <1>11, Rebuild
<1> QED  BY <1>8, <1>9, <1>12

-----------------------------------------------------------------------------
(* The index as a set.                                                     *)

\* The items of an array, in the order of their keys.
InOrder(array, key) ==
  \A i, j \in 1 .. Len(array) : i < j => key[array[i]] <= key[array[j]]

\* A set of numbers has a least one.
LEMMA LeastExists ==
  ASSUME NEW S, S \subseteq Nat, S # {}
  PROVE  \E f \in S : \A g \in S : f <= g
<1>1. \E f \in S : \A g \in S : ~ (<<g, f>> \in OpToRel(<, Nat))
  BY WFMin, NatLessThanWellFounded, Zenon
<1>2. PICK f \in S : \A g \in S : ~ (<<g, f>> \in OpToRel(<, Nat))
  BY <1>1, Zenon
<1>3. ASSUME NEW g \in S
      PROVE  f <= g
  <2>1. f \in Nat /\ g \in Nat
    BY Zenon
  <2>2. ~ (g < f)
    BY <1>2, <2>1, Zenon DEF OpToRel
  <2> QED
    BY <2>1, <2>2
<1> QED
  BY <1>3, Zenon

\* The loop of insert stops, at the end of the array at the latest.
LEMMA InsertStops ==
  ASSUME NEW S, NEW array \in Seq(S), NEW item, NEW key
  PROVE  LET n == Len(array)
             p == InsertAt(item, array, key)
         IN /\ p \in 1 .. n + 1
            /\ p <= n => ~(key[array[p]] < key[item])
            /\ \A j \in 1 .. p - 1 : key[array[j]] < key[item]
<1> DEFINE n == Len(array)
           p == InsertAt(item, array, key)
           Stop(i) == i <= n => ~(key[array[i]] < key[item])
           Is(i) == Stop(i) /\ \A j \in 1 .. i - 1 : key[array[j]] < key[item]
           T == {i \in 1 .. n + 1 : Stop(i)}
<1>1. n \in Nat
  OBVIOUS
<1>2. T \subseteq Nat /\ n + 1 \in T
  BY <1>1
<1>3. PICK i \in T : \A j \in T : i <= j
  <2> HIDE DEF T
  <2> QED  BY <1>2, LeastExists
<1>4. i \in 1 .. n + 1 /\ Stop(i)
  BY <1>3
<1>5. ASSUME NEW j \in 1 .. i - 1  PROVE key[array[j]] < key[item]
  <2>1. j \in 1 .. n + 1 /\ j <= n /\ ~(i <= j)
    BY <1>1, <1>4
  <2>2. j \notin T
    <3> HIDE DEF T
    <3> QED  BY <1>3, <2>1
  <2> QED  BY <2>1, <2>2
<1>6. \E k \in 1 .. n + 1 : Is(k)
  BY <1>4, <1>5
<1>7. p = CHOOSE k \in 1 .. n + 1 : Is(k)
  BY DEF InsertAt
<1> HIDE DEF Is, p
<1>8. p \in 1 .. n + 1 /\ Is(p)
  BY <1>6, <1>7
<1> QED  BY <1>8 DEF Is, p

\* What insert leaves in each place.
LEMMA InsertPlaces ==
  ASSUME NEW S, NEW array \in Seq(S), NEW item \in S, NEW key
  PROVE  LET n == Len(array)
             p == InsertAt(item, array, key)
             new == insert_ordered_array(item, array, key)
         IN /\ p \in 1 .. n + 1 /\ new \in Seq(S) /\ Len(new) = n + 1
            /\ new[p] = item
            /\ \A i \in 1 .. p - 1 : new[i] = array[i]
            /\ \A i \in p + 1 .. n + 1 : new[i] = array[i - 1]
<1> DEFINE n == Len(array)
           p == InsertAt(item, array, key)
           new == insert_ordered_array(item, array, key)
<1>1. p \in 1 .. n + 1 /\ n \in Nat
  BY InsertStops
<1> DEFINE front == SubSeq(array, 1, p - 1)
           back == SubSeq(array, p, n)
           head == front \o <<item>>
<1>2. new = head \o back
  BY DEF insert_ordered_array
<1> HIDE DEF p, new
<1>3. /\ front \in Seq(S) /\ Len(front) = p - 1
      /\ \A i \in 1 .. p - 1 : front[i] = array[i]
  BY <1>1
<1>4. /\ back \in Seq(S) /\ Len(back) = (n + 1) - p
      /\ \A i \in 1 .. (n + 1) - p : back[i] = array[(p + i) - 1]
  BY <1>1
<1> HIDE DEF front, back
<1>5. /\ head \in Seq(S) /\ Len(head) = p /\ head[p] = item
      /\ \A i \in 1 .. p - 1 : head[i] = array[i]
  BY <1>1, <1>3
<1> HIDE DEF head
<1> HIDE DEF n
<1>6. new \in Seq(S) /\ Len(new) = n + 1
  BY <1>1, <1>2, <1>4, <1>5
<1>7. ASSUME NEW i \in 1 .. p  PROVE new[i] = head[i]
  BY <1>1, <1>2, <1>4, <1>5
<1>8. ASSUME NEW i \in p + 1 .. n + 1  PROVE new[i] = array[i - 1]
  <2>1. i - p \in 1 .. (n + 1) - p /\ (p + (i - p)) - 1 = i - 1 /\ i > p
    BY <1>1
  <2>2. new[i] = back[i - p]
    <3>1. Len(head) + Len(back) = n + 1 /\ i \in p + 1 .. Len(head) + Len(back)
      BY <1>1, <1>4, <1>5
    <3> QED  BY <1>2, <1>4, <1>5, <2>1, <3>1
  <2> QED  BY <1>4, <2>1, <2>2
<1>9. new[p] = item /\ \A i \in 1 .. p - 1 : new[i] = array[i]
  <2>1. p \in 1 .. p /\ \A i \in 1 .. p - 1 : i \in 1 .. p
    BY <1>1
  <2> QED  BY <1>5, <1>7, <2>1
<1> QED  BY <1>1, <1>6, <1>8, <1>9 DEF n, p, new


\* insert adds one item.
LEMMA InsertSet ==
  ASSUME NEW array \in Seq(Int), NEW item \in Int, NEW key
  PROVE  LET new == insert_ordered_array(item, array, key)
         IN /\ new \in Seq(Int) /\ SetOf(new) = SetOf(array) \cup {item}
            /\ Once(array) /\ item \notin SetOf(array) => Once(new)
<1> DEFINE S == Int
<1>0. array \in Seq(S) /\ item \in S
  OBVIOUS
<1> HIDE DEF S
<1> DEFINE n == Len(array)
           p == InsertAt(item, array, key)
           new == insert_ordered_array(item, array, key)
<1>1. /\ p \in 1 .. n + 1 /\ new \in Seq(S) /\ Len(new) = n + 1
      /\ new[p] = item
      /\ \A i \in 1 .. p - 1 : new[i] = array[i]
      /\ \A i \in p + 1 .. n + 1 : new[i] = array[i - 1]
  BY <1>0, InsertPlaces
<1>2. n \in Nat
  OBVIOUS
<1> DEFINE Old(i) == IF i < p THEN i ELSE i - 1
<1> HIDE DEF n, p, new
<1>3. ASSUME NEW i \in 1 .. n + 1, i # p
      PROVE  Old(i) \in 1 .. n /\ new[i] = array[Old(i)]
  <2>1. CASE i < p
    <3>1. i \in 1 .. p - 1 /\ i \in 1 .. n
      BY <1>1, <1>2, <2>1
    <3> QED  BY <1>1, <2>1, <3>1
  <2>2. CASE ~(i < p)
    <3>1. i \in p + 1 .. n + 1 /\ i - 1 \in 1 .. n
      BY <1>1, <1>2, <1>3, <2>2
    <3> QED  BY <1>1, <2>2, <3>1
  <2> QED  BY <2>1, <2>2
<1>4. \A i \in 1 .. n + 1 : i # p => new[i] \in SetOf(array)
  BY <1>3 DEF SetOf, n
<1>5. \A j \in 1 .. n : \E i \in 1 .. n + 1 : new[i] = array[j]
  <2> SUFFICES ASSUME NEW j \in 1 .. n  PROVE \E i \in 1 .. n + 1 : new[i] = array[j]
    OBVIOUS
  <2>1. CASE j < p
    <3>1. j \in 1 .. p - 1 /\ j \in 1 .. n + 1
      BY <1>1, <1>2, <2>1
    <3> QED  BY <1>1, <3>1
  <2>2. CASE ~(j < p)
    <3>1. j + 1 \in p + 1 .. n + 1 /\ j + 1 \in 1 .. n + 1 /\ (j + 1) - 1 = j
      BY <1>1, <1>2, <2>2
    <3>2. new[j + 1] = array[j]
      BY <1>1, <3>1
    <3> QED  BY <3>1, <3>2
  <2> QED  BY <2>1, <2>2
<1>6. SetOf(new) = SetOf(array) \cup {item}
  <2>1. SetOf(array) = {array[i] : i \in 1 .. n}
    BY DEF SetOf, n
  <2>2. SetOf(new) = {new[i] : i \in 1 .. n + 1}
    BY <1>1 DEF SetOf
  <2>3. \A i \in 1 .. n + 1 : new[i] \in SetOf(array) \cup {item}
    BY <1>1, <1>4
  <2>4. item \in SetOf(new)
    BY <1>1, <2>2
  <2>5. \A j \in 1 .. n : array[j] \in SetOf(new)
    BY <1>5, <2>2
  <2> QED  BY <2>1, <2>2, <2>3, <2>4, <2>5
<1>7. ASSUME Once(array), item \notin SetOf(array)  PROVE Once(new)
  <2> SUFFICES ASSUME NEW i \in 1 .. n + 1, NEW j \in 1 .. n + 1, new[i] = new[j]
               PROVE  i = j
    BY <1>1 DEF Once
  <2>1. i = p \/ j = p => i = j
    BY <1>1, <1>4, <1>7
  <2>2. CASE i # p /\ j # p
    <3>1. Old(i) \in 1 .. n /\ Old(j) \in 1 .. n /\ array[Old(i)] = array[Old(j)]
      BY <1>3, <2>2
    <3>2. Old(i) = Old(j)
      BY <1>7, <3>1 DEF Once, n
    <3>3. p \in Int
      BY <1>1
    <3> QED  BY <2>2, <3>2, <3>3
  <2> QED  BY <2>1, <2>2
<1> QED  BY <1>1, <1>6, <1>7 DEF new, S

\* remove takes one item away.
LEMMA RemoveSet ==
  ASSUME NEW array \in Seq(Int), NEW p \in 1 .. Len(array), Once(array)
  PROVE  LET new == remove_ordered_array(p, array)
         IN /\ new \in Seq(Int) /\ SetOf(new) = SetOf(array) \ {array[p]}
            /\ Once(new)
<1> DEFINE n == Len(array)
           new == remove_ordered_array(p, array)
           front == SubSeq(array, 1, p - 1)
           back == SubSeq(array, p + 1, n)
           At(i) == IF i < p THEN i ELSE i + 1
<1>1. n \in Nat /\ p \in 1 .. n
  OBVIOUS
<1>2. new = front \o back
  BY DEF remove_ordered_array
<1>3. /\ front \in Seq(Int) /\ Len(front) = p - 1
      /\ \A i \in 1 .. p - 1 : front[i] = array[i]
  BY <1>1
<1>4. /\ back \in Seq(Int) /\ Len(back) = n - p
      /\ \A i \in 1 .. n - p : back[i] = array[p + i]
  BY <1>1
<1> HIDE DEF front, back, n, new
<1>5. new \in Seq(Int) /\ Len(new) = n - 1
  <2>1. front \in Seq(Int) /\ back \in Seq(Int)
    BY <1>3, <1>4
  <2>2. front \o back \in Seq(Int) /\ Len(front \o back) = Len(front) + Len(back)
    BY <2>1
  <2> QED  BY <1>1, <1>2, <1>3, <1>4, <2>2
<1>6. ASSUME NEW i \in 1 .. n - 1
      PROVE  At(i) \in 1 .. n /\ At(i) # p /\ new[i] = array[At(i)]
  <2>1. CASE i < p
    <3>1. i \in 1 .. p - 1 /\ i \in 1 .. n
      BY <1>1, <2>1
    <3>2. new[i] = front[i]
      BY <1>1, <1>2, <1>3, <1>4, <3>1
    <3> QED  BY <1>1, <1>3, <2>1, <3>1, <3>2
  <2>2. CASE ~(i < p)
    <3> DEFINE k == (i + 1) - p
    <3>1. k \in 1 .. n - p /\ p + k = i + 1 /\ i + 1 \in 1 .. n
      BY <1>1, <2>2
    <3>2. new[i] = back[k]
      BY <1>1, <1>2, <1>3, <1>4, <2>2
    <3> HIDE DEF k
    <3>3. back[k] = array[p + k]
      BY <1>4, <3>1
    <3> QED  BY <1>1, <2>2, <3>1, <3>2, <3>3
  <2> QED  BY <2>1, <2>2
<1>7. ASSUME NEW j \in 1 .. n, j # p
      PROVE  \E i \in 1 .. n - 1 : new[i] = array[j]
  <2>1. CASE j < p
    <3>1. j \in 1 .. n - 1 /\ At(j) = j
      BY <1>1, <2>1
    <3> QED  BY <1>6, <3>1
  <2>2. CASE ~(j < p)
    <3>1. j - 1 \in 1 .. n - 1 /\ At(j - 1) = j
      BY <1>1, <1>7, <2>2
    <3> QED  BY <1>6, <3>1
  <2> QED  BY <2>1, <2>2
<1>8. SetOf(array) = {array[i] : i \in 1 .. n} /\ SetOf(new) = {new[i] : i \in 1 .. n - 1}
  BY <1>5 DEF SetOf, n
<1>9. \A i, j \in 1 .. n : array[i] = array[j] => i = j
  BY DEF Once, n
<1>10. SetOf(new) = SetOf(array) \ {array[p]}
  <2>1. \A i \in 1 .. n - 1 : new[i] \in SetOf(array) \ {array[p]}
    <3> SUFFICES ASSUME NEW i \in 1 .. n - 1
                 PROVE  new[i] \in SetOf(array) /\ new[i] # array[p]
      OBVIOUS
    <3>1. At(i) \in 1 .. n /\ At(i) # p /\ new[i] = array[At(i)]
      BY <1>6
    <3> HIDE DEF At
    <3> QED  BY <1>1, <1>8, <1>9, <3>1
  <2>2. \A x \in SetOf(array) \ {array[p]} : x \in SetOf(new)
    <3> SUFFICES ASSUME NEW x \in SetOf(array), x # array[p]  PROVE x \in SetOf(new)
      OBVIOUS
    <3>1. PICK j \in 1 .. n : x = array[j]
      BY <1>8
    <3>2. j # p
      BY <3>1
    <3> QED  BY <1>7, <1>8, <3>1, <3>2
  <2> QED  BY <1>8, <2>1, <2>2
<1>11. Once(new)
  <2> SUFFICES ASSUME NEW i \in 1 .. n - 1, NEW j \in 1 .. n - 1, new[i] = new[j]
               PROVE  i = j
    BY <1>5 DEF Once
  <2>1. At(i) = At(j)
    BY <1>6, <1>9
  <2> QED  BY <1>1, <2>1
<1> QED  BY <1>5, <1>10, <1>11 DEF new

\* The loops of free find an item exactly when it is there.
LEMMA FindItem ==
  ASSUME NEW array \in Seq(Int), NEW item
  PROVE  LET i == IndexOf(item, array)
         IN /\ i = 0 <=> item \notin SetOf(array)
            /\ i # 0 => i \in 1 .. Len(array) /\ array[i] = item
<1> DEFINE n == Len(array)
           T == {i \in 1 .. n : array[i] = item}
           Is(i) == array[i] = item /\ \A j \in 1 .. i - 1 : array[j] # item
<1>1. n \in Nat
  OBVIOUS
<1>2. CASE item \notin SetOf(array)
  <2>1. ~\E i \in 1 .. n : array[i] = item
    BY <1>2 DEF SetOf
  <2> QED  BY <1>2, <2>1 DEF IndexOf
<1>3. CASE item \in SetOf(array)
  <2>1. \E i \in 1 .. n : array[i] = item
    BY <1>3 DEF SetOf
  <2>2. T \subseteq Nat /\ T # {}
    BY <2>1
  <2>3. PICK i \in T : \A j \in T : i <= j
    <3> HIDE DEF T
    <3> QED  BY <2>2, LeastExists
  <2>4. i \in 1 .. n /\ array[i] = item
    BY <2>3
  <2>5. ASSUME NEW j \in 1 .. i - 1  PROVE array[j] # item
    <3>1. j \in 1 .. n /\ ~(i <= j)
      BY <2>4
    <3>2. j \notin T
      <4> HIDE DEF T
      <4> QED  BY <2>3, <3>1
    <3> QED  BY <3>1, <3>2
  <2>6. \E k \in 1 .. n : Is(k)
    BY <2>4, <2>5
  <2>7. IndexOf(item, array) = CHOOSE k \in 1 .. n : Is(k)
    BY <2>1 DEF IndexOf
  <2> HIDE DEF Is
  <2>8. IndexOf(item, array) \in 1 .. n /\ Is(IndexOf(item, array))
    BY <2>6, <2>7
  <2>9. IndexOf(item, array) \in 1 .. n /\ array[IndexOf(item, array)] = item
    BY <2>8 DEF Is
  <2> QED  BY <1>1, <1>3, <2>9
<1> QED  BY <1>2, <1>3

-----------------------------------------------------------------------------
(* alloc takes a hole.                                                     *)

\* A chunk of s words is written at p.
ChunkIn(m, p, hole, s, m2) ==
  /\ m2 \in [Mapped -> Cell]
  /\ m2[p] = MAGIC /\ m2[p + 1] = hole /\ m2[p + 2] = s
  /\ m2[(p + s) - 2] = MAGIC /\ m2[(p + s) - 1] = p
  /\ \A a \in Mapped : a \notin p .. (p + s) - 1 => m2[a] = m[a]

PutChunk(m, p, hole, s) == PutFooter(PutHeader(m, p, hole, s), (p + s) - 2, p)

\* A chunk's header and footer are put into its own words.
LEMMA ChunkPut ==
  ASSUME NEW m \in [Mapped -> Cell], NEW p \in Int, NEW s \in Int, 0 <= p, 5 <= s,
         p + s <= HeapMax, NEW hole \in {0, 1}
  PROVE  ChunkIn(m, p, hole, s, PutChunk(m, p, hole, s))
<1> DEFINE m1 == PutHeader(m, p, hole, s)
           f == (p + s) - 2
           m2 == PutFooter(m1, f, p)
<1>0. HeapMax \in Int
  BY Sizes32
<1>1. hole \in Cell /\ s \in Cell /\ p \in Cell /\ p + 2 < HeapMax
  BY Sizes32 DEF Cell
<1>2. /\ m1 \in [Mapped -> Cell] /\ m1[p] = MAGIC /\ m1[p + 1] = hole /\ m1[p + 2] = s
      /\ \A a \in Mapped : a \notin p .. p + 2 => m1[a] = m[a]
  BY <1>1, HeaderPut
<1>3. f \in Int /\ 0 <= f /\ f + 1 < HeapMax /\ f > p + 2 /\ f + 1 = (p + s) - 1
  BY <1>0
<1> HIDE DEF m1, f
<1>4. /\ m2 \in [Mapped -> Cell] /\ m2[f] = MAGIC /\ m2[f + 1] = p
      /\ \A a \in Mapped : a \notin f .. f + 1 => m2[a] = m1[a]
  BY <1>1, <1>2, <1>3, FooterPut
<1> HIDE DEF m2
<1>5. p \in Mapped /\ p + 1 \in Mapped /\ p + 2 \in Mapped
  BY <1>0, <1>1 DEF Mapped
<1>6. m2[p] = m1[p] /\ m2[p + 1] = m1[p + 1] /\ m2[p + 2] = m1[p + 2]
  <2>1. p \notin f .. f + 1 /\ p + 1 \notin f .. f + 1 /\ p + 2 \notin f .. f + 1
    BY <1>3
  <2> QED  BY <1>4, <1>5, <2>1
<1>7. ASSUME NEW a \in Mapped, a \notin p .. (p + s) - 1  PROVE m2[a] = m[a]
  <2>1. a \in Int
    BY <1>0 DEF Mapped
  <2>2. a \notin f .. f + 1 /\ a \notin p .. p + 2
    BY <1>3, <1>7, <2>1
  <2> QED  BY <1>2, <1>4, <2>2
<1> QED  BY <1>2, <1>3, <1>4, <1>6, <1>7 DEF m1, m2, f, ChunkIn, PutChunk

\* The state of alloc.
Placing(m, ix, i, p, s, n, tch) ==
  [mem |-> m, index |-> ix, i |-> i, pos |-> p, hole |-> s, size |-> n, touched |-> tch]

\* A block of n words is put at the front of the stretch of s words at p, and
\* the rest becomes a hole: what memory holds then.
Placed(m, ix, p, s, n, m2, ix2) ==
  LET R == IF s = n + 5 THEN {} ELSE {p + n + 5}
  IN /\ m2 \in [Mapped -> Cell]
     /\ \A a \in Mapped : a \notin p .. (p + s) - 1 => m2[a] = m[a]
     /\ \A size \in 1 .. n :
          Layout(R, {[addr |-> p + 3, size |-> size, written |-> FALSE]}, m2, p, p + s)
     /\ ix2 \in Seq(Int) /\ SetOf(ix2) = SetOf(ix) \cup R
     /\ Once(ix) /\ (R \cap SetOf(ix) = {}) => Once(ix2)

\* A block in memory.
LEMMA NewBlock ==
  ASSUME NEW m, NEW p \in Int, NEW n \in Int, NEW size \in 1 .. n,
         m[p] = MAGIC, m[p + 1] = 0, m[p + 2] = n + 5,
         m[(p + (n + 5)) - 2] = MAGIC, m[(p + (n + 5)) - 1] = p
  PROVE  Layout({}, {[addr |-> p + 3, size |-> size, written |-> FALSE]}, m, p, p + (n + 5))
<1> DEFINE b == [addr |-> p + 3, size |-> size, written |-> FALSE]
<1>1. b.addr = p + 3 /\ b.size = size /\ b.written = FALSE
  OBVIOUS
<1> HIDE DEF b
<1>2. Hdr(b) = p
  BY <1>1 DEF Hdr, H
<1>3. size \in Int /\ 1 <= size /\ size + 5 <= n + 5 /\ n + 5 \in Int /\ 5 <= n + 5
  OBVIOUS
<1>4. BlockAt(m, b)
  BY <1>1, <1>2, <1>3 DEF BlockAt
<1>5. Layout({}, {b}, m, Hdr(b), Hdr(b) + (n + 5))
  BY <1>2, <1>3, <1>4, LayoutBlock
<1> QED  BY <1>2, <1>5 DEF b

\* WriteBlock in terms of the state of alloc.
LEMMA WriteBlockIs ==
  ASSUME NEW m, NEW ix, NEW i, NEW p \in Int, NEW s, NEW n \in Int, NEW tch,
         0 <= p, 1 <= n, p + n + 5 <= HeapMax
  PROVE  WriteBlock(Placing(m, ix, i, p, s, n, tch)) =
           Placing(PutChunk(m, p, 0, n + 5), ix, i, p, s, n,
                   tch \cup {(p + (n + 5)) - 2, (p + (n + 5)) - 1})
<1> DEFINE t == Placing(m, ix, i, p, s, n, tch)
           f == (p + (n + 5)) - 2
           m2 == PutChunk(m, p, 0, n + 5)
<1>1. t.mem = m /\ t.pos = p /\ t.size = n /\ t.touched = tch
  BY DEF Placing
<1>2. U(p + H + n) = f /\ U(f + 1) = (p + (n + 5)) - 1 /\ n + Overhead = n + 5
  <2>1. p + H + n = f /\ f + 1 = (p + (n + 5)) - 1 /\ n + Overhead = n + 5
    BY DEF H, F, Overhead
  <2>2. f \in Int /\ 0 <= f /\ f <= HeapMax /\ f + 1 \in Int /\ f + 1 <= HeapMax /\ 0 <= f + 1
    BY Sizes32
  <2> HIDE DEF f
  <2> QED  BY <2>1, <2>2, Small
<1> HIDE DEF t, f
<1>3. WriteBlock(t) = [t EXCEPT !.mem = m2, !.touched = tch \cup {f, (p + (n + 5)) - 1}]
  <2>1. m2 = PutFooter(PutHeader(m, p, 0, n + 5), f, p)
    BY DEF PutChunk, f
  <2> HIDE DEF m2
  <2> QED  BY <1>1, <1>2, <2>1 DEF WriteBlock
<1> HIDE DEF m2
<1>4. WriteBlock(t) = Placing(m2, ix, i, p, s, n, tch \cup {f, (p + (n + 5)) - 1})
  BY <1>3 DEF t, Placing
<1> QED  BY <1>4 DEF t, f, m2

\* SplitRest when nothing is left, and when a hole is.
RestSplit(m, ix, i, p, s, n, tch) ==
  LET t == Placing(m, ix, i, p, s, n, tch)
      h == p + (n + 5)
      r == s - (n + 5)
      m2 == PutChunk(m, h, 1, r)
  IN /\ r = 0 => SplitRest(t) = t
     /\ r >= 5 => SplitRest(t) =
          Placing(m2, Insert(h, ix, m2), i, p, s, n, tch \cup {h, h + 2} \cup {(h + r) - 2})

\* SplitRest does so.
LEMMA SplitRestIs ==
  ASSUME NEW m, NEW ix, NEW i, NEW p \in Int, NEW s \in Int, NEW n \in Int, NEW tch,
         0 <= p, 1 <= n, n + 5 <= s, p + s <= end, end \in Int, end <= HeapMax
  PROVE  RestSplit(m, ix, i, p, s, n, tch)
<1> DEFINE t == Placing(m, ix, i, p, s, n, tch)
           h == p + (n + 5)
           r == s - (n + 5)
           f == (h + r) - 2
           m2 == PutChunk(m, h, 1, r)
<1>1. t.mem = m /\ t.pos = p /\ t.size = n /\ t.touched = tch /\ t.hole = s /\ t.index = ix
  BY DEF Placing
<1>2. HeapMax \in Int
  BY Sizes32
<1>3. n + Overhead = n + 5 /\ p + n + Overhead = h
  BY DEF H, F, Overhead
<1>4. U(s - (n + Overhead)) = r
  <2>1. r \in Int /\ 0 <= r /\ r <= HeapMax
    BY <1>2
  <2> QED  BY <1>3, <2>1, Small
<1>5. U(p + n + Overhead) = h
  <2>1. h \in Int /\ 0 <= h /\ h <= HeapMax
    BY <1>2
  <2> QED  BY <1>3, <2>1, Small
<1>6. CASE r = 0
  <2> HIDE DEF t
  <2>1. SplitRest(t) = t
    BY <1>1, <1>4, <1>6 DEF SplitRest
  <2> QED  BY <1>6, <2>1 DEF t, RestSplit
<1>8. CASE r # 0 /\ ~(r >= 5)
  BY <1>8 DEF RestSplit
<1>7. CASE r >= 5
  <2>1. h \in Int /\ r \in Int /\ h >= 5 /\ h + r <= end /\ h + r \in Int
    OBVIOUS
  <2> HIDE DEF h, r
  <2>2. U(h + r - F) = f /\ U(h + 2) = h + 2
    <3>1. h + r - F = f /\ f \in Int /\ 0 <= f /\ f <= HeapMax
      BY <1>2, <1>7, <2>1 DEF F
    <3>2. h + 2 \in Int /\ 0 <= h + 2 /\ h + 2 <= HeapMax
      BY <1>2, <1>7, <2>1
    <3> HIDE DEF f
    <3> QED  BY <3>1, <3>2, Small
  <2>3. f < end /\ r # 0
    BY <1>7, <2>1
  <2>6. m2 = PutFooter(PutHeader(m, h, 1, r), f, h)
    BY DEF PutChunk
  <2> HIDE DEF t, f, m2
  <2>4. SplitRest(t) = [t EXCEPT !.mem = m2, !.index = Insert(h, ix, m2),
                                 !.touched = tch \cup {h, h + 2} \cup {f}]
    BY <1>1, <1>4, <1>5, <2>2, <2>3, <2>6 DEF SplitRest
  <2>5. SplitRest(t) = Placing(m2, Insert(h, ix, m2), i, p, s, n, tch \cup {h, h + 2} \cup {f})
    BY <2>4 DEF t, Placing
  <2> QED  BY <1>7, <2>3, <2>5 DEF m2, f, t, h, r, RestSplit
<1> QED  BY <1>6, <1>7, <1>8

\* Both.
BlockPlaced(t, m, ix, p, s, n) ==
  t.pos = p /\ t.touched \subseteq Mapped /\ Placed(m, ix, p, s, n, t.mem, t.index)

\* The block is placed in the stretch.
LEMMA PlaceBlock ==
  ASSUME NEW m \in [Mapped -> Cell], NEW ix \in Seq(Int), NEW i, NEW p \in Int,
         NEW s \in Int, NEW n \in Int, NEW tch \in SUBSET Mapped,
         0 <= p, 1 <= n, s = n + 5 \/ n + 10 <= s, p + s <= end, end \in Int, end <= HeapMax
  PROVE  BlockPlaced(SplitRest(WriteBlock(Placing(m, ix, i, p, s, n, tch))), m, ix, p, s, n)
<1> DEFINE k == n + 5
           f == (p + k) - 2
           m1 == PutChunk(m, p, 0, k)
           tch1 == tch \cup {f, (p + k) - 1}
           u == Placing(m1, ix, i, p, s, n, tch1)
           t == SplitRest(WriteBlock(Placing(m, ix, i, p, s, n, tch)))
           h == p + k
           r == s - k
           m2 == PutChunk(m1, h, 1, r)
<1>0. HeapMax \in Int
  BY Sizes32
<1>1. t = SplitRest(u)
  <2>1. p + n + 5 <= HeapMax
    BY <1>0
  <2>2. WriteBlock(Placing(m, ix, i, p, s, n, tch)) = u
    BY <2>1, WriteBlockIs
  <2> QED  BY <2>2
<1>2. k \in Int /\ 6 <= k /\ p + k <= HeapMax /\ r \in Int /\ h \in Int /\ (r = 0 \/ r >= 5)
  BY <1>0
<1>3. /\ m1 \in [Mapped -> Cell]
      /\ m1[p] = MAGIC /\ m1[p + 1] = 0 /\ m1[p + 2] = k
      /\ m1[(p + k) - 2] = MAGIC /\ m1[(p + k) - 1] = p
      /\ \A a \in Mapped : a \notin p .. (p + k) - 1 => m1[a] = m[a]
  <2>1. k \in Int /\ 5 <= k /\ p + k <= HeapMax /\ 0 \in {0, 1}
    BY <1>0
  <2> HIDE DEF k
  <2> QED  BY <2>1, ChunkPut DEF ChunkIn
<1>4. tch1 \subseteq Mapped
  <2>1. f \in 0 .. HeapMax - 1 /\ (p + k) - 1 \in 0 .. HeapMax - 1
    BY <1>0
  <2> HIDE DEF f
  <2> QED  BY <2>1 DEF Mapped
<1>5. /\ r = 0 => SplitRest(u) = u
      /\ r >= 5 => SplitRest(u) =
           Placing(m2, Insert(h, ix, m2), i, p, s, n, tch1 \cup {h, h + 2} \cup {(h + r) - 2})
  <2>1. n + 5 <= s
    OBVIOUS
  <2> HIDE DEF m1, tch1
  <2>2. RestSplit(m1, ix, i, p, s, n, tch1)
    BY <2>1, SplitRestIs
  <2> QED  BY <2>2 DEF RestSplit
<1>6. CASE s = n + 5
  <2>1. t = u
    BY <1>1, <1>5, <1>6
  <2> HIDE DEF t, m1, tch1
  <2>2. t.pos = p /\ t.touched = tch1 /\ t.mem = m1 /\ t.index = ix
    BY <2>1 DEF Placing
  <2>3. ASSUME NEW size \in 1 .. n
        PROVE  Layout({}, {[addr |-> p + 3, size |-> size, written |-> FALSE]}, m1, p, p + s)
    BY <1>3, <1>6, NewBlock
  <2>4. k = s
    BY <1>6
  <2> HIDE DEF k, u
  <2>5. Placed(m, ix, p, s, n, m1, ix)
    BY <1>3, <1>6, <2>3, <2>4 DEF Placed
  <2> QED  BY <1>4, <2>2, <2>5 DEF t, BlockPlaced
<1>7. CASE n + 10 <= s
  <2> DEFINE ix2 == Insert(h, ix, m2)
             tch2 == tch1 \cup {h, h + 2} \cup {(h + r) - 2}
  <2>1. r >= 5 /\ s # n + 5 /\ h >= 0 /\ h + r = p + s /\ h + r <= HeapMax
    BY <1>0, <1>7
  <2>2. t = Placing(m2, ix2, i, p, s, n, tch2)
    BY <1>1, <1>5, <2>1
  <2>3. tch2 \subseteq Mapped
    <3>1. h \in 0 .. HeapMax - 1 /\ h + 2 \in 0 .. HeapMax - 1 /\ (h + r) - 2 \in 0 .. HeapMax - 1
      BY <1>0, <1>2, <2>1
    <3> HIDE DEF h, r, tch1
    <3> QED  BY <1>4, <3>1 DEF Mapped
  <2>4. /\ m2 \in [Mapped -> Cell]
        /\ m2[h] = MAGIC /\ m2[h + 1] = 1 /\ m2[h + 2] = r
        /\ \A a \in Mapped : a \notin h .. (h + r) - 1 => m2[a] = m1[a]
    <3>1. 1 \in {0, 1} /\ h \in Int /\ r \in Int /\ 0 <= h /\ 5 <= r
      BY <1>2, <2>1
    <3> HIDE DEF h, r, m1
    <3>2. ChunkIn(m1, h, 1, r, PutChunk(m1, h, 1, r))
      BY <1>3, <2>1, <3>1, ChunkPut
    <3>3. ChunkIn(m1, h, 1, r, m2)
      BY <3>2
    <3> HIDE DEF m2
    <3> QED  BY <3>3 DEF ChunkIn
  <2>5. /\ ix2 \in Seq(Int) /\ SetOf(ix2) = SetOf(ix) \cup {h}
        /\ (Once(ix) /\ h \notin SetOf(ix) => Once(ix2))
    <3> HIDE DEF h, m2
    <3> QED  BY <1>2, InsertSet DEF Insert
  <2>6. h = p + n + 5
    OBVIOUS
  <2> HIDE DEF t, m2, ix2, tch2
  <2>7. t.pos = p /\ t.touched = tch2 /\ t.mem = m2 /\ t.index = ix2
    BY <2>2 DEF Placing
  <2>8. ASSUME NEW a \in p .. h - 1  PROVE m2[a] = m1[a]
    <3>1. a \in Mapped /\ a \notin h .. (h + r) - 1
      BY <1>0, <1>2, <2>1 DEF Mapped
    <3> HIDE DEF h, r, m1
    <3> QED  BY <2>4, <3>1
  <2>9. ASSUME NEW size \in 1 .. n
        PROVE  Layout({h}, {[addr |-> p + 3, size |-> size, written |-> FALSE]}, m2, p, p + s)
    <3> DEFINE b == [addr |-> p + 3, size |-> size, written |-> FALSE]
    <3>1. Layout({}, {b}, m1, p, h)
      BY <1>3, NewBlock
    <3> HIDE DEF b
    <3>2. Layout({}, {b}, m2, p, h)
      <4> HIDE DEF h, m1
      <4> QED  BY <1>2, <2>8, <3>1, LayoutFrame
    <3>3. Layout({h}, {}, m2, h, h + r)
      <4> HIDE DEF h, r
      <4> QED  BY <1>2, <2>1, <2>4, LayoutHole DEF HoleAt
    <3>4. p <= h /\ h <= h + r
      BY <1>2, <2>1
    <3>5. Layout({} \cup {h}, {b} \cup {}, m2, p, h + r)
      <4>1. h + r \in Int
        BY <1>2
      <4> HIDE DEF h, r
      <4> QED  BY <1>2, <3>2, <3>3, <3>4, <4>1, LayoutJoin
    <3>6. {} \cup {h} = {h} /\ {b} \cup {} = {b}
      OBVIOUS
    <3> HIDE DEF h, r
    <3> QED  BY <2>1, <3>5, <3>6 DEF b
  <2>10. ASSUME NEW a \in Mapped, a \notin p .. (p + s) - 1  PROVE m2[a] = m[a]
    <3>1. a \in Int
      BY <1>0 DEF Mapped
    <3>2. a \notin h .. (h + r) - 1 /\ a \notin p .. (p + k) - 1
      BY <1>2, <2>1, <2>10, <3>1
    <3> HIDE DEF h, r, m1, k
    <3> QED  BY <1>3, <2>4, <3>2
  <2>11. Placed(m, ix, p, s, n, m2, ix2)
    <3>1. \A size \in 1 .. n :
            Layout({h}, {[addr |-> p + 3, size |-> size, written |-> FALSE]}, m2, p, p + s)
      BY <2>9
    <3>2. {h} \cap SetOf(ix) = {} => h \notin SetOf(ix)
      OBVIOUS
    <3> HIDE DEF h, r, m1, k
    <3> QED  BY <2>1, <2>4, <2>5, <2>6, <2>10, <3>1, <3>2 DEF Placed
  <2> QED  BY <2>3, <2>7, <2>11 DEF t, BlockPlaced
<1> QED  BY <1>6, <1>7

\* What clients ask for.
LEMMA Asked ==
  ASSUME typesInv, request # None
  PROVE  /\ request \in Requests /\ request.align \in BOOLEAN
         /\ request.size \in Int /\ request.size >= 1 /\ request.size <= HeapMax
<1>1. request \in Requests
  BY DEF typesInv
<1>2. request \in [size : 1 .. HeapMax, align : BOOLEAN]
  BY <1>1, HeapAssumption
<1> QED  BY <1>1, <1>2, Sizes32

\* The words of the heap, in numbers.
LEMMA WordFacts ==
  ASSUME heapInv, Sound
  PROVE  /\ mem \in [Mapped -> Cell] /\ mem[Start - 2] # MAGIC
         /\ end \in Int /\ end <= HeapMax /\ Start + MinSize <= end
         /\ index \in Seq(Int) /\ Once(index)
         /\ Layout(SetOf(index), live, mem, Start, end)
BY Sizes32 DEF heapInv, wordsInv, F

\* A hole of the index, in numbers.
LEMMA HoleFacts ==
  ASSUME heapInv, Sound, NEW h \in SetOf(index)
  PROVE  /\ h \in Int /\ Start <= h /\ mem[h + 2] \in Int /\ 5 <= mem[h + 2]
         /\ h + mem[h + 2] <= end /\ SizeAt(mem, h) = mem[h + 2]
         /\ mem[h] = MAGIC /\ mem[h + 1] = 1
<1>1. /\ end \in Int /\ end <= HeapMax /\ Start \in Int /\ Start > 5 /\ HeapMax \in Int
      /\ Layout(SetOf(index), live, mem, Start, end)
  BY WordFacts, Sizes32
<1>2. /\ h \in Int /\ Start <= h /\ mem[h + 2] \in Int /\ 5 <= mem[h + 2]
      /\ h + mem[h + 2] <= end /\ mem[h] = MAGIC /\ mem[h + 1] = 1
  <2> DEFINE C == SetOf(index) \cup {Hdr(b) : b \in live}
  <2>1. /\ \A c \in C : /\ c \in Int /\ mem[c + 2] \in Int /\ mem[c] = MAGIC
                        /\ Start <= c /\ 5 <= mem[c + 2] /\ c + mem[c + 2] <= end
        /\ \A g \in SetOf(index) : mem[g + 1] = 1
    <3>1. Facts(SetOf(index), live, mem, Start, end)
      BY <1>1, LayoutFacts
    <3> QED  BY <3>1 DEF Facts
  <2>2. h \in C
    OBVIOUS
  <2> HIDE DEF C
  <2> QED  BY <2>1, <2>2
<1>3. 0 <= h /\ h + 2 < HeapMax
  BY <1>1, <1>2
<1>4. SizeAt(mem, h) = mem[h + 2]
  BY <1>2, <1>3, Reads
<1> QED  BY <1>2, <1>4

\* find_smallest_hole finds a hole that fits.
LEMMA Found ==
  ASSUME NEW need, NEW align, Fitting(need, align) # {}, index \in Seq(Int)
  PROVE  LET i == find_smallest_hole(need, align)
         IN /\ i \in 1 .. Len(index) /\ Fits(mem, index[i], need, align)
            /\ index[i] \in SetOf(index)
<1> DEFINE T == Fitting(need, align)
           i == find_smallest_hole(need, align)
<1>1. T \subseteq 1 .. Len(index) /\ T \subseteq Nat
  BY DEF Fitting
<1>2. PICK k \in T : \A j \in T : k <= j
  <2> HIDE DEF T
  <2>1. T # {}
    BY DEF T
  <2> QED  BY <1>1, <2>1, LeastExists
<1>3. i = CHOOSE x \in T : \A j \in T : x <= j
  BY DEF find_smallest_hole
<1>4. i \in T
  <2> HIDE DEF T, i
  <2> QED  BY <1>2, <1>3
<1> HIDE DEF i
<1>5. i \in 1 .. Len(index) /\ Fits(mem, index[i], need, align)
  BY <1>4 DEF Fitting
<1>6. index[i] \in SetOf(index)
  BY <1>5 DEF SetOf
<1> QED  BY <1>5, <1>6 DEF i

\* In front of an aligned block is what Fits has counted.
LEMMA FrontCut ==
  ASSUME NEW h \in Int, h >= Page, Page - (h % Page) - H >= Overhead
  PROVE  LET f == Page - (h % Page) - 3
         IN f \in Int /\ 5 <= f /\ f <= Page /\ Page - ((h + H) % Page) = f /\ h + H >= Page
<1> DEFINE q == h \div Page
           r == h % Page
<1>1. Page \in Int /\ Page > 0
  BY Sizes32
<1>2. h = Page * q + r /\ r \in 0 .. Page - 1 /\ q \in Int
  BY <1>1
<1> HIDE DEF q
<1>3. r + 3 \in 0 .. Page - 1 /\ 5 <= Page - r - 3
  <2>1. Page - r - 3 >= 5
    BY DEF H, F, Overhead
  <2> HIDE DEF r
  <2> QED  BY <1>1, <1>2, <2>1
<1> HIDE DEF r
<1>4. h + 3 = Page * q + (r + 3)
  BY <1>1, <1>2
<1>5. (h + 3) % Page = r + 3
  BY <1>1, <1>2, <1>3, <1>4
<1>6. Page - (r + 3) = Page - r - 3
  BY <1>1, <1>2
<1>7. /\ Page - r - 3 \in Int /\ 5 <= Page - r - 3 /\ Page - r - 3 <= Page
      /\ Page - ((h + H) % Page) = Page - r - 3 /\ h + H >= Page
  BY <1>1, <1>2, <1>3, <1>5, <1>6 DEF H
<1> QED  BY <1>7 DEF r

\* The state of alloc once a hole is taken and its front is split off, as far as
\* the steps after it depend on it.
TakenAs(t, h, s, size, HF, m, ix, i, p, z, n, tch) ==
  /\ t = Placing(m, ix, i, p, z, n, tch)
  /\ h <= p /\ p + z = h + s /\ size <= n /\ (z = n + 5 \/ n + 10 <= z)
  /\ Layout(HF, {}, m, h, p)
  /\ \A a \in Mapped : a \notin h .. p - 1 => m[a] = mem[a]
  /\ SetOf(ix) = (SetOf(index) \ {h}) \cup HF /\ Once(ix)

Taken(t, h, s, size, HF) ==
  \E m \in [Mapped -> Cell], ix \in Seq(Int), i \in Int, p \in Int, z \in Int, n \in Int,
     tch \in SUBSET Mapped : TakenAs(t, h, s, size, HF, m, ix, i, p, z, n, tch)

\* TakeHole in terms of the state of alloc.
LEMMA TakeHoleIs ==
  ASSUME heapInv, Sound, NEW i \in 1 .. Len(index), NEW size \in Int, 1 <= size,
         SizeAt(mem, index[i]) >= size + 5
  PROVE  LET h == index[i]
             s == SizeAt(mem, h)
             n == IF s - (size + 5) < 5 THEN s - 5 ELSE size
         IN /\ TakeHole(i, size) = Placing(mem, index, i, h, s, n, {h})
            /\ n \in Int /\ size <= n /\ (s = n + 5 \/ n + 10 <= s)
<1> DEFINE h == index[i]
           s == SizeAt(mem, h)
           n == IF s - (size + 5) < 5 THEN s - 5 ELSE size
<1>1. h \in SetOf(index)
  BY DEF SetOf
<1>2. h \in Int /\ Start <= h /\ s \in Int /\ h + s <= end /\ end \in Int /\ end <= HeapMax
  BY <1>1, HoleFacts, WordFacts
<1>3. U(s - (size + Overhead)) = s - (size + 5)
  <2>1. s - (size + Overhead) = s - (size + 5)
    BY DEF Overhead, H, F
  <2>2. s - (size + 5) \in Int /\ 0 <= s - (size + 5) /\ s - (size + 5) <= HeapMax
    BY <1>2, Sizes32
  <2> HIDE DEF s
  <2> QED  BY <2>1, <2>2, Small
<1> HIDE DEF s, h
<1>4. size + (IF s - (size + 5) < Overhead THEN s - (size + 5) ELSE 0) = n
  BY <1>2 DEF Overhead, H, F
<1> HIDE DEF n
<1>5. TakeHole(i, size) = [mem |-> mem, index |-> index, i |-> i, pos |-> h, hole |-> s,
        size |-> n, touched |-> {h}]
  BY <1>3, <1>4 DEF TakeHole, h, s
<1>6. n \in Int /\ size <= n /\ (s = n + 5 \/ n + 10 <= s)
  BY <1>2 DEF n, s, h
<1> QED  BY <1>5, <1>6 DEF n, s, h, Placing

\* No front for a request that need not be aligned.
LEMMA TakenPlain ==
  ASSUME heapInv, Sound, NEW i \in 1 .. Len(index), NEW size \in Int, 1 <= size,
         Fits(mem, index[i], size + Overhead, FALSE)
  PROVE  Taken(SplitFront(TakeHole(i, size), FALSE), index[i], mem[index[i] + 2], size, {})
<1> DEFINE h == index[i]
           s == mem[h + 2]
           n == IF s - (size + 5) < 5 THEN s - 5 ELSE size
           t == SplitFront(TakeHole(i, size), FALSE)
           ix == remove_ordered_array(i, index)
<1>1. h \in SetOf(index)
  BY DEF SetOf
<1>2. /\ h \in Int /\ Start <= h /\ s \in Int /\ h + s <= end /\ SizeAt(mem, h) = s /\ 5 <= s
  BY <1>1, HoleFacts
<1>3. /\ end \in Int /\ end <= HeapMax /\ mem \in [Mapped -> Cell]
      /\ index \in Seq(Int) /\ Once(index)
  BY WordFacts
<1>4. s >= size + 5
  <2>1. SizeAt(mem, h) >= size + Overhead
    BY DEF Fits
  <2> QED  BY <1>2, <2>1 DEF Overhead, H, F
<1>5. /\ TakeHole(i, size) = Placing(mem, index, i, h, s, n, {h})
      /\ n \in Int /\ size <= n /\ (s = n + 5 \/ n + 10 <= s)
  <2>1. SizeAt(mem, index[i]) >= size + 5
    BY <1>2, <1>4
  <2> QED  BY <1>2, <2>1, TakeHoleIs
<1>6. ix \in Seq(Int) /\ SetOf(ix) = SetOf(index) \ {h} /\ Once(ix)
  BY <1>3, RemoveSet
<1> HIDE DEF h, s, n, ix
<1>7. t = Placing(mem, ix, i, h, s, n, {h})
  <2>1. t = [Placing(mem, index, i, h, s, n, {h}) EXCEPT !.index =
               remove_ordered_array(i, index)]
    BY <1>5 DEF SplitFront, Placing
  <2>2. remove_ordered_array(i, index) = ix
    BY DEF ix
  <2> HIDE DEF t
  <2> QED  BY <2>1, <2>2 DEF Placing
<1>8. Layout({}, {}, mem, h, h)
  BY <1>2, LayoutNone
<1>9. {h} \in SUBSET Mapped
  BY <1>2, <1>3, Sizes32 DEF Mapped
<1>10. SetOf(ix) = (SetOf(index) \ {h}) \cup {}
  BY <1>6
<1>11. i \in Int /\ h <= h /\ h + s = h + s
  BY <1>2
<1> HIDE DEF t
<1>12. TakenAs(t, h, s, size, {}, mem, ix, i, h, s, n, {h})
  BY <1>2, <1>3, <1>5, <1>6, <1>7, <1>8, <1>10, <1>11 DEF TakenAs
<1>13. Taken(t, h, s, size, {})
  BY <1>2, <1>3, <1>5, <1>6, <1>9, <1>11, <1>12 DEF Taken
<1> QED  BY <1>13 DEF t, h, s

\* The front of an aligned block is a hole again.
LEMMA TakenAligned ==
  ASSUME heapInv, Sound, NEW i \in 1 .. Len(index), NEW size \in Int, 1 <= size,
         Fits(mem, index[i], size + Overhead, TRUE), ~Cramped(index[i], size + Overhead)
  PROVE  Taken(SplitFront(TakeHole(i, size), TRUE), index[i], mem[index[i] + 2], size,
               {index[i]})
<1> DEFINE h == index[i]
           s == mem[h + 2]
           f == Page - (h % Page) - 3
           t == SplitFront(TakeHole(i, size), TRUE)
           m == PutChunk(mem, h, 1, f)
           loc == h + f
<1>1. h \in SetOf(index)
  BY DEF SetOf
<1>2. /\ h \in Int /\ Start <= h /\ s \in Int /\ h + s <= end /\ SizeAt(mem, h) = s /\ 5 <= s
  BY <1>1, HoleFacts
<1>3. /\ end \in Int /\ end <= HeapMax /\ mem \in [Mapped -> Cell]
      /\ index \in Seq(Int) /\ Once(index) /\ HeapMax \in Int /\ Start >= Page /\ Page > 5
      /\ Start \in Int /\ Page \in Int
  BY WordFacts, Sizes32
<1>4. Page - (h % Page) - H >= Overhead
  <2>1. h % Page \in Int
    BY <1>2, <1>3
  <2>2. ~(Page - (h % Page) - H < Overhead)
    BY DEF Cramped
  <2> QED  BY <1>3, <2>1, <2>2 DEF H, F, Overhead
<1>5. f \in Int /\ 5 <= f /\ f <= Page /\ Page - ((h + H) % Page) = f /\ h + H >= Page
  <2>1. h >= Page
    BY <1>2, <1>3
  <2> HIDE DEF h
  <2> QED  BY <1>2, <1>4, <2>1, FrontCut
<1>6. Signed(s) - f >= size + 5
  <2>1. Signed(SizeAt(mem, h)) - f >= size + Overhead
    BY <1>5 DEF Fits
  <2> QED  BY <1>2, <2>1 DEF Overhead, H, F
<1>7. s - (size + 5) >= f
  <2>1. Signed(s) \in Int /\ Signed(s) <= s
    BY <1>2, Sizes32 DEF Signed
  <2> HIDE DEF s, f
  <2> QED  BY <1>2, <1>5, <1>6, <2>1
<1>8. s - f = size + 5 \/ size + 10 <= s - f
  <2>1. s - (Page - (h % Page) - H) - (size + Overhead) \notin 1 .. Overhead - 1
    BY <1>2 DEF Cramped
  <2>2. (Page - (h % Page) - H) = f
    BY DEF H
  <2>3. s - f - (size + 5) \notin 1 .. 4
    BY <2>1, <2>2 DEF Overhead, H, F
  <2> HIDE DEF s, f
  <2> QED  BY <1>2, <1>5, <1>7, <2>3
<1> HIDE DEF f
<1>9. TakeHole(i, size) = Placing(mem, index, i, h, s, size, {h})
  <2>1. SizeAt(mem, index[i]) >= size + 5
    BY <1>2, <1>5, <1>7
  <2>2. ~(s - (size + 5) < 5)
    BY <1>2, <1>5, <1>7
  <2> QED  BY <1>2, <2>1, <2>2, TakeHoleIs
<1> HIDE DEF h, s
<1>10. /\ loc \in Int /\ h + 5 <= loc /\ loc + (s - f) = h + s /\ loc <= HeapMax
  BY <1>2, <1>3, <1>5, <1>7
<1>11. ChunkIn(mem, h, 1, f, m)
  <2>1. 0 <= h /\ h + f <= HeapMax /\ 1 \in {0, 1}
    BY <1>2, <1>3, <1>10
  <2> QED  BY <1>2, <1>3, <1>5, <2>1, ChunkPut
<1>12. m \in [Mapped -> Cell] /\ m[h] = MAGIC /\ m[h + 1] = 1 /\ m[h + 2] = f
       /\ \A a \in Mapped : a \notin h .. loc - 1 => m[a] = mem[a]
  BY <1>11 DEF ChunkIn
<1>13. /\ U(Page - (h % Page) - H) = f /\ U(h + f) = loc /\ U(loc - F) = (h + f) - 2
  <2>1. Page - (h % Page) - H = f
    BY DEF f, H
  <2>2. f <= HeapMax /\ 0 <= loc /\ 0 <= f
    BY <1>2, <1>3, <1>5, <1>10
  <2>3. loc - F = (h + f) - 2 /\ (h + f) - 2 \in Int /\ 0 <= (h + f) - 2 /\ (h + f) - 2 <= HeapMax
    BY <1>2, <1>3, <1>5, <1>10 DEF F
  <2> HIDE DEF loc
  <2>4. U(f) = f /\ U(loc) = loc /\ U((h + f) - 2) = (h + f) - 2
    BY <1>5, <1>10, <2>2, <2>3, Small
  <2> QED  BY <2>1, <2>3, <2>4 DEF loc
<1>14. PutFooter(PutHeader(mem, h, 1, f), (h + f) - 2, h) = m
  BY DEF PutChunk
<1> HIDE DEF m
<1>15. SizeAt(m, h) = f /\ U(s - f) = s - f
  <2>1. 0 <= h /\ h + 2 < HeapMax
    BY <1>2, <1>3
  <2>2. SizeAt(m, h) = m[h + 2]
    BY <1>2, <2>1, Reads
  <2>3. s - f \in Int /\ 0 <= s - f /\ s - f <= HeapMax
    BY <1>2, <1>3, <1>5, <1>7
  <2> QED  BY <1>12, <2>2, <2>3, Small
<1> HIDE DEF loc
<1> DEFINE tch == {h} \cup {(h + f) - 2, loc}
<1>16. t = Placing(m, index, i, loc, s - f, size, tch)
  <2> DEFINE u == Placing(mem, index, i, h, s, size, {h})
  <2>1. u.pos = h /\ u.mem = mem /\ u.hole = s /\ u.touched = {h}
    BY DEF Placing
  <2>2. h >= Page
    BY <1>2, <1>3
  <2>3. t = SplitFront(u, TRUE)
    BY <1>9
  <2> HIDE DEF u, t
  <2>4. SplitFront(u, TRUE) = [u EXCEPT !.mem = m, !.pos = loc, !.hole = s - f,
                                        !.touched = tch]
    BY <1>13, <1>14, <1>15, <2>1, <2>2 DEF SplitFront
  <2> HIDE DEF tch
  <2> QED  BY <2>3, <2>4 DEF u, Placing
<1>17. tch \in SUBSET Mapped
  <2>1. h \in 0 .. HeapMax - 1 /\ (h + f) - 2 \in 0 .. HeapMax - 1 /\ loc \in 0 .. HeapMax - 1
    BY <1>2, <1>3, <1>5, <1>7, <1>10 DEF loc
  <2> QED  BY <2>1 DEF Mapped
<1>18. Layout({h}, {}, m, h, loc)
  BY <1>2, <1>5, <1>12, LayoutHole DEF HoleAt, loc
<1>19. SetOf(index) = (SetOf(index) \ {h}) \cup {h}
  BY <1>1 DEF h
<1>20. s - f \in Int /\ i \in Int /\ h <= loc
  BY <1>2, <1>5, <1>10
<1> DEFINE z == s - f
<1>22. /\ t = Placing(m, index, i, loc, z, size, tch) /\ loc + z = h + s
       /\ z \in Int /\ (z = size + 5 \/ size + 10 <= z)
  BY <1>8, <1>10, <1>16, <1>20
<1> HIDE DEF t, tch, z
<1>23. TakenAs(t, h, s, size, {h}, m, index, i, loc, z, size, tch)
  BY <1>3, <1>12, <1>18, <1>19, <1>20, <1>22 DEF TakenAs
<1>21. Taken(t, h, s, size, {h})
  BY <1>3, <1>10, <1>12, <1>17, <1>20, <1>22, <1>23 DEF Taken
<1> QED  BY <1>21 DEF t, h, s

\* What alloc does with a hole that fits.
BlockMade(h, HD, b) ==
  /\ h \in SetOf(index)
  /\ b.size = request.size /\ b.written = FALSE
  /\ b = [addr |-> b.addr, size |-> b.size, written |-> b.written]
  /\ mem' \in [Mapped -> Cell]
  /\ \A a \in Mapped : a \notin h .. (h + mem[h + 2]) - 1 => mem'[a] = mem[a]
  /\ Layout(HD, {b}, mem', h, h + mem[h + 2])
  /\ index' \in Seq(Int) /\ Once(index') /\ SetOf(index') = (SetOf(index) \ {h}) \cup HD
  /\ live' = live \cup {b}
  /\ request' = None /\ mode' = mode /\ end' = end

\* A block is placed in what was taken.
LEMMA TakenPlaced ==
  ASSUME heapInv, Sound, NEW h \in SetOf(index), NEW size \in Int, 1 <= size, NEW HF,
         HF \subseteq {h}, NEW t0, Taken(t0, h, mem[h + 2], size, HF)
  PROVE  LET t == SplitRest(WriteBlock(t0))
             b == [addr |-> t.pos + H, size |-> size, written |-> FALSE]
         IN /\ t.touched \subseteq Mapped /\ t.mem \in [Mapped -> Cell]
            /\ \A a \in Mapped : a \notin h .. (h + mem[h + 2]) - 1 => t.mem[a] = mem[a]
            /\ t.index \in Seq(Int) /\ Once(t.index) /\ t.pos \in Int
            /\ \E HD : /\ Layout(HD, {b}, t.mem, h, h + mem[h + 2])
                       /\ SetOf(t.index) = (SetOf(index) \ {h}) \cup HD
<1> DEFINE s == mem[h + 2]
           t == SplitRest(WriteBlock(t0))
           b == [addr |-> t.pos + H, size |-> size, written |-> FALSE]
<1>1. PICK m \in [Mapped -> Cell], ix \in Seq(Int), i \in Int, p \in Int, z \in Int, n \in Int,
           tch \in SUBSET Mapped : TakenAs(t0, h, s, size, HF, m, ix, i, p, z, n, tch)
  BY DEF Taken
<1>2. /\ t0 = Placing(m, ix, i, p, z, n, tch)
      /\ h <= p /\ p + z = h + s /\ size <= n /\ (z = n + 5 \/ n + 10 <= z) /\ 6 <= z
      /\ Layout(HF, {}, m, h, p)
      /\ \A a \in Mapped : a \notin h .. p - 1 => m[a] = mem[a]
      /\ SetOf(ix) = (SetOf(index) \ {h}) \cup HF /\ Once(ix)
  BY <1>1 DEF TakenAs
<1>3. h \in Int /\ Start <= h /\ s \in Int /\ 5 <= s /\ h + s <= end
  BY HoleFacts
<1>4. /\ end \in Int /\ end <= HeapMax /\ HeapMax \in Int /\ Start \in Int /\ Start > 5
      /\ Layout(SetOf(index), live, mem, Start, end)
  BY WordFacts, Sizes32
<1> HIDE DEF s
<1>5. t.pos = p /\ t.touched \subseteq Mapped /\ Placed(m, ix, p, z, n, t.mem, t.index)
  <2>1. 0 <= p /\ 1 <= n /\ p + z <= end
    BY <1>2, <1>3, <1>4
  <2>2. t = SplitRest(WriteBlock(Placing(m, ix, i, p, z, n, tch)))
    BY <1>2
  <2> HIDE DEF t
  <2>3. BlockPlaced(SplitRest(WriteBlock(Placing(m, ix, i, p, z, n, tch))), m, ix, p, z, n)
    <3>1. z = n + 5 \/ n + 10 <= z
      BY <1>2
    <3> QED  BY <1>4, <2>1, <3>1, PlaceBlock
  <2> QED  BY <2>2, <2>3 DEF BlockPlaced
<1> DEFINE R == IF z = n + 5 THEN {} ELSE {p + n + 5}
<1>6. /\ t.mem \in [Mapped -> Cell]
      /\ \A a \in Mapped : a \notin p .. (p + z) - 1 => t.mem[a] = m[a]
      /\ \A x \in 1 .. n :
           Layout(R, {[addr |-> p + 3, size |-> x, written |-> FALSE]}, t.mem, p, p + z)
      /\ t.index \in Seq(Int) /\ SetOf(t.index) = SetOf(ix) \cup R
      /\ (Once(ix) /\ (R \cap SetOf(ix) = {}) => Once(t.index))
  BY <1>5 DEF Placed
<1>7. b = [addr |-> p + 3, size |-> size, written |-> FALSE]
  BY <1>5 DEF H
<1> HIDE DEF t, b
<1>8. Layout(R, {b}, t.mem, p, p + z)
  <2>1. size \in 1 .. n
    BY <1>2
  <2> HIDE DEF R
  <2> QED  BY <1>6, <1>7, <2>1
<1>9. ASSUME NEW a \in h .. p - 1  PROVE t.mem[a] = m[a]
  <2>1. a \in Mapped /\ a \notin p .. (p + z) - 1
    BY <1>2, <1>3, <1>4 DEF Mapped
  <2> QED  BY <1>6, <2>1
<1>10. Layout(HF, {}, t.mem, h, p)
  <2>1. Layout(HF, {}, m, h, p)
    BY <1>2
  <2> QED  BY <1>3, <1>9, <2>1, LayoutFrame
<1>11. Layout(HF \cup R, {b}, t.mem, h, h + s)
  <2>1. h <= p /\ p <= p + z /\ p + z \in Int /\ p + z = h + s
    BY <1>2
  <2> HIDE DEF R
  <2>2. Layout(HF \cup R, {} \cup {b}, t.mem, h, p + z)
    BY <1>3, <1>8, <1>10, <2>1, LayoutJoin
  <2>3. {} \cup {b} = {b}
    OBVIOUS
  <2> QED  BY <2>1, <2>2, <2>3
<1>12. ASSUME NEW a \in Mapped, a \notin h .. (h + s) - 1  PROVE t.mem[a] = mem[a]
  <2>1. a \in Int
    BY <1>4 DEF Mapped
  <2>2. a \notin h .. p - 1 /\ a \notin p .. (p + z) - 1
    BY <1>2, <1>3, <1>12, <2>1
  <2> QED  BY <1>2, <1>6, <2>2
<1>13. R \cap SetOf(ix) = {}
  <2> SUFFICES ASSUME z # n + 5  PROVE p + n + 5 \notin SetOf(ix)
    OBVIOUS
  <2> DEFINE g == p + n + 5
             C == SetOf(index) \cup {Hdr(c) : c \in live}
  <2>1. g \in Int /\ h < g /\ g < h + s
    BY <1>2, <1>3
  <2>2. Tiles(C, mem, Start, end)
    BY <1>4 DEF Layout
  <2>3. h \in C /\ SetOf(index) \subseteq C
    OBVIOUS
  <2> HIDE DEF C, g
  <2>4. g \in C => g = h
    <3>1. h <= g /\ g < h + mem[h + 2]
      BY <1>3, <2>1 DEF s
    <3> QED  BY <2>2, <2>3, <3>1, OnlyChunk
  <2>5. g \notin SetOf(index) /\ g # h
    BY <1>3, <2>1, <2>3, <2>4
  <2>6. g \notin SetOf(ix)
    BY <1>2, <2>5
  <2> QED  BY <2>6 DEF g
<1>14. Once(t.index) /\ SetOf(t.index) = (SetOf(index) \ {h}) \cup (HF \cup R)
  <2> HIDE DEF R
  <2> QED  BY <1>2, <1>6, <1>13
<1> HIDE DEF R
<1> QED  BY <1>5, <1>6, <1>11, <1>12, <1>14 DEF t, b, s

\* alloc makes a block of a hole.
LEMMA BlockOutcome ==
  ASSUME heapInv, AllocBlock, Sound'
  PROVE  Sound /\ request # None /\ \E h, HD, b : BlockMade(h, HD, b)
<1> DEFINE need == request.size + Overhead
           i == find_smallest_hole(need, request.align)
           h == index[i]
           t0 == SplitFront(TakeHole(i, request.size), request.align)
           t == SplitRest(WriteBlock(t0))
           b == [addr |-> t.pos + H, size |-> request.size, written |-> FALSE]
<1>1. /\ mode = "run" /\ request # None /\ Fitting(need, request.align) # {}
      /\ IF t.touched \subseteq Mapped
         THEN /\ mem' = t.mem
              /\ index' = t.index
              /\ live' = live \cup {b}
              /\ request' = None
              /\ UNCHANGED mode
         ELSE mode' = "panic" /\ UNCHANGED <<mem, index, live, request>>
      /\ defect' = First(defect, request.align /\ Cramped(index[i], need), "cramped")
      /\ UNCHANGED end
  BY DEF AllocBlock
<1>2. defect = "none" /\ ~(request.align /\ Cramped(index[i], need))
  <2> DEFINE e == request.align /\ Cramped(index[i], need)
  <2>1. First(defect, e, "cramped") = "none"
    BY <1>1 DEF Sound
  <2> HIDE DEF e
  <2>2. defect = "none" /\ ~e
    BY <2>1 DEF First
  <2> QED  BY <2>2 DEF e
<1>3. Sound
  BY <1>1, <1>2 DEF Sound
<1>4. /\ request.size \in Int /\ request.size >= 1 /\ request.align \in BOOLEAN
  BY <1>1, Asked DEF heapInv
<1>5. i \in 1 .. Len(index) /\ Fits(mem, h, need, request.align) /\ h \in SetOf(index)
  <2>1. index \in Seq(Int)
    BY <1>3, WordFacts
  <2> HIDE DEF need
  <2> QED  BY <1>1, <2>1, Found
<1> HIDE DEF i
<1>6. PICK HF \in SUBSET {h} : Taken(t0, h, mem[h + 2], request.size, HF)
  <2>1. CASE request.align = TRUE
    <3>1. ~Cramped(index[i], request.size + Overhead)
      BY <1>2, <2>1
    <3>2. Taken(t0, h, mem[h + 2], request.size, {h})
      BY <1>3, <1>4, <1>5, <2>1, <3>1, TakenAligned
    <3> QED  BY <3>2
  <2>2. CASE request.align = FALSE
    <3>1. Taken(t0, h, mem[h + 2], request.size, {})
      BY <1>3, <1>4, <1>5, <2>2, TakenPlain
    <3> QED  BY <3>1
  <2> QED  BY <1>4, <2>1, <2>2
<1> HIDE DEF h, t0
<1>7. /\ t.touched \subseteq Mapped /\ t.mem \in [Mapped -> Cell]
      /\ \A a \in Mapped : a \notin h .. (h + mem[h + 2]) - 1 => t.mem[a] = mem[a]
      /\ t.index \in Seq(Int) /\ Once(t.index) /\ t.pos \in Int
      /\ \E HD : /\ Layout(HD, {b}, t.mem, h, h + mem[h + 2])
                 /\ SetOf(t.index) = (SetOf(index) \ {h}) \cup HD
  BY <1>3, <1>4, <1>5, <1>6, TakenPlaced
<1> HIDE DEF t
<1>8. PICK HD : /\ Layout(HD, {b}, t.mem, h, h + mem[h + 2])
                /\ SetOf(t.index) = (SetOf(index) \ {h}) \cup HD
  BY <1>7
<1>9. /\ mem' = t.mem /\ index' = t.index /\ live' = live \cup {b} /\ request' = None
      /\ mode' = mode /\ end' = end
  BY <1>1, <1>7
<1>10. /\ b.size = request.size /\ b.written = FALSE
       /\ b = [addr |-> b.addr, size |-> b.size, written |-> b.written]
  OBVIOUS
<1> HIDE DEF b
<1>11. BlockMade(h, HD, b)
  BY <1>5, <1>7, <1>8, <1>9, <1>10 DEF BlockMade
<1> QED  BY <1>1, <1>3, <1>11

\* The layout after it.
LEMMA BlockLayout ==
  ASSUME heapInv, Sound, request # None, NEW h, NEW HD, NEW b, BlockMade(h, HD, b)
  PROVE  /\ Layout(SetOf(index'), live', mem', Start, end')
         /\ \A c \in live : Hdr(c) # Hdr(b)
         /\ b.addr \in Int
<1> DEFINE s == mem[h + 2]
           C == SetOf(index) \cup {Hdr(c) : c \in live}
<1>1. /\ h \in SetOf(index)
      /\ mem' \in [Mapped -> Cell]
      /\ \A a \in Mapped : a \notin h .. (h + s) - 1 => mem'[a] = mem[a]
      /\ Layout(HD, {b}, mem', h, h + s)
      /\ SetOf(index') = (SetOf(index) \ {h}) \cup HD
      /\ live' = live \cup {b} /\ end' = end
  BY DEF BlockMade
<1>2. h \in Int /\ Start <= h /\ s \in Int /\ 5 <= s /\ h + s <= end
  BY <1>1, HoleFacts
<1>3. /\ end \in Int /\ end <= HeapMax /\ HeapMax \in Int /\ Start \in Int /\ Start > 5
      /\ Layout(SetOf(index), live, mem, Start, end)
  BY WordFacts, Sizes32
<1>4. Layout((SetOf(index) \ {h}) \cup HD, live \cup {b}, mem', Start, end)
  <2> DEFINE y2 == h + s
  <2>1. y2 \in Int /\ h <= y2 /\ y2 = h + mem[h + 2]
    BY <1>2
  <2>2. \A a \in Start .. h - 1 : mem'[a] = mem[a]
    <3> SUFFICES ASSUME NEW a \in Start .. h - 1  PROVE mem'[a] = mem[a]
      OBVIOUS
    <3>1. a \in Mapped /\ a \notin h .. (h + s) - 1
      BY <1>2, <1>3 DEF Mapped
    <3> QED  BY <1>1, <3>1
  <2>3. \A a \in y2 .. end - 1 : mem'[a] = mem[a]
    <3> SUFFICES ASSUME NEW a \in y2 .. end - 1  PROVE mem'[a] = mem[a]
      OBVIOUS
    <3>1. a \in Mapped /\ a \notin h .. (h + s) - 1
      BY <1>2, <1>3 DEF Mapped
    <3> QED  BY <1>1, <3>1
  <2>4. Layout(HD, {b}, mem', h, y2)
    BY <1>1
  <2> HIDE DEF y2, s
  <2> QED  BY <1>1, <1>3, <2>1, <2>2, <2>3, <2>4, ReplaceHole
<1>5. Hdr(b) \in Int /\ h <= Hdr(b) /\ Hdr(b) < h + s /\ b.addr \in Int
  <2>1. BlockAt(mem', b)
    BY <1>1 DEF Layout
  <2> DEFINE D == HD \cup {Hdr(c) : c \in {b}}
  <2>2. Tiles(D, mem', h, h + s) /\ Hdr(b) \in D
    BY <1>1 DEF Layout
  <2> HIDE DEF D
  <2>3. /\ Hdr(b) \in Int /\ mem'[Hdr(b) + 2] \in Int
        /\ h <= Hdr(b) /\ 5 <= mem'[Hdr(b) + 2] /\ Hdr(b) + mem'[Hdr(b) + 2] <= h + s
    BY <2>2 DEF Tiles
  <2> QED  BY <1>2, <2>1, <2>3 DEF BlockAt
<1>6. ASSUME NEW c \in live, Hdr(c) = Hdr(b)  PROVE FALSE
  <2>1. Tiles(C, mem, Start, end)
    BY <1>3 DEF Layout
  <2>2. h \in C /\ Hdr(c) \in C
    BY <1>1
  <2>3. Hdr(c) # h
    BY <1>1, <1>3, LayoutFacts DEF Facts
  <2> HIDE DEF C
  <2>4. Hdr(c) = h
    BY <1>5, <1>6, <2>1, <2>2, OnlyChunk
  <2> QED  BY <2>3, <2>4
<1> QED  BY <1>1, <1>4, <1>5, <1>6

\* The invariant.
LEMMA BlockStep ==
  ASSUME heapInv, AllocBlock
  PROVE  heapInv'
<1>1. typesInv'
  <2>1. typesInv /\ mode = "run" /\ request' \in {request, None} /\ mode' \in {mode, "panic"}
        /\ defect' \in {defect, "cramped"}
    BY DEF heapInv, AllocBlock, First
  <2> QED  BY <2>1 DEF typesInv, Defects
<1>2. ASSUME Sound'
      PROVE  wordsInv' /\ Layout(SetOf(index), live, mem, Start, end)'
  <2>1. Sound /\ request # None
    BY <1>2, BlockOutcome
  <2>2. PICK h, HD, b : BlockMade(h, HD, b)
    BY <1>2, BlockOutcome
  <2>3. Layout(SetOf(index'), live', mem', Start, end') /\ b.addr \in Int
    BY <2>1, <2>2, BlockLayout
  <2>4. h \in Int /\ Start <= h /\ mem[h + 2] \in Int
    BY <2>1, <2>2, HoleFacts DEF BlockMade
  <2>5. request \in Requests
    BY <2>1, Asked DEF heapInv
  <2>6. mem'[Start - F] # MAGIC
    <3>1. Start - 2 \in Mapped /\ Start - 2 \notin h .. (h + mem[h + 2]) - 1 /\ Start - F = Start - 2
      BY <2>4, Sizes32 DEF Mapped, F
    <3>2. mem'[Start - 2] = mem[Start - 2]
      BY <2>2, <3>1 DEF BlockMade
    <3> QED  BY <2>1, <3>1, <3>2, WordFacts
  <2>7. wordsInv
    BY <2>1 DEF heapInv
  <2>8. /\ mem' \in [Mapped -> Cell] /\ end' = end
        /\ index' \in Seq(Int) /\ Once(index') /\ live' = live \cup {b}
        /\ b \in [addr : Int, size : {r.size : r \in Requests}, written : BOOLEAN]
    <3>1. /\ mem' \in [Mapped -> Cell] /\ end' = end
          /\ index' \in Seq(Int) /\ Once(index') /\ live' = live \cup {b}
          /\ b.size = request.size /\ b.written = FALSE
          /\ b = [addr |-> b.addr, size |-> b.size, written |-> b.written]
      BY <2>2 DEF BlockMade
    <3>2. b.size \in {r.size : r \in Requests}
      BY <2>5, <3>1
    <3>3. b \in [addr : Int, size : {r.size : r \in Requests}, written : BOOLEAN]
      BY <2>3, <3>1, <3>2
    <3> QED  BY <3>1, <3>3
  <2>9. IsFiniteSet(live')
    BY <2>7, <2>8, FS_AddElement DEF wordsInv
  <2>10. wordsInv'
    BY <2>6, <2>7, <2>8, <2>9 DEF wordsInv, Once
  <2> QED  BY <2>3, <2>10
<1> QED  BY <1>1, <1>2 DEF heapInv

-----------------------------------------------------------------------------
(* alloc expands the heap.                                                 *)

\* The hole with the highest address.
LEMMA EndmostHole ==
  ASSUME heapInv, Sound, index # <<>>
  PROVE  Endmost \in SetOf(index)
<1> DEFINE S == SetOf(index)
           T == {end - x : x \in S}
<1>1. end \in Int /\ index \in Seq(Int)
  BY WordFacts
<1>2. \A x \in S : x \in Int /\ x <= end
  <2> SUFFICES ASSUME NEW x \in S  PROVE x \in Int /\ x <= end
    OBVIOUS
  <2>1. x \in Int /\ mem[x + 2] \in Int /\ 5 <= mem[x + 2] /\ x + mem[x + 2] <= end
    BY HoleFacts
  <2> QED  BY <1>1, <2>1
<1>3. S # {}
  <2>1. Len(index) \in Nat /\ Len(index) # 0
    BY <1>1
  <2>2. 1 \in 1 .. Len(index)
    BY <2>1
  <2> QED  BY <2>2 DEF SetOf
<1>4. S = {index[i] : i \in 1 .. Len(index)}
  BY DEF SetOf
<1> HIDE DEF S
<1>5. T \subseteq Nat /\ T # {}
  BY <1>1, <1>2, <1>3
<1>6. PICK d \in T : \A g \in T : d <= g
  <2> HIDE DEF T
  <2> QED  BY <1>5, LeastExists
<1>7. PICK h \in S : d = end - h
  BY <1>6
<1>8. \A x \in S : x <= h
  <2> SUFFICES ASSUME NEW x \in S  PROVE x <= h
    OBVIOUS
  <2>1. d <= end - x
    BY <1>6
  <2> QED  BY <1>1, <1>2, <1>7, <2>1
<1>9. \A i \in 1 .. Len(index) : index[i] \in S
  BY <1>4
<1> DEFINE Top(x) == \A i \in 1 .. Len(index) : index[i] <= x
<1>10. Top(h)
  BY <1>8, <1>9
<1>11. Endmost = CHOOSE x \in S : Top(x)
  BY <1>4 DEF Endmost
<1> HIDE DEF Top
<1>12. Endmost \in S
  BY <1>10, <1>11
<1> QED  BY <1>12 DEF S

\* What alloc does when no hole fits: the hole at h ends at the new end.
Grown(h, g) ==
  /\ mem' \in [Mapped -> Cell]
  /\ mem'[h] = MAGIC /\ mem'[h + 1] = 1 /\ mem'[h + 2] = g
  /\ \A a \in Mapped : a < h => mem'[a] = mem[a]
  /\ h + g = end' /\ end' > end + (request.size + 5) /\ 5 <= g
  /\ end' \in Int /\ end' <= HeapMax /\ end' \in {Page * n : n \in 1 .. HeapMax}
  /\ \/ index = <<>> /\ h = end /\ index' = <<h>>
     \/ h \in SetOf(index) /\ h + mem[h + 2] = end /\ index' = index
  /\ live' = live /\ request' = request /\ mode' = mode

\* It does so.
LEMMA ExpandOutcome ==
  ASSUME heapInv, AllocExpand, Sound'
  PROVE  Sound /\ request # None /\ \E h, g \in Int : Grown(h, g)
<1> DEFINE need == request.size + Overhead
           size == ExpandedSize(end - Start + need)
           more == size - (end - Start)
           h == IF index = <<>> THEN end ELSE Endmost
           grown == IF index = <<>> THEN more ELSE U(SizeAt(mem, h) + more)
           m == IF index = <<>> THEN PutHeader(mem, h, 1, grown)
                                ELSE PutSize(mem, h, grown)
           footer == U(h + grown - F)
<1>1. /\ mode = "run" /\ request # None
      /\ IF Start + size <= HeapMax /\ {h, U(h + 2), footer, U(footer + 1)} \subseteq Mapped
         THEN /\ end' = Start + size
              /\ mem' = PutFooter(m, footer, h)
              /\ index' = IF index = <<>> THEN <<h>> ELSE index
              /\ UNCHANGED <<request, mode>>
         ELSE mode' = "panic" /\ UNCHANGED <<end, mem, index, request>>
      /\ defect' = First(defect, index # <<>> /\ h + SizeAt(mem, h) # end, "expand")
      /\ UNCHANGED live
  BY DEF AllocExpand
<1>2. defect = "none" /\ ~(index # <<>> /\ h + SizeAt(mem, h) # end)
  <2> DEFINE e == index # <<>> /\ h + SizeAt(mem, h) # end
  <2>1. First(defect, e, "expand") = "none"
    BY <1>1 DEF Sound
  <2> HIDE DEF e
  <2>2. defect = "none" /\ ~e
    BY <2>1 DEF First
  <2> QED  BY <2>2 DEF e
<1>3. Sound
  BY <1>1, <1>2 DEF Sound
<1>4. mode' = "run"
  BY DEF Sound
<1>5. /\ Start + size <= HeapMax /\ end' = Start + size /\ mem' = PutFooter(m, footer, h)
      /\ index' = (IF index = <<>> THEN <<h>> ELSE index)
      /\ request' = request /\ mode' = mode /\ live' = live
  BY <1>1, <1>4
<1>6. request.size \in Int /\ request.size >= 1 /\ need = request.size + 5
  BY <1>1, Asked DEF heapInv, Overhead, H, F
<1>7. /\ mem \in [Mapped -> Cell] /\ end \in Int /\ end <= HeapMax /\ Start + MinSize <= end
      /\ Start \in Int /\ Start > 5 /\ MinSize \in Int /\ MinSize >= 2 * Page /\ Page \in Int
      /\ Page > 5 /\ HeapMax \in Int
  BY <1>3, WordFacts, Sizes32
<1>8. /\ size \in Int /\ size > end - Start + need
      /\ \E n \in Int : n >= 1 /\ size = n * Page
  <2> DEFINE x == end - Start + need
  <2>1. x \in Int /\ x >= Page
    BY <1>6, <1>7
  <2> HIDE DEF x
  <2> QED  BY <2>1, NextPage DEF x
<1> HIDE DEF size
<1>9. end' \in Int /\ end' <= HeapMax /\ end' \in {Page * n : n \in 1 .. HeapMax}
  <2>1. PICK n \in Int : n >= 1 /\ size = n * Page
    BY <1>8
  <2>2. Start + n * Page <= HeapMax /\ end' = Start + n * Page
    BY <1>5, <2>1
  <2>3. Start + n * Page \in {Page * k : k \in 1 .. HeapMax}
    BY <2>1, <2>2, WholePages
  <2> QED  BY <1>5, <1>7, <1>8, <2>2, <2>3
<1>10. more \in Int /\ more > need /\ end + more = end'
  BY <1>5, <1>6, <1>7, <1>8
<1> HIDE DEF more, need
<1>11. CASE index = <<>>
  <2>1. h = end /\ grown = more /\ m = PutHeader(mem, end, 1, more)
    BY <1>11
  <2>2. footer = (end + more) - 2
    <3>1. footer = U(end + more - F)
      BY <2>1
    <3>2. end + more - F = (end + more) - 2 /\ (end + more) - 2 \in Int
          /\ 0 <= (end + more) - 2 /\ (end + more) - 2 <= HeapMax
      BY <1>6, <1>7, <1>9, <1>10 DEF F
    <3> HIDE DEF footer
    <3> QED  BY <3>1, <3>2, Small
  <2> HIDE DEF footer, m, grown, h
  <2>3. mem' = PutChunk(mem, end, 1, more) /\ index' = <<end>>
    BY <1>5, <1>11, <2>1, <2>2 DEF PutChunk
  <2>4. ChunkIn(mem, end, 1, more, PutChunk(mem, end, 1, more))
    <3>1. 0 <= end /\ 5 <= more /\ end + more <= HeapMax /\ 1 \in {0, 1}
      BY <1>6, <1>7, <1>9, <1>10
    <3> QED  BY <1>7, <1>10, <3>1, ChunkPut
  <2>5. /\ mem' \in [Mapped -> Cell]
        /\ mem'[end] = MAGIC /\ mem'[end + 1] = 1 /\ mem'[end + 2] = more
        /\ \A a \in Mapped : a \notin end .. (end + more) - 1 => mem'[a] = mem[a]
    BY <2>3, <2>4 DEF ChunkIn
  <2>6. \A a \in Mapped : a < end => mem'[a] = mem[a]
    BY <1>7, <2>5 DEF Mapped
  <2>7. end' > end + (request.size + 5) /\ 5 <= more
    BY <1>6, <1>7, <1>10
  <2>8. Grown(end, more)
    BY <1>5, <1>9, <1>10, <1>11, <2>3, <2>5, <2>6, <2>7 DEF Grown
  <2> QED  BY <1>1, <1>3, <1>7, <1>10, <2>8
<1>12. CASE index # <<>>
  <2> DEFINE s == mem[h + 2]
             g == s + more
  <2>1. h = Endmost /\ h \in SetOf(index)
    BY <1>3, <1>12, EndmostHole
  <2>2. /\ h \in Int /\ Start <= h /\ s \in Int /\ 5 <= s /\ h + s <= end
        /\ SizeAt(mem, h) = s /\ mem[h] = MAGIC /\ mem[h + 1] = 1
    BY <1>3, <2>1, HoleFacts
  <2> HIDE DEF h
  <2>0. h + SizeAt(mem, h) = end
    BY <1>2, <1>12
  <2>18. end' \in Int /\ end' <= HeapMax
    BY <1>9
  <2>3. h + s = end /\ h + g = end' /\ g \in Int /\ g > 5
    <3>1. h + s = end
      BY <2>0, <2>2
    <3> HIDE DEF s
    <3> QED  BY <1>6, <1>7, <1>10, <2>2, <3>1
  <2>4. grown = g
    <3>1. grown = U(g)
      BY <1>12, <2>2
    <3>2. 0 <= g /\ g <= HeapMax
      BY <1>7, <1>9, <2>2, <2>3
    <3> HIDE DEF grown, g
    <3> QED  BY <2>3, <3>1, <3>2, Small
  <2>5. m = PutSize(mem, h, g)
    BY <1>12, <2>4
  <2> HIDE DEF h, m, grown
  <2>6. footer = end' - 2
    <3>1. h + grown - F = end' - 2 /\ end' - 2 \in Int /\ 0 <= end' - 2 /\ end' - 2 <= HeapMax
      <4>1. h + grown = end'
        BY <2>3, <2>4
      <4>2. Start \in Int /\ Start > 5 /\ HeapMax \in Int
        BY Sizes32
      <4> DEFINE e == end'
                 z == grown
      <4>3. e \in Int /\ e <= HeapMax /\ h + grown = e /\ e > Start
        BY <2>2, <2>3, <2>18, <4>1, <4>2
      <4>4. z \in Int /\ h + z = e /\ e > 5
        BY <2>3, <2>4, <4>2, <4>3
      <4> HIDE DEF e, z
      <4>5. h + z - F = e - 2
        BY <2>2, <4>3, <4>4 DEF F
      <4>6. e - 2 \in Int /\ 0 <= e - 2 /\ e - 2 <= HeapMax
        BY <4>2, <4>3, <4>4
      <4> QED  BY <4>5, <4>6 DEF e, z
    <3> QED  BY <3>1, Small
  <2> HIDE DEF footer
  <2>7. g \in Cell /\ h \in Cell
    BY <1>7, <1>9, <2>2, <2>3, Sizes32 DEF Cell
  <2> HIDE DEF g
  <2>8. /\ m \in [Mapped -> Cell] /\ m[h + 2] = g
        /\ \A a \in Mapped : a # h + 2 => m[a] = mem[a]
    <3>1. 0 <= h /\ h + 2 < HeapMax
      BY <1>7, <2>2
    <3> QED  BY <1>7, <2>2, <2>5, <2>7, <3>1, SizePut
  <2>9. mem' = PutFooter(m, end' - 2, h) /\ index' = index
    BY <1>5, <1>12, <2>6
  <2>10. end' - 2 \in Int /\ 0 <= end' - 2 /\ (end' - 2) + 1 < HeapMax /\ h + 2 < end' - 2
    <3> DEFINE e == end'
    <3>1. h \in Int /\ Start <= h /\ Start > 5 /\ Start \in Int /\ HeapMax \in Int
      BY <1>7, <2>2
    <3>2. h + g = e /\ g \in Int /\ g > 5 /\ e \in Int /\ e <= HeapMax
      BY <2>3, <2>18
    <3> HIDE DEF e
    <3>3. e - 2 \in Int /\ 0 <= e - 2 /\ (e - 2) + 1 < HeapMax /\ h + 2 < e - 2
      BY <3>1, <3>2
    <3> QED  BY <3>3 DEF e
  <2> DEFINE f == end' - 2
  <2>11. /\ mem' \in [Mapped -> Cell]
         /\ \A a \in Mapped : a \notin f .. f + 1 => mem'[a] = m[a]
    <3> HIDE DEF f
    <3>1. f \in Int /\ 0 <= f /\ f + 1 < HeapMax /\ mem' = PutFooter(m, f, h)
      BY <2>9, <2>10 DEF f
    <3> QED  BY <2>7, <2>8, <3>1, FooterPut
  <2>12. \A a \in Mapped : a <= h + 2 => mem'[a] = m[a]
    <3> SUFFICES ASSUME NEW a \in Mapped, a <= h + 2  PROVE mem'[a] = m[a]
      OBVIOUS
    <3>1. f \in Int /\ h + 2 < f /\ h \in Int
      BY <2>2, <2>10
    <3> HIDE DEF f
    <3>2. a \notin f .. f + 1
      BY <1>7, <3>1 DEF Mapped
    <3> QED  BY <2>11, <3>2
  <2>13. h \in Mapped /\ h + 1 \in Mapped /\ h + 2 \in Mapped
    BY <1>7, <2>2 DEF Mapped
  <2>14. mem'[h] = MAGIC /\ mem'[h + 1] = 1 /\ mem'[h + 2] = g
    BY <2>2, <2>8, <2>12, <2>13
  <2>15. \A a \in Mapped : a < h => mem'[a] = mem[a]
    BY <1>7, <2>2, <2>8, <2>12 DEF Mapped
  <2>16. end' > end + (request.size + 5) /\ 5 <= g
    BY <1>6, <1>7, <1>10, <2>3
  <2>17. Grown(h, g)
    BY <1>5, <1>9, <2>1, <2>3, <2>9, <2>11, <2>14, <2>15, <2>16 DEF Grown, s
  <2> QED  BY <1>1, <1>3, <2>2, <2>3, <2>17
<1> QED  BY <1>11, <1>12

\* The layout after it.
LEMMA ExpandLayout ==
  ASSUME heapInv, Sound, request # None, NEW h \in Int, NEW g \in Int, Grown(h, g)
  PROVE  /\ Layout(SetOf(index'), live', mem', Start, end')
         /\ index' \in Seq(Int) /\ Once(index') /\ Start <= h
<1>1. /\ mem \in [Mapped -> Cell] /\ end \in Int /\ end <= HeapMax /\ Start + MinSize <= end
      /\ Start \in Int /\ Start > 5 /\ MinSize \in Int /\ HeapMax \in Int /\ MinSize >= 0
      /\ index \in Seq(Int) /\ Once(index) /\ Layout(SetOf(index), live, mem, Start, end)
  BY WordFacts, Sizes32
<1>2. /\ mem'[h] = MAGIC /\ mem'[h + 1] = 1 /\ mem'[h + 2] = g
      /\ \A a \in Mapped : a < h => mem'[a] = mem[a]
      /\ h + g = end' /\ 5 <= g /\ end' \in Int /\ live' = live
      /\ \/ index = <<>> /\ h = end /\ index' = <<h>>
         \/ h \in SetOf(index) /\ h + mem[h + 2] = end /\ index' = index
  BY DEF Grown
<1>3. Layout({h}, {}, mem', h, end')
  BY <1>2, LayoutHole DEF HoleAt
<1>4. h <= end' /\ end' <= HeapMax
  BY <1>2 DEF Grown
<1>5. Start <= h /\ h <= end
  <2>1. CASE index = <<>> /\ h = end /\ index' = <<h>>
    BY <1>1, <2>1
  <2>2. CASE h \in SetOf(index) /\ h + mem[h + 2] = end /\ index' = index
    <3>1. Start <= h /\ mem[h + 2] \in Int /\ 5 <= mem[h + 2]
      BY <2>2, HoleFacts
    <3> QED  BY <1>1, <2>2, <3>1
  <2> QED  BY <1>2, <2>1, <2>2
<1>6. \A a \in Start .. h - 1 : mem'[a] = mem[a]
  <2> SUFFICES ASSUME NEW a \in Start .. h - 1  PROVE mem'[a] = mem[a]
    OBVIOUS
  <2>1. a \in Mapped /\ a < h
    BY <1>1, <1>5 DEF Mapped
  <2> QED  BY <1>2, <2>1
<1>7. CASE index = <<>> /\ h = end /\ index' = <<h>>
  <2>1. SetOf(index) = {} /\ SetOf(index') = {h} /\ index' \in Seq(Int) /\ Once(index')
    BY <1>7 DEF SetOf, Once
  <2>2. Layout({}, live, mem, Start, end)
    BY <1>1, <2>1
  <2>3. Layout({}, live, mem', Start, h)
    BY <1>1, <1>6, <1>7, <2>2, LayoutFrame
  <2>4. Layout({} \cup {h}, live \cup {}, mem', Start, end')
    BY <1>1, <1>2, <1>3, <1>4, <1>5, <2>3, LayoutJoin
  <2>5. {} \cup {h} = {h} /\ live \cup {} = live
    OBVIOUS
  <2>6. Layout({h}, live, mem', Start, end')
    BY <2>4, <2>5
  <2> QED  BY <1>2, <1>5, <2>1, <2>6
<1>8. CASE h \in SetOf(index) /\ h + mem[h + 2] = end /\ index' = index
  <2>1. Layout((SetOf(index) \ {h}) \cup {h}, live \cup {}, mem', Start, end')
    BY <1>1, <1>2, <1>3, <1>4, <1>6, <1>8, ReplaceHole
  <2>2. (SetOf(index) \ {h}) \cup {h} = SetOf(index) /\ live \cup {} = live
    BY <1>8
  <2>3. Layout(SetOf(index), live, mem', Start, end')
    BY <2>1, <2>2
  <2> QED  BY <1>1, <1>2, <1>5, <1>8, <2>3
<1> QED  BY <1>2, <1>7, <1>8

\* The invariant.
LEMMA ExpandStep ==
  ASSUME heapInv, AllocExpand
  PROVE  heapInv'
<1>1. typesInv'
  <2>1. typesInv /\ mode = "run" /\ request' = request /\ mode' \in {mode, "panic"}
        /\ defect' \in {defect, "expand"}
    BY DEF heapInv, AllocExpand, First
  <2> QED  BY <2>1 DEF typesInv, Defects
<1>2. ASSUME Sound'
      PROVE  wordsInv' /\ Layout(SetOf(index), live, mem, Start, end)'
  <2>1. Sound /\ request # None
    BY <1>2, ExpandOutcome
  <2>2. PICK h \in Int, g \in Int : Grown(h, g)
    BY <1>2, ExpandOutcome
  <2>3. /\ Layout(SetOf(index'), live', mem', Start, end')
        /\ index' \in Seq(Int) /\ Once(index') /\ Start <= h
    BY <2>1, <2>2, ExpandLayout
  <2>4. wordsInv
    BY <2>1 DEF heapInv
  <2>5. /\ mem' \in [Mapped -> Cell] /\ end' \in Int /\ end' <= HeapMax
        /\ end' > end + (request.size + 5) /\ end' \in {Page * n : n \in 1 .. HeapMax}
        /\ \A a \in Mapped : a < h => mem'[a] = mem[a]
        /\ live' = live
    BY <2>2 DEF Grown
  <2>6. mem'[Start - F] # MAGIC
    <3>1. Start - 2 \in Mapped /\ Start - 2 < h /\ Start - F = Start - 2
      BY <2>3, Sizes32 DEF Mapped, F
    <3>2. mem'[Start - 2] = mem[Start - 2]
      BY <2>5, <3>1
    <3> QED  BY <2>1, <3>1, <3>2, WordFacts
  <2>7. end' \in Start + MinSize .. HeapMax
    <3>1. end \in Int /\ Start + MinSize <= end /\ request.size \in Int /\ request.size >= 1
      BY <2>1, WordFacts, Asked DEF heapInv
    <3> QED  BY <2>5, <3>1, Sizes32
  <2>8. wordsInv'
    BY <2>3, <2>4, <2>5, <2>6, <2>7 DEF wordsInv, Once
  <2> QED  BY <2>3, <2>8
<1> QED  BY <1>1, <1>2 DEF heapInv

-----------------------------------------------------------------------------
(* free.                                                                   *)

\* The state of free.
Freeing(m, ix, e, h, f, test, add, md, df) ==
  [mem |-> m, index |-> ix, end |-> e, header |-> h, footer |-> f, test |-> test,
   add |-> add, mode |-> md, defect |-> df]

\* The heap in the middle of free: the hole that free makes is at h, and may not
\* be in the index yet.
Clients(L) ==
  IsFiniteSet(L) /\ L \subseteq [addr : Int, size : {r.size : r \in Requests}, written : BOOLEAN]

HeapFreeing(m, ix, e, h, L) ==
  /\ Clients(L)
  /\ m \in [Mapped -> Cell] /\ m[Start - 2] # MAGIC
  /\ e \in Int /\ Start + MinSize <= e /\ e <= HeapMax /\ e \in {Page * n : n \in 1 .. HeapMax}
  /\ ix \in Seq(Int) /\ Once(ix) /\ h \in Int
  /\ Layout(SetOf(ix) \cup {h}, L, m, Start, e)

Modes == {"run", "panic", "undefined"}

\* What holds in a state of free with the blocks L, before UnifyLeft and then
\* before contract, where the footer is known, and after it.
FreeIs(m, ix, e, h, f, add, md, df, L) ==
  /\ md \in Modes /\ df \in Defects \cup {"none"}
  /\ md = "run" /\ df = "none" =>
       /\ HeapFreeing(m, ix, e, h, L) /\ add = (h \notin SetOf(ix))
       /\ f \in Int /\ f + 2 = h + m[h + 2]

FreeNew(t, L) ==
  \E m, ix, e, h, f, test, add, md, df :
    /\ t = Freeing(m, ix, e, h, f, test, add, md, df)
    /\ FreeIs(m, ix, e, h, f, add, md, df, L)
    /\ md = "run" /\ df = "none" => h \notin SetOf(ix)

FreeAt(t, L) ==
  \E m, ix, e, h, f, test, add, md, df :
    /\ t = Freeing(m, ix, e, h, f, test, add, md, df)
    /\ FreeIs(m, ix, e, h, f, add, md, df, L)

CutIs(m, ix, e, h, add, md, df, L) ==
  /\ md \in Modes /\ df \in Defects \cup {"none"}
  /\ md = "run" /\ df = "none" =>
       HeapFreeing(m, ix, e, h, L) /\ add = (h \notin SetOf(ix))

FreeCut(t, L) ==
  \E m, ix, e, h, f, test, add, md, df :
    /\ t = Freeing(m, ix, e, h, f, test, add, md, df)
    /\ CutIs(m, ix, e, h, add, md, df, L)

\* The predicates from the fields.
LEMMA FreeNewFrom ==
  ASSUME NEW m, NEW ix, NEW e, NEW h, NEW f, NEW test, NEW add, NEW md, NEW df, NEW L,
         FreeIs(m, ix, e, h, f, add, md, df, L),
         md = "run" /\ df = "none" => h \notin SetOf(ix)
  PROVE  FreeNew(Freeing(m, ix, e, h, f, test, add, md, df), L)
<1> DEFINE t == Freeing(m, ix, e, h, f, test, add, md, df)
<1>1. t = Freeing(m, ix, e, h, f, test, add, md, df)
  OBVIOUS
<1> HIDE DEF t
<1>2. FreeNew(t, L)
  BY <1>1, Zenon DEF FreeNew
<1> QED  BY <1>2 DEF t

\* After UnifyLeft.
LEMMA FreeAtFrom ==
  ASSUME NEW m, NEW ix, NEW e, NEW h, NEW f, NEW test, NEW add, NEW md, NEW df, NEW L,
         FreeIs(m, ix, e, h, f, add, md, df, L)
  PROVE  FreeAt(Freeing(m, ix, e, h, f, test, add, md, df), L)
<1> DEFINE t == Freeing(m, ix, e, h, f, test, add, md, df)
<1>1. t = Freeing(m, ix, e, h, f, test, add, md, df)
  OBVIOUS
<1> HIDE DEF t
<1>2. FreeAt(t, L)
  BY <1>1, Zenon DEF FreeAt
<1> QED  BY <1>2 DEF t

\* After contract.
LEMMA FreeCutFrom ==
  ASSUME NEW m, NEW ix, NEW e, NEW h, NEW f, NEW test, NEW add, NEW md, NEW df, NEW L,
         CutIs(m, ix, e, h, add, md, df, L)
  PROVE  FreeCut(Freeing(m, ix, e, h, f, test, add, md, df), L)
<1> DEFINE t == Freeing(m, ix, e, h, f, test, add, md, df)
<1>1. t = Freeing(m, ix, e, h, f, test, add, md, df)
  OBVIOUS
<1> HIDE DEF t
<1>2. FreeCut(t, L)
  BY <1>1, Zenon DEF FreeCut
<1> QED  BY <1>2 DEF t

\* The first event keeps its name.
LEMMA Firsts ==
  ASSUME NEW df \in Defects \cup {"none"}, NEW event \in BOOLEAN, NEW name \in Defects
  PROVE  /\ First(df, event, name) \in Defects \cup {"none"}
         /\ First(df, event, name) = "none" => df = "none" /\ ~event
BY DEF First, Defects

\* Two holes side by side become one.
LEMMA MergeHoles ==
  ASSUME NEW Hs, NEW L, NEW m, NEW m2, NEW e \in Int, Layout(Hs, L, m, Start, e),
         NEW c \in Hs, NEW d \in Hs, c + m[c + 2] = d,
         m2[c + 2] = m[c + 2] + m[d + 2],
         \A a \in Start .. e - 1 : a # c + 2 /\ ~(d <= a /\ a < d + m[d + 2]) => m2[a] = m[a]
  PROVE  Layout(Hs \ {d}, L, m2, Start, e)
<1> DEFINE C == Hs \cup {Hdr(b) : b \in L}
           s == m[c + 2]
           z == m[d + 2]
           y == d + z
<1>0. Start \in Int
  BY Sizes32
<1>1. Facts(Hs, L, m, Start, e)
  BY <1>0, LayoutFacts
<1>2. /\ Tiles(C, m, Start, e)
      /\ \A x \in C : x \in Int
      /\ \A b \in L : Hdr(b) # c /\ Hdr(b) # d
      /\ c \in Int /\ s \in Int /\ 5 <= s /\ Start <= c /\ m[c] = MAGIC /\ m[c + 1] = 1
      /\ d \in Int /\ z \in Int /\ 5 <= z /\ d + z <= e
  <2>1. c \in C /\ d \in C
    OBVIOUS
  <2>2. \A x \in C : /\ x \in Int /\ m[x + 2] \in Int /\ m[x] = MAGIC
                     /\ Start <= x /\ 5 <= m[x + 2] /\ x + m[x + 2] <= e
    BY <1>1 DEF Facts
  <2>3. Tiles(C, m, Start, e) /\ m[c + 1] = 1 /\ \A b \in L : Hdr(b) # c /\ Hdr(b) # d
    BY <1>1 DEF Facts
  <2> HIDE DEF C
  <2> QED  BY <2>1, <2>2, <2>3
<1>3. c + s = d
  OBVIOUS
<1>4. y \in C \/ y = e
  <2>1. d \in C
    OBVIOUS
  <2> HIDE DEF C
  <2> QED  BY <1>0, <1>2, <2>1, NextChunk
<1>5. \A x \in C : c <= x /\ x < y => x = c \/ x = d
  <2> SUFFICES ASSUME NEW x \in C, c <= x, x < y  PROVE x = c \/ x = d
    OBVIOUS
  <2>1. c \in C /\ d \in C
    OBVIOUS
  <2> HIDE DEF C
  <2>2. CASE x < d
    <3>1. x < c + m[c + 2]
      BY <2>2
    <3> QED  BY <1>2, <2>1, <3>1, OnlyChunk
  <2>3. CASE ~(x < d)
    <3>1. d <= x /\ x < d + m[d + 2]
      BY <1>2, <2>3
    <3> QED  BY <1>2, <2>1, <3>1, OnlyChunk
  <2> QED  BY <2>2, <2>3
<1> HIDE DEF s, z
<1>6. c <= y /\ c < d /\ d < y /\ y \in Int /\ y <= e /\ Start <= c /\ c + (s + z) = y
  BY <1>2, <1>3
<1>7. Layout({c}, {}, m2, c, y)
  <2>1. c \in Start .. e - 1 /\ c + 1 \in Start .. e - 1
    BY <1>0, <1>2, <1>6
  <2>2. /\ c # c + 2 /\ ~(d <= c /\ c < d + m[d + 2])
        /\ c + 1 # c + 2 /\ ~(d <= c + 1 /\ c + 1 < d + m[d + 2])
    BY <1>2, <1>3, <1>6
  <2>3. m2[c] = m[c] /\ m2[c + 1] = m[c + 1] /\ m2[c + 2] = s + z
    BY <2>1, <2>2 DEF s, z
  <2>4. HoleAt(m2, c) /\ s + z \in Int /\ 5 <= s + z
    BY <1>2, <2>3 DEF HoleAt
  <2> HIDE DEF y
  <2> QED  BY <1>2, <1>6, <2>3, <2>4, LayoutHole
<1>8. \A a \in Start .. c - 1 : m2[a] = m[a]
  <2> SUFFICES ASSUME NEW a \in Start .. c - 1  PROVE m2[a] = m[a]
    OBVIOUS
  <2>1. a \in Start .. e - 1 /\ a # c + 2 /\ ~(d <= a /\ a < d + m[d + 2])
    BY <1>0, <1>2, <1>6
  <2> QED  BY <2>1
<1>9. \A a \in y .. e - 1 : m2[a] = m[a]
  <2> SUFFICES ASSUME NEW a \in y .. e - 1  PROVE m2[a] = m[a]
    OBVIOUS
  <2>1. a \in Start .. e - 1 /\ a # c + 2
    BY <1>0, <1>2, <1>3, <1>6
  <2>2. ~(a < d + m[d + 2])
    <3>1. y = d + m[d + 2]
      BY DEF z
    <3> QED  BY <1>6, <3>1
  <2> QED  BY <2>1, <2>2
<1> HIDE DEF y
<1>10. Layout({h \in Hs : h < c \/ ~(h < y)} \cup {c},
              {b \in L : Hdr(b) < c \/ ~(Hdr(b) < y)} \cup {}, m2, Start, e)
  <2>1. y \in Hs \/ y \in {Hdr(b) : b \in L} \/ y = e
    BY <1>4
  <2>2. Start <= c /\ c <= y /\ y <= e /\ c \in Int /\ y \in Int
    BY <1>2, <1>6
  <2> QED  BY <1>7, <1>8, <1>9, <2>1, <2>2, Rebuild
<1>11. {h \in Hs : h < c \/ ~(h < y)} \cup {c} = Hs \ {d}
  <2>1. \A h \in Hs : h \in Int /\ (c <= h /\ h < y => h = c \/ h = d)
    BY <1>2, <1>5
  <2>2. \A h \in Hs : (h < c \/ ~(h < y)) <=> (h # c /\ h # d)
    BY <1>2, <1>6, <2>1
  <2>3. c # d /\ c \in Hs
    BY <1>2, <1>6
  <2> QED  BY <2>2, <2>3
<1>12. {b \in L : Hdr(b) < c \/ ~(Hdr(b) < y)} \cup {} = L
  <2>1. \A b \in L : Hdr(b) \in C
    OBVIOUS
  <2> HIDE DEF C
  <2>2. \A b \in L : Hdr(b) < c \/ ~(Hdr(b) < y)
    BY <1>2, <1>5, <1>6, <2>1
  <2> QED  BY <2>2
<1> QED  BY <1>10, <1>11, <1>12

\* A block becomes a hole.
LEMMA BlockToHole ==
  ASSUME NEW Hs, NEW L, NEW m, NEW m2, NEW e \in Int, Layout(Hs, L, m, Start, e),
         NEW b \in L, m2[Hdr(b) + 1] = 1,
         \A a \in Start .. e - 1 : a # Hdr(b) + 1 => m2[a] = m[a]
  PROVE  Layout(Hs \cup {Hdr(b)}, L \ {b}, m2, Start, e) /\ Hdr(b) \notin Hs
<1> DEFINE C == Hs \cup {Hdr(c) : c \in L}
           x == Hdr(b)
           s == m[x + 2]
           y == x + s
<1>0. Start \in Int
  BY Sizes32
<1>1. Facts(Hs, L, m, Start, e)
  BY <1>0, LayoutFacts
<1>2. /\ Tiles(C, m, Start, e)
      /\ \A c \in C : c \in Int
      /\ \A h \in Hs : h # x
      /\ x \in Int /\ s \in Int /\ 5 <= s /\ Start <= x /\ m[x] = MAGIC /\ y <= e
  <2>1. x \in C
    OBVIOUS
  <2>2. \A c \in C : /\ c \in Int /\ m[c + 2] \in Int /\ m[c] = MAGIC
                     /\ Start <= c /\ 5 <= m[c + 2] /\ c + m[c + 2] <= e
    BY <1>1 DEF Facts
  <2>3. Tiles(C, m, Start, e) /\ \A h \in Hs : h # x
    BY <1>1 DEF Facts
  <2> HIDE DEF C, x
  <2> QED  BY <2>1, <2>2, <2>3
<1>3. \A c, d \in L : Hdr(c) = Hdr(d) => c = d
  BY DEF Layout
<1>4. x \in C /\ (y \in C \/ y = e)
  <2>1. x \in C
    OBVIOUS
  <2> HIDE DEF C, x
  <2> QED  BY <1>0, <1>2, <2>1, NextChunk
<1>5. \A c \in C : x <= c /\ c < y => c = x
  <2> HIDE DEF C, x
  <2> QED  BY <1>2, <1>4, OnlyChunk
<1> HIDE DEF x, s
<1>6. y \in Int /\ x < y /\ x <= y
  BY <1>2
<1>7. m2[x] = MAGIC /\ m2[x + 1] = 1 /\ m2[x + 2] = s
  <2>1. x \in Start .. e - 1 /\ x + 2 \in Start .. e - 1 /\ x # x + 1 /\ x + 2 # x + 1
    BY <1>0, <1>2
  <2> QED  BY <1>2, <2>1 DEF x, s
<1>8. Layout({x}, {}, m2, x, y)
  BY <1>2, <1>7, LayoutHole DEF HoleAt
<1>9. \A a \in Start .. x - 1 : m2[a] = m[a]
  <2> SUFFICES ASSUME NEW a \in Start .. x - 1  PROVE m2[a] = m[a]
    OBVIOUS
  <2>1. a \in Start .. e - 1 /\ a # x + 1
    BY <1>0, <1>2
  <2> QED  BY <2>1 DEF x
<1>10. \A a \in y .. e - 1 : m2[a] = m[a]
  <2> SUFFICES ASSUME NEW a \in y .. e - 1  PROVE m2[a] = m[a]
    OBVIOUS
  <2>1. a \in Start .. e - 1 /\ a # x + 1
    BY <1>0, <1>2
  <2> QED  BY <2>1 DEF x
<1> HIDE DEF y
<1>11. Layout({h \in Hs : h < x \/ ~(h < y)} \cup {x},
              {c \in L : Hdr(c) < x \/ ~(Hdr(c) < y)} \cup {}, m2, Start, e)
  <2>1. (y \in Hs \/ y \in {Hdr(c) : c \in L} \/ y = e) /\ x \in {Hdr(c) : c \in L}
    BY <1>4 DEF x
  <2>2. Start <= x /\ x <= y /\ y <= e /\ x \in Int /\ y \in Int
    BY <1>2, <1>6 DEF y
  <2> QED  BY <1>8, <1>9, <1>10, <2>1, <2>2, Rebuild
<1>12. {h \in Hs : h < x \/ ~(h < y)} \cup {x} = Hs \cup {x}
  <2>1. \A h \in Hs : h \in Int /\ h # x /\ (x <= h /\ h < y => h = x)
    BY <1>2, <1>5
  <2>2. \A h \in Hs : h < x \/ ~(h < y)
    BY <1>2, <1>6, <2>1
  <2> QED  BY <2>2
<1>13. {c \in L : Hdr(c) < x \/ ~(Hdr(c) < y)} \cup {} = L \ {b}
  <2>1. \A c \in L : Hdr(c) \in C
    OBVIOUS
  <2>2. Hdr(b) = x
    BY DEF x
  <2>3. \A c \in L : Hdr(c) = x => c = b
    BY <1>3, <2>2
  <2> HIDE DEF C
  <2>4. \A c \in L : (Hdr(c) < x \/ ~(Hdr(c) < y)) <=> c # b
    BY <1>2, <1>5, <1>6, <2>1, <2>2, <2>3
  <2> QED  BY <2>4
<1> QED  BY <1>2, <1>11, <1>12, <1>13 DEF x

\* What a hole being freed is, in numbers.
LEMMA FreeingFacts ==
  ASSUME NEW m, NEW ix, NEW e, NEW h, NEW L, HeapFreeing(m, ix, e, h, L),
         NEW c \in SetOf(ix) \cup {h}
  PROVE  /\ c \in Int /\ Start <= c /\ m[c + 2] \in Int /\ 5 <= m[c + 2] /\ c + m[c + 2] <= e
         /\ SizeAt(m, c) = m[c + 2] /\ m[c] = MAGIC /\ m[c + 1] = 1
         /\ e \in Int /\ e <= HeapMax /\ m \in [Mapped -> Cell] /\ ix \in Seq(Int)
<1> DEFINE Hs == SetOf(ix) \cup {h}
           C == Hs \cup {Hdr(b) : b \in L}
<1>1. /\ e \in Int /\ e <= HeapMax /\ m \in [Mapped -> Cell] /\ ix \in Seq(Int)
      /\ Layout(Hs, L, m, Start, e) /\ Start \in Int /\ Start > 5 /\ HeapMax \in Int
  BY Sizes32 DEF HeapFreeing
<1>2. Facts(Hs, L, m, Start, e)
  <2> HIDE DEF Hs
  <2> QED  BY <1>1, LayoutFacts
<1>3. c \in C /\ c \in Hs
  OBVIOUS
<1>4. /\ c \in Int /\ Start <= c /\ m[c + 2] \in Int /\ 5 <= m[c + 2] /\ c + m[c + 2] <= e
      /\ m[c] = MAGIC /\ m[c + 1] = 1
  <2>1. \A x \in C : /\ x \in Int /\ m[x + 2] \in Int /\ m[x] = MAGIC
                     /\ Start <= x /\ 5 <= m[x + 2] /\ x + m[x + 2] <= e
    BY <1>2 DEF Facts
  <2>2. \A x \in Hs : m[x + 1] = 1
    BY <1>2 DEF Facts
  <2> HIDE DEF C, Hs
  <2> QED  BY <1>3, <2>1, <2>2
<1>5. SizeAt(m, c) = m[c + 2]
  <2>1. 0 <= c /\ c + 2 < HeapMax
    BY <1>1, <1>4
  <2> QED  BY <1>4, <2>1, Reads
<1> QED  BY <1>1, <1>4, <1>5

\* The freed block is marked as a hole.
LEMMA HoleMade ==
  ASSUME heapInv, mode = "run", NEW b \in live
  PROVE  FreeNew(MakeHole(Hdr(b)), live \ {b})
<1> DEFINE h == Hdr(b)
           m == [mem EXCEPT ![h + 1] = 1]
           f == FooterOf(mem, h)
           md == IF IsMagic(mem, h) /\ IsMagic(mem, f) THEN mode ELSE "panic"
           L == live \ {b}
           yes == TRUE
<1>1. MakeHole(h) = Freeing(m, index, end, h, f, 0, yes, md, defect)
  BY DEF MakeHole, Freeing
<1>2. md \in Modes /\ defect \in Defects \cup {"none"}
  BY DEF heapInv, typesInv, Modes
<1>3. ASSUME defect = "none"
      PROVE  /\ HeapFreeing(m, index, end, h, L) /\ h \notin SetOf(index)
             /\ f \in Int /\ f + 2 = h + m[h + 2]
  <2>1. Sound
    BY <1>3 DEF Sound
  <2>2. /\ mem \in [Mapped -> Cell] /\ mem[Start - 2] # MAGIC
        /\ end \in Int /\ end <= HeapMax /\ Start + MinSize <= end
        /\ index \in Seq(Int) /\ Once(index) /\ Start \in Int /\ Start > 5 /\ HeapMax \in Int
        /\ Layout(SetOf(index), live, mem, Start, end)
    BY <2>1, WordFacts, Sizes32
  <2>3. end \in {Page * n : n \in 1 .. HeapMax}
    BY <2>1 DEF heapInv, wordsInv
  <2>4. /\ h \in Int /\ mem[h + 2] \in Int /\ Start <= h /\ 5 <= mem[h + 2]
        /\ h + mem[h + 2] <= end
    <3> DEFINE C == SetOf(index) \cup {Hdr(c) : c \in live}
    <3>1. Facts(SetOf(index), live, mem, Start, end)
      BY <2>2, LayoutFacts
    <3>2. \A x \in C : /\ x \in Int /\ mem[x + 2] \in Int
                       /\ Start <= x /\ 5 <= mem[x + 2] /\ x + mem[x + 2] <= end
      BY <3>1 DEF Facts
    <3>3. h \in C
      OBVIOUS
    <3> HIDE DEF C, h
    <3> QED  BY <3>2, <3>3
  <2> DEFINE s == mem[h + 2]
  <2> HIDE DEF h
  <2>5. h + 1 \in Mapped /\ 0 <= h /\ h + 2 < HeapMax /\ 1 \in Cell
    BY <2>2, <2>4, Sizes32 DEF Mapped, Cell
  <2>6. /\ m \in [Mapped -> Cell] /\ m[h + 1] = 1
        /\ \A a \in Mapped : a # h + 1 => m[a] = mem[a]
    BY <2>2, <2>5
  <2>7. f = (h + s) - 2
    <3>1. SizeAt(mem, h) = s
      BY <2>4, <2>5, Reads
    <3>2. h + s - F = (h + s) - 2
      BY <2>4 DEF F
    <3>3. (h + s) - 2 \in Int /\ 0 <= (h + s) - 2 /\ (h + s) - 2 <= HeapMax
      BY <2>2, <2>4
    <3> HIDE DEF s
    <3> QED  BY <3>1, <3>2, <3>3, Small DEF FooterOf
  <2> HIDE DEF m, f
  <2>8. m[h + 2] = s /\ m[Start - 2] = mem[Start - 2]
    <3>1. h + 2 \in Mapped /\ Start - 2 \in Mapped /\ Start - 2 # h + 1 /\ h + 2 # h + 1
      BY <2>2, <2>4, <2>5 DEF Mapped
    <3> QED  BY <2>6, <3>1
  <2>9. \A a \in Start .. end - 1 : a # Hdr(b) + 1 => m[a] = mem[a]
    <3> SUFFICES ASSUME NEW a \in Start .. end - 1, a # h + 1  PROVE m[a] = mem[a]
      BY DEF h
    <3>1. a \in Mapped
      BY <2>2 DEF Mapped
    <3> QED  BY <2>6, <3>1
  <2>10. Layout(SetOf(index) \cup {h}, L, m, Start, end) /\ h \notin SetOf(index)
    <3>1. m[Hdr(b) + 1] = 1
      BY <2>6 DEF h
    <3>2. end \in Int /\ Layout(SetOf(index), live, mem, Start, end)
      BY <2>2
    <3>3. Layout(SetOf(index) \cup {Hdr(b)}, live \ {b}, m, Start, end)
      BY <2>9, <3>1, <3>2, BlockToHole
    <3>4. Hdr(b) \notin SetOf(index)
      BY <2>9, <3>1, <3>2, BlockToHole
    <3> QED  BY <3>3, <3>4 DEF h
  <2>11. f \in Int /\ f + 2 = h + m[h + 2]
    BY <2>4, <2>7, <2>8
  <2>12. HeapFreeing(m, index, end, h, L)
    <3>1. Clients(L)
      <4>1. Clients(live)
        BY <2>1 DEF heapInv, wordsInv, Clients
      <4>2. L \subseteq live
        OBVIOUS
      <4> QED  BY <4>1, <4>2, FS_Subset DEF Clients
    <3> HIDE DEF L
    <3> QED  BY <2>2, <2>3, <2>4, <2>6, <2>8, <2>10, <3>1 DEF HeapFreeing
  <2> QED  BY <2>10, <2>11, <2>12
<1>4. md = "run" /\ defect = "none" => yes = (h \notin SetOf(index))
  BY <1>3
<1> HIDE DEF m, f, md, L, yes
<1>5. FreeIs(m, index, end, h, f, yes, md, defect, L)
  BY <1>2, <1>3, <1>4 DEF FreeIs
<1>6. md = "run" /\ defect = "none" => h \notin SetOf(index)
  BY <1>3
<1> HIDE DEF h
<1>7. FreeNew(MakeHole(h), L)
  BY <1>1, <1>5, <1>6, FreeNewFrom
<1> QED  BY <1>7 DEF h, L

\* A hole other than the one at g ends at h.
Misnames(m, ix, g, h) ==
  \E i \in 1 .. Len(ix) : ix[i] # g /\ ix[i] + SizeAt(m, ix[i]) = h

\* The footer in front of h names the header of a hole at g.
LeftReads(m, g, h) == m[h - 2] = MAGIC /\ m[h - 1] = g /\ m[g + 1] = 1

\* At g is a hole of the index that ends at h.
EndsAt(m, ix, g, h) ==
  /\ g \in SetOf(ix) /\ g \in Int /\ Start <= g /\ g # h
  /\ m[g + 2] \in Int /\ 5 <= m[g + 2] /\ SizeAt(m, g) = m[g + 2] /\ g + m[g + 2] = h

\* What is in front of a freed hole, if a hole is named there.
LEMMA LeftNeighbour ==
  ASSUME NEW m, NEW ix, NEW e \in Int, NEW h \in Int, NEW L, NEW g \in Int,
         HeapFreeing(m, ix, e, h, L), h \notin SetOf(ix),
         LeftReads(m, g, h), ~Misnames(m, ix, g, h)
  PROVE  EndsAt(m, ix, g, h)
<1> DEFINE Hs == SetOf(ix) \cup {h}
           C == Hs \cup {Hdr(b) : b \in L}
<1>1. Start \in Int
  BY Sizes32
<1>2. Tiles(C, m, Start, e) /\ Layout(Hs, L, m, Start, e) /\ m[Start - 2] # MAGIC
  BY DEF HeapFreeing, Layout
<1>3. Start <= h
  <2>1. h \in SetOf(ix) \cup {h}
    OBVIOUS
  <2> QED  BY <2>1, FreeingFacts
<1>4. h \in C /\ Start < h
  <2>1. h # Start
    BY <1>2 DEF LeftReads
  <2> QED  BY <1>1, <1>3, <2>1
<1>5. PICK c \in C : c < h /\ c + m[c + 2] = h
  <2> HIDE DEF C
  <2>1. ChunkBefore(C, m, h)
    BY <1>1, <1>2, <1>4, PreviousChunk
  <2> QED  BY <2>1 DEF ChunkBefore
<1>6. c \in SetOf(ix)
  <2>1. c # h
    BY <1>5
  <2>2. ASSUME NEW b \in L, c = Hdr(b)  PROVE FALSE
    <3>1. BlockAt(m, b)
      BY <1>2 DEF Layout
    <3>2. m[(c + m[c + 2]) - 1] = c /\ m[c + 1] = 0
      BY <2>2, <3>1 DEF BlockAt
    <3>3. m[h - 1] = c
      BY <1>5, <3>2
    <3> QED  BY <3>2, <3>3 DEF LeftReads
  <2> QED  BY <1>5, <2>1, <2>2
<1>7. /\ c \in Int /\ Start <= c /\ m[c + 2] \in Int /\ 5 <= m[c + 2]
      /\ SizeAt(m, c) = m[c + 2]
  <2>1. c \in SetOf(ix) \cup {h}
    BY <1>6
  <2> QED  BY <2>1, FreeingFacts
<1>8. c = g
  <2>1. PICK i \in 1 .. Len(ix) : c = ix[i]
    BY <1>6 DEF SetOf
  <2>2. ix[i] + SizeAt(m, ix[i]) = h
    BY <1>5, <1>7, <2>1
  <2> QED  BY <2>1, <2>2 DEF Misnames
<1>9. c # h
  BY <1>5
<1> QED  BY <1>5, <1>6, <1>7, <1>8, <1>9 DEF EndsAt

\* What UnifyLeft writes.
LeftJoined(m, f, g, h) ==
  PutSize([m EXCEPT ![U(f + 1)] = g], g, U(SizeAt(m, g) + SizeAt(m, h)))

Joined(m, m2, g, h, n) ==
  /\ m2 \in [Mapped -> Cell] /\ m2[g + 2] = n
  /\ \A a \in Mapped : a # g + 2 /\ a # (g + n) - 1 => m2[a] = m[a]

\* It writes the size of the hole in front, and one word at the end.
LEMMA LeftWords ==
  ASSUME NEW m \in [Mapped -> Cell], NEW f \in Int, NEW g \in Int, NEW h \in Int,
         NEW z \in Int, NEW s \in Int, Start <= g, 5 <= z, 5 <= s, h = g + z,
         h + s <= HeapMax, f + 2 = h + s, SizeAt(m, g) = z, SizeAt(m, h) = s
  PROVE  Joined(m, LeftJoined(m, f, g, h), g, h, z + s)
<1> DEFINE n == z + s
           a1 == f + 1
           m1 == [m EXCEPT ![a1] = g]
           m2 == LeftJoined(m, f, g, h)
<1>1. Start \in Int /\ Start > 5 /\ HeapMax \in Int
  BY Sizes32
<1>2. a1 \in Int /\ n \in Int
  OBVIOUS
<1>3. 0 <= a1 /\ a1 < HeapMax /\ a1 = (g + n) - 1
  BY <1>1
<1>4. 0 <= n /\ n <= HeapMax /\ 0 <= g /\ g + 2 < HeapMax
  BY <1>1
<1>5. U(f + 1) = a1 /\ U(SizeAt(m, g) + SizeAt(m, h)) = n
  <2>1. SizeAt(m, g) + SizeAt(m, h) = n /\ a1 <= HeapMax
    BY <1>1, <1>2, <1>3
  <2>2. U(a1) = a1 /\ U(n) = n
    <3> HIDE DEF a1, n
    <3> QED  BY <1>2, <1>3, <1>4, <2>1, Small
  <2> QED  BY <2>1, <2>2
<1> HIDE DEF a1, n
<1>6. m2 = PutSize(m1, g, n)
  BY <1>5 DEF LeftJoined
<1> HIDE DEF m2
<1>7. g \in Cell /\ n \in Cell /\ a1 \in Mapped
  BY <1>1, <1>2, <1>3, <1>4, Sizes32 DEF Cell, Mapped
<1>8. m1 \in [Mapped -> Cell] /\ \A a \in Mapped : a # a1 => m1[a] = m[a]
  BY <1>7
<1> HIDE DEF m1
<1>9. /\ m2 \in [Mapped -> Cell] /\ m2[g + 2] = n
      /\ \A a \in Mapped : a # g + 2 => m2[a] = m1[a]
  BY <1>4, <1>6, <1>7, <1>8, SizePut
<1>10. \A a \in Mapped : a # g + 2 /\ a # (g + n) - 1 => m2[a] = m[a]
  BY <1>3, <1>8, <1>9
<1>11. Joined(m, m2, g, h, n)
  BY <1>9, <1>10 DEF Joined
<1> QED  BY <1>11 DEF m2, n

\* The freed hole joins the one in front.
LeftTaken(m2, ix, e, g, f, L) ==
  HeapFreeing(m2, ix, e, g, L) /\ g \in SetOf(ix) /\ f + 2 = g + m2[g + 2]

\* The hole in front takes the freed one over.
LEMMA LeftMerged ==
  ASSUME NEW m, NEW ix, NEW e \in Int, NEW h \in Int, NEW f \in Int, NEW L, NEW g \in Int,
         HeapFreeing(m, ix, e, h, L), h \notin SetOf(ix), f + 2 = h + m[h + 2],
         LeftReads(m, g, h), ~Misnames(m, ix, g, h)
  PROVE  LeftTaken(LeftJoined(m, f, g, h), ix, e, g, f, L)
<1> DEFINE Hs == SetOf(ix) \cup {h}
           s == m[h + 2]
           z == m[g + 2]
           m2 == LeftJoined(m, f, g, h)
<1>1. EndsAt(m, ix, g, h)
  BY LeftNeighbour
<1>2. g \in SetOf(ix) /\ Start <= g /\ g # h /\ z \in Int /\ 5 <= z /\ SizeAt(m, g) = z /\ g + z = h
  BY <1>1 DEF EndsAt
<1>3. /\ s \in Int /\ 5 <= s /\ h + s <= e /\ SizeAt(m, h) = s
      /\ e <= HeapMax /\ m \in [Mapped -> Cell] /\ ix \in Seq(Int)
  <2>1. h \in SetOf(ix) \cup {h}
    OBVIOUS
  <2> QED  BY <2>1, FreeingFacts
<1>4. /\ m[Start - 2] # MAGIC /\ Start + MinSize <= e /\ e \in {Page * k : k \in 1 .. HeapMax}
      /\ Clients(L) /\ Once(ix) /\ Layout(Hs, L, m, Start, e)
  BY DEF HeapFreeing
<1>5. Start \in Int /\ Start > 5 /\ HeapMax \in Int
  BY Sizes32
<1>6. f + 2 = h + s
  OBVIOUS
<1> HIDE DEF s, z, m2
<1>7. Joined(m, m2, g, h, z + s)
  <2>1. h = g + z
    BY <1>2
  <2>2. h + s <= HeapMax
    BY <1>3, <1>5
  <2> QED  BY <1>2, <1>3, <1>6, <2>1, <2>2, LeftWords DEF m2
<1>8. /\ m2 \in [Mapped -> Cell] /\ m2[g + 2] = z + s
      /\ \A a \in Mapped : a # g + 2 /\ a # (g + (z + s)) - 1 => m2[a] = m[a]
  BY <1>7 DEF Joined
<1>9. ASSUME NEW a \in Start .. e - 1, a # g + 2, ~(h <= a /\ a < h + s)
      PROVE  m2[a] = m[a]
  <2>1. a \in Mapped
    BY <1>3, <1>5 DEF Mapped
  <2>2. a # (g + (z + s)) - 1
    BY <1>2, <1>3, <1>9
  <2> QED  BY <1>8, <1>9, <2>1, <2>2
<1>10. Layout(Hs \ {h}, L, m2, Start, e)
  <2>1. \A a \in Start .. e - 1 : a # g + 2 /\ ~(h <= a /\ a < h + m[h + 2]) => m2[a] = m[a]
    BY <1>9 DEF s
  <2>2. g \in Hs /\ h \in Hs
    BY <1>2
  <2>3. g + m[g + 2] = h /\ m2[g + 2] = m[g + 2] + m[h + 2]
    BY <1>2, <1>8 DEF z, s
  <2> HIDE DEF Hs
  <2> QED  BY <1>4, <2>1, <2>2, <2>3, MergeHoles
<1>11. Hs \ {h} = SetOf(ix) \cup {g}
  BY <1>2
<1>12. m2[Start - 2] = m[Start - 2]
  <2>1. Start - 2 \in Mapped /\ Start - 2 # g + 2 /\ Start - 2 # (g + (z + s)) - 1
    BY <1>2, <1>3, <1>5 DEF Mapped
  <2> QED  BY <1>8, <2>1
<1>13. HeapFreeing(m2, ix, e, g, L)
  BY <1>3, <1>4, <1>8, <1>10, <1>11, <1>12 DEF HeapFreeing
<1>14. f + 2 = g + m2[g + 2]
  BY <1>2, <1>3, <1>6, <1>8
<1> QED  BY <1>2, <1>13, <1>14 DEF m2, LeftTaken

\* What UnifyLeft reads when it joins the hole at h to the one at g.
LeftRead(m, g, h) ==
  LET left == U(h - F)
  IN /\ left \in Mapped /\ IsMagic(m, left)
     /\ g = Word(m, U(left + 1)) /\ g \in Mapped
     /\ U(g + 1) \in Mapped /\ Word(m, U(g + 1)) = 1

\* UnifyLeft leaves the state alone, stops the kernel, or joins two holes.
LeftOutcome(m, ix, e, h, f, test, add, md, df, t) ==
  \/ t = Freeing(m, ix, e, h, f, test, add, md, df)
  \/ \E w \in {"panic", "undefined"} : t = Freeing(m, ix, e, h, f, test, add, w, df)
  \/ \E g, no : /\ LeftRead(m, g, h) /\ no = FALSE
                /\ t = Freeing(LeftJoined(m, f, g, h), ix, e, g, f, test, no, md,
                               First(df, Misnames(m, ix, g, h), "footer"))

\* It does so.
LEMMA UnifyLeftIs ==
  ASSUME NEW m, NEW ix, NEW e, NEW h, NEW f, NEW test, NEW add, NEW md, NEW df
  PROVE  LeftOutcome(m, ix, e, h, f, test, add, md, df,
                     UnifyLeft(Freeing(m, ix, e, h, f, test, add, md, df)))
<1> DEFINE t == Freeing(m, ix, e, h, f, test, add, md, df)
           left == U(h - F)
           g == Word(m, U(left + 1))
           hole == Word(m, U(g + 1))
           d2 == First(df, Misnames(m, ix, g, h), "footer")
           m2 == LeftJoined(m, f, g, h)
           no == FALSE
           stay == md # "run" \/ (left \in Mapped /\ ~IsMagic(m, left))
           data == g = DATA \/ hole = DATA
           fault == \/ ~({left, U(left + 1), g, U(g + 1)} \subseteq Mapped)
                    \/ hole = 1 /\ U(g + 2) \notin Mapped
<1>1. /\ t.mem = m /\ t.index = ix /\ t.end = e /\ t.header = h /\ t.footer = f
      /\ t.test = test /\ t.add = add /\ t.mode = md /\ t.defect = df
  BY DEF Freeing
<1>2. Misnamed(t, g) = Misnames(m, ix, g, h)
  <2> HIDE DEF t, g
  <2> QED  BY <1>1 DEF Misnamed, Misnames
<1> HIDE DEF t
<1>3. UnifyLeft(t) =
        IF stay THEN t
        ELSE IF data THEN [t EXCEPT !.mode = "undefined"]
        ELSE IF fault THEN [t EXCEPT !.mode = "panic"]
        ELSE IF hole = 1
        THEN [t EXCEPT !.header = g, !.add = no, !.mem = m2, !.defect = d2]
        ELSE t
  <2>1. m2 = PutSize([m EXCEPT ![U(f + 1)] = g], g, U(SizeAt(m, g) + SizeAt(m, h)))
    BY DEF LeftJoined
  <2> HIDE DEF m2
  <2> QED  BY <1>1, <1>2, <2>1 DEF UnifyLeft
<1> DEFINE w1 == Freeing(m, ix, e, h, f, test, add, "undefined", df)
           w2 == Freeing(m, ix, e, h, f, test, add, "panic", df)
           w3 == Freeing(m2, ix, e, g, f, test, no, md, d2)
<1>4. [t EXCEPT !.mode = "undefined"] = w1 /\ [t EXCEPT !.mode = "panic"] = w2
  BY DEF t, Freeing
<1>5. [t EXCEPT !.header = g, !.add = no, !.mem = m2, !.defect = d2] = w3
  <2> DEFINE t1 == Freeing(m, ix, e, g, f, test, add, md, df)
             t2 == Freeing(m, ix, e, g, f, test, no, md, df)
             t3 == Freeing(m2, ix, e, g, f, test, no, md, df)
  <2> HIDE DEF g, m2, d2, no
  <2>1. [t EXCEPT !.header = g] = t1
    BY DEF t, Freeing
  <2>2. [t1 EXCEPT !.add = no] = t2
    BY DEF Freeing
  <2>3. [t2 EXCEPT !.mem = m2] = t3
    BY DEF Freeing
  <2>4. [t3 EXCEPT !.defect = d2] = w3
    BY DEF Freeing
  <2> HIDE DEF t1, t2, t3, w3
  <2> QED  BY <2>1, <2>2, <2>3, <2>4
<1>6. ASSUME ~stay, ~data, ~fault, hole = 1
      PROVE  LeftRead(m, g, h)
  <2>1. left \in Mapped /\ g \in Mapped /\ U(g + 1) \in Mapped
    BY <1>6
  <2>2. IsMagic(m, left)
    BY <1>6, <2>1
  <2> QED  BY <1>6, <2>1, <2>2 DEF LeftRead
<1> DEFINE r == UnifyLeft(t)
<1>7. r = t \/ r = w1 \/ r = w2 \/ (r = w3 /\ LeftRead(m, g, h))
  <2> HIDE DEF stay, data, fault, hole, g, m2, d2, w1, w2, w3, no
  <2> QED  BY <1>3, <1>4, <1>5, <1>6
<1>9. no = FALSE
  OBVIOUS
<1> HIDE DEF r, hole, no
<1>8. LeftOutcome(m, ix, e, h, f, test, add, md, df, r)
  <2>1. CASE r = t
    BY <2>1 DEF LeftOutcome, t
  <2>2. CASE r = w1 \/ r = w2
    BY <2>2 DEF LeftOutcome
  <2>3. CASE r = w3 /\ LeftRead(m, g, h)
    <3> HIDE DEF g
    <3> QED  BY <1>9, <2>3, Zenon DEF LeftOutcome
  <2> QED  BY <1>7, <2>1, <2>2, <2>3
<1> QED  BY <1>8 DEF r, t

\* In a heap, it reads the footer in front.
LEMMA LeftReadIs ==
  ASSUME NEW m \in [Mapped -> Cell], NEW g, NEW h \in Int, Start <= h, h <= HeapMax,
         LeftRead(m, g, h)
  PROVE  g \in Int /\ LeftReads(m, g, h)
<1> DEFINE left == h - 2
<1>1. Start \in Int /\ Start > 5 /\ HeapMax \in Int
  BY Sizes32
<1>2. left \in Int /\ 0 <= left /\ left + 1 < HeapMax /\ left + 1 = h - 1
  BY <1>1
<1>3. U(h - F) = left
  <2>1. h - F = left /\ left <= HeapMax
    BY <1>1, <1>2 DEF F
  <2> HIDE DEF left
  <2> QED  BY <1>2, <2>1, Small
<1> HIDE DEF left
<1>4. U(left + 1) = left + 1 /\ left + 1 \in Mapped /\ left \in Mapped
  <2>1. left + 1 \in Int /\ 0 <= left + 1 /\ left + 1 <= HeapMax
    BY <1>1, <1>2
  <2> QED  BY <1>1, <1>2, <2>1, Small DEF Mapped
<1>5. /\ IsMagic(m, left) /\ g = Word(m, left + 1) /\ g \in Mapped
      /\ U(g + 1) \in Mapped /\ Word(m, U(g + 1)) = 1
  BY <1>3, <1>4 DEF LeftRead
<1>6. m[left] = MAGIC /\ g = m[left + 1]
  BY <1>4, <1>5 DEF IsMagic, Word
<1>7. g \in Int /\ U(g + 1) = g + 1
  <2>1. g \in Int /\ g + 1 \in Int /\ 0 <= g + 1 /\ g + 1 <= HeapMax
    BY <1>1, <1>5 DEF Mapped
  <2> QED  BY <2>1, Small
<1>8. m[g + 1] = 1
  BY <1>5, <1>7 DEF Word
<1>9. m[h - 2] = MAGIC /\ m[h - 1] = g
  BY <1>2, <1>6 DEF left
<1> QED  BY <1>7, <1>8, <1>9 DEF LeftReads

\* After UnifyLeft the heap is as before, or two holes are one.
LEMMA LeftUnified ==
  ASSUME NEW t, NEW L, FreeNew(t, L)
  PROVE  FreeAt(UnifyLeft(t), L)
<1>1. PICK m, ix, e, h, f, test, add, md, df :
        /\ t = Freeing(m, ix, e, h, f, test, add, md, df)
        /\ FreeIs(m, ix, e, h, f, add, md, df, L)
        /\ md = "run" /\ df = "none" => h \notin SetOf(ix)
  BY DEF FreeNew
<1>8. FreeIs(m, ix, e, h, f, add, md, df, L)
  BY <1>1
<1> DEFINE r == UnifyLeft(t)
<1>2. LeftOutcome(m, ix, e, h, f, test, add, md, df, r)
  BY <1>1, UnifyLeftIs
<1>3. md \in Modes /\ df \in Defects \cup {"none"}
  BY <1>1 DEF FreeIs
<1> SUFFICES FreeAt(r, L)
  OBVIOUS
<1> HIDE DEF r
<1>4. CASE r = Freeing(m, ix, e, h, f, test, add, md, df)
  <2>1. FreeAt(Freeing(m, ix, e, h, f, test, add, md, df), L)
    BY <1>8, FreeAtFrom
  <2> QED  BY <1>4, <2>1
<1>5. CASE \E w \in {"panic", "undefined"} : r = Freeing(m, ix, e, h, f, test, add, w, df)
  <2>1. PICK w \in {"panic", "undefined"} : r = Freeing(m, ix, e, h, f, test, add, w, df)
    BY <1>5
  <2>2. FreeIs(m, ix, e, h, f, add, w, df, L)
    BY <1>3 DEF FreeIs, Modes
  <2>3. FreeAt(Freeing(m, ix, e, h, f, test, add, w, df), L)
    BY <2>2, FreeAtFrom
  <2> QED  BY <2>1, <2>3
<1>6. ASSUME NEW g, NEW no, LeftRead(m, g, h), no = FALSE,
             r = Freeing(LeftJoined(m, f, g, h), ix, e, g, f, test, no, md,
                         First(df, Misnames(m, ix, g, h), "footer"))
      PROVE  FreeAt(r, L)
  <2> DEFINE d2 == First(df, Misnames(m, ix, g, h), "footer")
             m2 == LeftJoined(m, f, g, h)
  <2>1. d2 \in Defects \cup {"none"} /\ (d2 = "none" => df = "none" /\ ~Misnames(m, ix, g, h))
    <3>1. "footer" \in Defects /\ Misnames(m, ix, g, h) \in BOOLEAN
      BY DEF Defects, Misnames
    <3> QED  BY <1>3, <3>1, Firsts
  <2> HIDE DEF d2
  <2>2. ASSUME md = "run", d2 = "none"
        PROVE  LeftTaken(m2, ix, e, g, f, L) /\ f \in Int
    <3>1. df = "none" /\ ~Misnames(m, ix, g, h)
      BY <2>1, <2>2
    <3>2. HeapFreeing(m, ix, e, h, L) /\ h \notin SetOf(ix) /\ f \in Int /\ f + 2 = h + m[h + 2]
      BY <1>1, <2>2, <3>1 DEF FreeIs
    <3>3. /\ h \in Int /\ Start <= h /\ m[h + 2] \in Int /\ 5 <= m[h + 2] /\ h + m[h + 2] <= e
          /\ e \in Int /\ e <= HeapMax /\ m \in [Mapped -> Cell]
      <4>1. h \in SetOf(ix) \cup {h}
        OBVIOUS
      <4> QED  BY <3>2, <4>1, FreeingFacts
    <3>4. h <= HeapMax
      BY <3>3, Sizes32
    <3>5. g \in Int /\ LeftReads(m, g, h)
      BY <1>6, <3>3, <3>4, LeftReadIs
    <3>6. LeftTaken(LeftJoined(m, f, g, h), ix, e, g, f, L)
      BY <3>1, <3>2, <3>3, <3>5, LeftMerged
    <3> QED  BY <3>2, <3>6
  <2> HIDE DEF m2
  <2>3. FreeIs(m2, ix, e, g, f, no, md, d2, L)
    <3>1. ASSUME md = "run", d2 = "none"
          PROVE  /\ HeapFreeing(m2, ix, e, g, L) /\ g \in SetOf(ix)
                 /\ f \in Int /\ f + 2 = g + m2[g + 2]
      BY <2>2, <3>1 DEF LeftTaken
    <3>2. md = "run" /\ d2 = "none" => no = (g \notin SetOf(ix))
      BY <1>6, <3>1
    <3> QED  BY <1>3, <2>1, <3>1, <3>2 DEF FreeIs
  <2>4. r = Freeing(m2, ix, e, g, f, test, no, md, d2)
    BY <1>6 DEF m2, d2
  <2> QED  BY <2>3, <2>4, FreeAtFrom
<1>7. QED
  <2>1. \/ r = Freeing(m, ix, e, h, f, test, add, md, df)
        \/ \E w \in {"panic", "undefined"} : r = Freeing(m, ix, e, h, f, test, add, w, df)
        \/ \E g, no : /\ LeftRead(m, g, h) /\ no = FALSE
                      /\ r = Freeing(LeftJoined(m, f, g, h), ix, e, g, f, test, no, md,
                                     First(df, Misnames(m, ix, g, h), "footer"))
    BY <1>2 DEF LeftOutcome
  <2> QED  BY <1>4, <1>5, <1>6, <2>1

\* What UnifyRight writes.
RightJoined(m, h, y) == PutSize(m, h, U(SizeAt(m, h) + SizeAt(m, y)))

\* UnifyRight leaves the state alone but for what it tested, stops the kernel,
\* or joins two holes, the right one an item of the index.
RightOutcome(m, ix, e, h, f, test, add, md, df, t) ==
  \/ \E x : t = Freeing(m, ix, e, h, f, x, add, md, df)
  \/ \E m2, f2, x : t = Freeing(m2, ix, e, h, f2, x, add, "panic", df)
  \/ LET y == U(f + F)
         i == IndexOf(y, ix)
     IN i # 0 /\ t = Freeing(RightJoined(m, h, y), remove_ordered_array(i, ix), e, h,
                             FooterOf(m, y), y, add, md, df)

\* It does so.
LEMMA UnifyRightIs ==
  ASSUME NEW m, NEW ix, NEW e, NEW h, NEW f, NEW test, NEW add, NEW md, NEW df
  PROVE  RightOutcome(m, ix, e, h, f, test, add, md, df,
                      UnifyRight(Freeing(m, ix, e, h, f, test, add, md, df)))
<1> DEFINE t == Freeing(m, ix, e, h, f, test, add, md, df)
           r == UnifyRight(t)
           y == U(f + F)
           i == IndexOf(y, ix)
           fault == \/ y \notin Mapped
                    \/ IsMagic(m, y) /\ U(y + 1) \notin Mapped
                    \/ IsMagic(m, y) /\ IsHole(m, y) /\ U(y + 2) \notin Mapped
           hole == IsMagic(m, y) /\ IsHole(m, y)
           m2 == RightJoined(m, h, y)
           f2 == FooterOf(m, y)
           ix2 == IF i # 0 THEN remove_ordered_array(i, ix) ELSE ix
           md2 == IF i # 0 THEN md ELSE "panic"
           w1 == Freeing(m, ix, e, h, f, test, add, "panic", df)
           w2 == Freeing(m2, ix2, e, h, f2, y, add, md2, df)
           w3 == Freeing(m, ix, e, h, f, y, add, md, df)
<1> SUFFICES RightOutcome(m, ix, e, h, f, test, add, md, df, r)
  OBVIOUS
<1>1. /\ t.mem = m /\ t.index = ix /\ t.header = h /\ t.footer = f /\ t.mode = md
  BY DEF Freeing
<1>2. [t EXCEPT !.mode = "panic"] = w1 /\ [t EXCEPT !.test = y] = w3
  <2> HIDE DEF y
  <2> QED  BY DEF Freeing
<1>3. [t EXCEPT !.mem = m2, !.footer = f2, !.test = y, !.index = ix2, !.mode = md2] = w2
  <2> DEFINE t1 == Freeing(m2, ix, e, h, f, test, add, md, df)
             t2 == Freeing(m2, ix, e, h, f2, test, add, md, df)
             t3 == Freeing(m2, ix, e, h, f2, y, add, md, df)
             t4 == Freeing(m2, ix2, e, h, f2, y, add, md, df)
  <2> HIDE DEF m2, f2, y, ix2, md2
  <2>1. [t EXCEPT !.mem = m2] = t1
    BY DEF Freeing
  <2>2. [t1 EXCEPT !.footer = f2] = t2
    BY DEF Freeing
  <2>3. [t2 EXCEPT !.test = y] = t3
    BY DEF Freeing
  <2>4. [t3 EXCEPT !.index = ix2] = t4
    BY DEF Freeing
  <2>5. [t4 EXCEPT !.mode = md2] = w2
    BY DEF Freeing
  <2> HIDE DEF t, t1, t2, t3, t4, w2
  <2> QED  BY <2>1, <2>2, <2>3, <2>4, <2>5
<1> HIDE DEF t
<1>4. r = IF md # "run" THEN t
          ELSE IF fault THEN [t EXCEPT !.mode = "panic"]
          ELSE IF hole
          THEN [t EXCEPT !.mem = m2, !.footer = f2, !.test = y, !.index = ix2, !.mode = md2]
          ELSE [t EXCEPT !.test = y]
  <2>1. m2 = PutSize(m, h, U(SizeAt(m, h) + SizeAt(m, y)))
    BY DEF RightJoined
  <2> HIDE DEF m2
  <2> QED  BY <1>1, <2>1 DEF UnifyRight
<1>5. r = t \/ r = w1 \/ r = w2 \/ r = w3
  <2> HIDE DEF r, fault, hole, m2, f2, y, ix2, md2, w1, w2, w3
  <2> QED  BY <1>2, <1>3, <1>4
<1> HIDE DEF r
<1>6. CASE r = t \/ r = w3
  <2> HIDE DEF y
  <2>1. \E x : r = Freeing(m, ix, e, h, f, x, add, md, df)
    BY <1>6 DEF t
  <2> QED  BY <2>1 DEF RightOutcome
<1>7. CASE r = w1
  <2>1. \E m3, f3, x : r = Freeing(m3, ix, e, h, f3, x, add, "panic", df)
    BY <1>7
  <2> QED  BY <2>1 DEF RightOutcome
<1>8. CASE r = w2
  <2>1. CASE i = 0
    <3>1. ix2 = ix /\ md2 = "panic"
      BY <2>1
    <3> HIDE DEF m2, f2, y, ix2, md2
    <3>2. \E m3, f3, x : r = Freeing(m3, ix, e, h, f3, x, add, "panic", df)
      BY <1>8, <3>1
    <3> QED  BY <3>2 DEF RightOutcome
  <2>2. CASE i # 0
    <3>1. ix2 = remove_ordered_array(i, ix) /\ md2 = md
      BY <2>2
    <3> HIDE DEF ix2, md2
    <3>2. r = Freeing(RightJoined(m, h, y), remove_ordered_array(i, ix), e, h,
                      FooterOf(m, y), y, add, md, df)
      BY <1>8, <3>1
    <3> QED  BY <2>2, <3>2 DEF RightOutcome
  <2> QED  BY <2>1, <2>2
<1> QED  BY <1>5, <1>6, <1>7, <1>8

\* Two holes are one.
RightTaken(m2, ix2, e, h, f2, L) ==
  HeapFreeing(m2, ix2, e, h, L) /\ f2 \in Int /\ f2 + 2 = h + m2[h + 2]

\* The freed hole takes the one behind over.
LEMMA RightMerged ==
  ASSUME NEW m, NEW ix, NEW e \in Int, NEW h \in Int, NEW L, NEW y \in Int, NEW i,
         HeapFreeing(m, ix, e, h, L), y = h + m[h + 2],
         i = IndexOf(y, ix), i # 0
  PROVE  /\ RightTaken(RightJoined(m, h, y), remove_ordered_array(i, ix), e, h,
                       FooterOf(m, y), L)
         /\ (h \in SetOf(remove_ordered_array(i, ix))) <=> (h \in SetOf(ix))
<1> DEFINE Hs == SetOf(ix) \cup {h}
           s == m[h + 2]
           z == m[y + 2]
           n == s + z
           m2 == RightJoined(m, h, y)
           ix2 == remove_ordered_array(i, ix)
           f2 == FooterOf(m, y)
<1>1. ix \in Seq(Int) /\ Once(ix)
  BY DEF HeapFreeing
<1>2. y \in SetOf(ix) /\ i \in 1 .. Len(ix) /\ ix[i] = y
  BY <1>1, FindItem
<1>3. ix2 \in Seq(Int) /\ SetOf(ix2) = SetOf(ix) \ {y} /\ Once(ix2)
  BY <1>1, <1>2, RemoveSet
<1> HIDE DEF ix2
<1>4. /\ s \in Int /\ 5 <= s /\ h + s <= e /\ SizeAt(m, h) = s /\ Start <= h
      /\ e <= HeapMax /\ m \in [Mapped -> Cell]
  <2>1. h \in SetOf(ix) \cup {h}
    OBVIOUS
  <2> QED  BY <2>1, FreeingFacts
<1>5. z \in Int /\ 5 <= z /\ y + z <= e /\ SizeAt(m, y) = z
  <2>1. y \in SetOf(ix) \cup {h}
    BY <1>2
  <2> QED  BY <2>1, FreeingFacts
<1>6. /\ m[Start - 2] # MAGIC /\ Start + MinSize <= e /\ e \in {Page * k : k \in 1 .. HeapMax}
      /\ Clients(L) /\ Layout(Hs, L, m, Start, e)
  BY DEF HeapFreeing
<1>7. Start \in Int /\ Start > 5 /\ HeapMax \in Int
  BY Sizes32
<1>8. y = h + s
  OBVIOUS
<1> HIDE DEF s, z
<1>9. y # h
  BY <1>4, <1>8
<1>10. n \in Int /\ 0 <= n /\ n <= HeapMax /\ h + n = y + z
  BY <1>4, <1>5, <1>7, <1>8
<1>11. U(SizeAt(m, h) + SizeAt(m, y)) = n
  <2>1. SizeAt(m, h) + SizeAt(m, y) = n
    BY <1>4, <1>5
  <2> HIDE DEF n
  <2> QED  BY <1>10, <2>1, Small
<1>12. f2 \in Int /\ f2 + 2 = h + n
  <2>1. y + SizeAt(m, y) - F = (y + z) - 2
    BY <1>5 DEF F
  <2>2. (y + z) - 2 \in Int /\ 0 <= (y + z) - 2 /\ (y + z) - 2 <= HeapMax
    BY <1>4, <1>5, <1>7, <1>8
  <2>3. f2 = (y + z) - 2
    BY <2>1, <2>2, Small DEF FooterOf
  <2> HIDE DEF f2, n
  <2> QED  BY <1>5, <1>10, <2>3
<1> HIDE DEF f2, n
<1>13. /\ m2 \in [Mapped -> Cell] /\ m2[h + 2] = n
       /\ \A a \in Mapped : a # h + 2 => m2[a] = m[a]
  <2>1. n \in Cell
    BY <1>10, Sizes32 DEF Cell
  <2>2. 0 <= h /\ h + 2 < HeapMax
    BY <1>4, <1>7
  <2>3. m2 = PutSize(m, h, n)
    BY <1>11 DEF RightJoined
  <2> HIDE DEF m2
  <2> QED  BY <1>4, <2>1, <2>2, <2>3, SizePut
<1> HIDE DEF m2
<1>14. Layout(Hs \ {y}, L, m2, Start, e)
  <2>1. \A a \in Start .. e - 1 : a # h + 2 /\ ~(y <= a /\ a < y + m[y + 2]) => m2[a] = m[a]
    <3> SUFFICES ASSUME NEW a \in Start .. e - 1, a # h + 2  PROVE m2[a] = m[a]
      OBVIOUS
    <3>1. a \in Mapped
      BY <1>4, <1>7 DEF Mapped
    <3> QED  BY <1>13, <3>1
  <2>2. h \in Hs /\ y \in Hs
    BY <1>2
  <2>3. h + m[h + 2] = y /\ m2[h + 2] = m[h + 2] + m[y + 2]
    BY <1>8, <1>13 DEF n, s, z
  <2> HIDE DEF Hs
  <2> QED  BY <1>6, <2>1, <2>2, <2>3, MergeHoles
<1>15. Hs \ {y} = SetOf(ix2) \cup {h}
  BY <1>3, <1>9
<1>16. m2[Start - 2] = m[Start - 2]
  <2>1. Start - 2 \in Mapped /\ Start - 2 # h + 2
    BY <1>4, <1>7 DEF Mapped
  <2> QED  BY <1>13, <2>1
<1>17. HeapFreeing(m2, ix2, e, h, L)
  <2>1. Layout(SetOf(ix2) \cup {h}, L, m2, Start, e)
    BY <1>14, <1>15
  <2> QED  BY <1>3, <1>4, <1>6, <1>13, <1>16, <2>1 DEF HeapFreeing
<1>18. RightTaken(m2, ix2, e, h, f2, L)
  BY <1>12, <1>13, <1>17 DEF RightTaken
<1>19. (h \in SetOf(ix2)) <=> (h \in SetOf(ix))
  BY <1>3, <1>9
<1> QED  BY <1>18, <1>19 DEF m2, ix2, f2

\* After UnifyRight the heap is as before, or two holes are one.
LEMMA RightUnified ==
  ASSUME NEW t, NEW L, FreeAt(t, L)
  PROVE  FreeAt(UnifyRight(t), L)
<1>1. PICK m, ix, e, h, f, test, add, md, df :
        /\ t = Freeing(m, ix, e, h, f, test, add, md, df)
        /\ FreeIs(m, ix, e, h, f, add, md, df, L)
  BY DEF FreeAt
<1> DEFINE r == UnifyRight(t)
<1>2. RightOutcome(m, ix, e, h, f, test, add, md, df, r)
  BY <1>1, UnifyRightIs
<1>3. FreeIs(m, ix, e, h, f, add, md, df, L)
  BY <1>1
<1>4. md \in Modes /\ df \in Defects \cup {"none"}
  BY <1>3 DEF FreeIs
<1> SUFFICES FreeAt(r, L)
  OBVIOUS
<1> HIDE DEF r
<1> DEFINE y == U(f + F)
           i == IndexOf(y, ix)
           m2 == RightJoined(m, h, y)
           ix2 == remove_ordered_array(i, ix)
           f2 == FooterOf(m, y)
<1>5. \/ \E x : r = Freeing(m, ix, e, h, f, x, add, md, df)
      \/ \E m3, f3, x : r = Freeing(m3, ix, e, h, f3, x, add, "panic", df)
      \/ i # 0 /\ r = Freeing(m2, ix2, e, h, f2, y, add, md, df)
  BY <1>2 DEF RightOutcome
<1>6. ASSUME NEW x, r = Freeing(m, ix, e, h, f, x, add, md, df)  PROVE FreeAt(r, L)
  <2>1. FreeAt(Freeing(m, ix, e, h, f, x, add, md, df), L)
    BY <1>3, FreeAtFrom
  <2> QED  BY <1>6, <2>1
<1>7. ASSUME NEW m3, NEW f3, NEW x, r = Freeing(m3, ix, e, h, f3, x, add, "panic", df)
      PROVE  FreeAt(r, L)
  <2>1. FreeIs(m3, ix, e, h, f3, add, "panic", df, L)
    BY <1>4 DEF FreeIs, Modes
  <2>2. FreeAt(Freeing(m3, ix, e, h, f3, x, add, "panic", df), L)
    BY <2>1, FreeAtFrom
  <2> QED  BY <1>7, <2>2
<1>8. CASE i # 0 /\ r = Freeing(m2, ix2, e, h, f2, y, add, md, df)
  <2>1. ASSUME md = "run", df = "none"
        PROVE  RightTaken(m2, ix2, e, h, f2, L) /\ add = (h \notin SetOf(ix2))
    <3>1. /\ HeapFreeing(m, ix, e, h, L) /\ add = (h \notin SetOf(ix))
          /\ f \in Int /\ f + 2 = h + m[h + 2]
      BY <1>3, <2>1 DEF FreeIs
    <3>2. /\ h \in Int /\ Start <= h /\ m[h + 2] \in Int /\ 5 <= m[h + 2] /\ h + m[h + 2] <= e
          /\ e \in Int /\ e <= HeapMax
      <4>1. h \in SetOf(ix) \cup {h}
        OBVIOUS
      <4> QED  BY <3>1, <4>1, FreeingFacts
    <3>3. y \in Int /\ y = h + m[h + 2]
      <4>1. f + F = f + 2
        BY <3>1 DEF F
      <4>2. f + 2 \in Int /\ 0 <= f + 2 /\ f + 2 <= HeapMax
        BY <3>1, <3>2, Sizes32
      <4>3. U(f + 2) = f + 2
        BY <4>2, Small
      <4> QED  BY <3>1, <4>1, <4>2, <4>3
    <3> HIDE DEF y
    <3>4. i # 0 /\ i = IndexOf(y, ix)
      BY <1>8
    <3> HIDE DEF i
    <3>5. /\ RightTaken(m2, ix2, e, h, f2, L)
          /\ (h \in SetOf(ix2)) <=> (h \in SetOf(ix))
      BY <3>1, <3>2, <3>3, <3>4, RightMerged
    <3>6. add = (h \notin SetOf(ix2))
      <4> HIDE DEF ix2
      <4> QED  BY <3>1, <3>5
    <3> QED  BY <3>5, <3>6
  <2> HIDE DEF i, y, m2, ix2, f2
  <2>2. FreeIs(m2, ix2, e, h, f2, add, md, df, L)
    BY <1>4, <2>1 DEF FreeIs, RightTaken
  <2>3. FreeAt(Freeing(m2, ix2, e, h, f2, y, add, md, df), L)
    BY <2>2, FreeAtFrom
  <2> QED  BY <1>8, <2>3
<1> QED  BY <1>5, <1>6, <1>7, <1>8

\* With room for the hole's header and footer, contract stops at HEAP_MIN_SIZE.
LEMMA ToMinSize ==
  ASSUME NEW h \in Int, Start <= h, ~(Start + ContractedSize(h - Start) < h + Overhead)
  PROVE  ContractedSize(h - Start) = MinSize
<1> DEFINE size == h - Start
           rounded == IF (size \div Page) % 2 = 1 THEN 2 * Page ELSE size
           new == ContractedSize(size)
<1>1. /\ Start \in Int /\ MinSize \in Int /\ Page \in Int /\ MinSize >= 2 * Page
      /\ 2 * Page \in Int
  BY Sizes32
<1>2. new = IF rounded < MinSize THEN MinSize ELSE rounded
  BY DEF ContractedSize
<1>3. rounded = 2 * Page \/ rounded = size
  OBVIOUS
<1>4. size \in Int /\ Start + size = h
  BY <1>1
<1>5. ~(Start + new < h + 5)
  BY DEF Overhead, H, F
<1> HIDE DEF size, rounded, new
<1>6. CASE rounded < MinSize
  BY <1>2, <1>6 DEF new, size
<1>7. CASE ~(rounded < MinSize) /\ rounded = 2 * Page
  <2> DEFINE p == 2 * Page
  <2>1. p \in Int /\ MinSize >= p /\ rounded = p
    BY <1>1, <1>7
  <2> HIDE DEF p
  <2>2. new = MinSize
    BY <1>1, <1>2, <1>7, <2>1
  <2> QED  BY <2>2 DEF new, size
<1>8. CASE ~(rounded < MinSize) /\ rounded = size
  <2>1. Start + new = h
    BY <1>2, <1>4, <1>8
  <2> QED  BY <1>5, <2>1
<1> QED  BY <1>3, <1>6, <1>7, <1>8

\* A page boundary of the heap.
Paged(e) == e \in {Page * n : n \in 1 .. HeapMax}

\* The pages that contract gives back lie behind the new end.
LEMMA LostBehind ==
  ASSUME NEW e, Paged(e), NEW a \in Unmapped(e - Start, MinSize)
  PROVE  a \in Int /\ a >= Start + MinSize
<1>1. Page \in Int /\ Page > 0 /\ Start \in Int /\ MinSize \in Int /\ a \in Int
  BY Sizes32 DEF Unmapped, Mapped
<1>2. PICK p \in Int : e = Page * p
  BY Sizes32 DEF Paged
<1>3. PICK k \in 1 .. (e - Start) \div Page :
        /\ MinSize < (e - Start) - k * Page
        /\ a \div Page = (Start + (e - Start) - k * Page) \div Page
  BY DEF Unmapped
<1>4. e \in Int
  BY <1>1, <1>2
<1>5. k \in Int /\ p - k \in Int
  BY <1>2, <1>3
<1>6. Start + (e - Start) - k * Page = Page * (p - k)
  <2>1. Page * (p - k) = Page * p - k * Page
    BY <1>1, <1>2, <1>5
  <2>2. k * Page \in Int
    BY <1>1, <1>5
  <2>3. Start + (e - Start) - k * Page = e - k * Page
    BY <1>1, <1>4, <2>2
  <2> QED  BY <1>2, <2>1, <2>3
<1>7. (Page * (p - k)) \div Page = p - k
  BY <1>1, <1>5
<1>8. a \div Page = p - k
  BY <1>3, <1>6, <1>7
<1>9. a >= Page * (a \div Page)
  BY <1>1
<1>10. Page * (p - k) > Start + MinSize
  <2>1. k * Page \in Int
    BY <1>1, <1>5
  <2> QED  BY <1>1, <1>3, <1>4, <1>6, <2>1
<1>11. Page * (p - k) \in Int
  BY <1>1, <1>5
<1> QED  BY <1>1, <1>8, <1>9, <1>10, <1>11

\* What contract leaves of memory, and of the hole.
Kept(m, e, new) == [a \in Mapped |-> IF a \in Unmapped(e - Start, new) THEN 0 ELSE m[a]]
SizeLeft(m, e, h, new) == U(SizeAt(m, h) - ((e - Start) - new))
Shortened(m, e, h, new) ==
  LET size == SizeLeft(m, e, h, new)
  IN PutFooter(PutSize(Kept(m, e, new), h, size), U(h + size - F), h)

\* contract leaves the state alone, meets its own header in a page it gave
\* back, or shortens the hole or removes it.
CutOutcome(m, ix, e, h, f, test, add, md, df, t) ==
  LET new == ContractedSize(h - Start)
      e2 == Start + new
      d2 == First(df, e2 < h + Overhead, "contract")
  IN \/ t = Freeing(m, ix, e, h, f, test, add, md, df)
     \/ t = Freeing(m, ix, e2, h, f, test, add, "undefined", d2)
     \/ /\ U(f + F) = e
        /\ t = Freeing(Shortened(m, e, h, new), ix, e2, h, f, test, add, md, d2)
     \/ /\ U(f + F) = e /\ SizeLeft(m, e, h, new) = 0
        /\ \E m2, ix2 : t = Freeing(m2, ix2, e2, h, f, test, add, md, d2)

\* It does so.
LEMMA ContractIs ==
  ASSUME NEW m, NEW ix, NEW e, NEW h, NEW f, NEW test, NEW add, NEW md, NEW df
  PROVE  CutOutcome(m, ix, e, h, f, test, add, md, df,
                    Contract(Freeing(m, ix, e, h, f, test, add, md, df)))
<1> DEFINE t == Freeing(m, ix, e, h, f, test, add, md, df)
           r == Contract(t)
           new == ContractedSize(h - Start)
           e2 == Start + new
           d2 == First(df, e2 < h + Overhead, "contract")
           lost == Unmapped(e - Start, new)
           size == SizeLeft(m, e, h, new)
           cut == Kept(m, e, new)
           m2 == Shortened(m, e, h, new)
           i == IndexOf(test, ix)
           ix2 == IF i # 0 THEN remove_ordered_array(i, ix) ELSE ix
           s == [t EXCEPT !.end = e2, !.defect = d2]
           s2 == Freeing(m, ix, e2, h, f, test, add, md, d2)
           w1 == Freeing(m, ix, e2, h, f, test, add, "undefined", d2)
           w2 == Freeing(m2, ix, e2, h, f, test, add, md, d2)
           w3 == Freeing(cut, ix2, e2, h, f, test, add, md, d2)
<1> SUFFICES CutOutcome(m, ix, e, h, f, test, add, md, df, r)
  OBVIOUS
<1>1. /\ t.mem = m /\ t.index = ix /\ t.end = e /\ t.header = h /\ t.footer = f
      /\ t.test = test /\ t.mode = md /\ t.defect = df
  BY DEF Freeing
<1>2. s = s2
  <2> DEFINE t1 == Freeing(m, ix, e2, h, f, test, add, md, df)
  <2> HIDE DEF e2, d2
  <2>1. [t EXCEPT !.end = e2] = t1
    BY DEF Freeing
  <2>2. [t1 EXCEPT !.defect = d2] = s2
    BY DEF Freeing
  <2> HIDE DEF t, t1, s2
  <2> QED  BY <2>1, <2>2
<1> HIDE DEF s
<1>3. [s EXCEPT !.mode = "undefined"] = w1 /\ [s EXCEPT !.mem = m2] = w2
  <2> HIDE DEF e2, d2, m2
  <2>1. [s2 EXCEPT !.mode = "undefined"] = w1 /\ [s2 EXCEPT !.mem = m2] = w2
    BY DEF Freeing
  <2> QED  BY <1>2, <2>1
<1>4. [s EXCEPT !.mem = cut, !.index = ix2] = w3
  <2> DEFINE t1 == Freeing(cut, ix, e2, h, f, test, add, md, d2)
  <2> HIDE DEF e2, d2, cut, ix2
  <2>1. [s2 EXCEPT !.mem = cut] = t1
    BY DEF Freeing
  <2>2. [t1 EXCEPT !.index = ix2] = w3
    BY DEF Freeing
  <2> HIDE DEF s2, t1, w3
  <2> QED  BY <1>2, <2>1, <2>2
<1>5. r = IF md # "run" \/ U(f + F) # e THEN t
          ELSE IF h \in lost THEN [s EXCEPT !.mode = "undefined"]
          ELSE IF size # 0 THEN [s EXCEPT !.mem = m2]
          ELSE [s EXCEPT !.mem = cut, !.index = ix2]
  <2>1. m2 = PutFooter(PutSize(cut, h, size), U(h + size - F), h)
    BY DEF Shortened
  <2>2. cut = [a \in Mapped |-> IF a \in lost THEN 0 ELSE m[a]]
    BY DEF Kept
  <2>3. size = U(SizeAt(m, h) - ((e - Start) - new))
    BY DEF SizeLeft
  <2>4. s = [t EXCEPT !.end = e2, !.defect = First(df, e2 < h + Overhead, "contract")]
    BY DEF s
  <2> HIDE DEF t, m2, size, cut, s
  <2> QED  BY <1>1, <2>1, <2>2, <2>3, <2>4 DEF Contract
<1>6. \/ r = t \/ r = w1
      \/ U(f + F) = e /\ (r = w2 \/ (size = 0 /\ r = w3))
  <2> HIDE DEF t, r, lost, size, cut, m2, ix2, w1, w2, w3
  <2> QED  BY <1>3, <1>4, <1>5
<1> HIDE DEF r
<1>7. CASE r = t
  BY <1>7 DEF CutOutcome
<1>8. CASE r = w1
  <2>1. r = Freeing(m, ix, e2, h, f, test, add, "undefined", d2)
    BY <1>8
  <2> QED  BY <2>1 DEF CutOutcome
<1>9. CASE U(f + F) = e /\ r = w2
  <2>1. U(f + F) = e /\ r = Freeing(m2, ix, e2, h, f, test, add, md, d2)
    BY <1>9
  <2> QED  BY <2>1 DEF CutOutcome
<1>10. CASE U(f + F) = e /\ size = 0 /\ r = w3
  <2> HIDE DEF ix2, cut
  <2>1. \E m3, ix3 : r = Freeing(m3, ix3, e2, h, f, test, add, md, d2)
    BY <1>10
  <2> QED  BY <1>10, <2>1 DEF CutOutcome
<1> QED  BY <1>6, <1>7, <1>8, <1>9, <1>10

\* The hole in memory after contract.
CutTo(m, m2, h, e2) ==
  /\ m2 \in [Mapped -> Cell]
  /\ m2[h] = MAGIC /\ m2[h + 1] = 1 /\ m2[h + 2] = e2 - h
  /\ \A a \in Mapped : a < h => m2[a] = m[a]

\* It ends where the heap ends, and nothing in front of it changes.
LEMMA CutWords ==
  ASSUME NEW m \in [Mapped -> Cell], NEW h \in Int, NEW e \in Int, Start <= h,
         Paged(e), Start + MinSize <= e, e <= HeapMax,
         h + 5 <= Start + MinSize, m[h] = MAGIC, m[h + 1] = 1, m[h + 2] = e - h
  PROVE  /\ CutTo(m, Shortened(m, e, h, MinSize), h, Start + MinSize)
         /\ SizeLeft(m, e, h, MinSize) # 0
<1> DEFINE e2 == Start + MinSize
           lost == Unmapped(e - Start, MinSize)
           cut == Kept(m, e, MinSize)
           left == e2 - h
           ma == PutSize(cut, h, left)
           f == e2 - 2
           w == PutFooter(ma, f, h)
<1>1. Start \in Int /\ Start > 5 /\ MinSize \in Int /\ HeapMax \in Int
  BY Sizes32
<1>2. \A a \in Mapped : a < e2 => a \notin lost
  <2> SUFFICES ASSUME NEW a \in lost, a < e2  PROVE FALSE
    OBVIOUS
  <2>1. a \in Int /\ a >= Start + MinSize
    BY LostBehind
  <2> QED  BY <1>1, <2>1
<1>3. /\ e2 \in Int /\ e2 <= HeapMax /\ left \in Int /\ left >= 5 /\ left <= HeapMax
      /\ 0 <= h /\ h + 2 < e2
  BY <1>1
<1>4. h \in Mapped /\ h + 1 \in Mapped /\ h + 2 \in Mapped
  BY <1>1, <1>3 DEF Mapped
<1>5. cut \in [Mapped -> Cell] /\ \A a \in Mapped : a < e2 => cut[a] = m[a]
  <2>1. 0 \in Cell
    BY Sizes32 DEF Cell
  <2>2. cut = [a \in Mapped |-> IF a \in lost THEN 0 ELSE m[a]]
    BY DEF Kept
  <2> HIDE DEF cut, lost
  <2>3. cut \in [Mapped -> Cell]
    BY <2>1, <2>2
  <2> QED  BY <1>2, <2>2, <2>3
<1> HIDE DEF cut
<1>6. cut[h] = MAGIC /\ cut[h + 1] = 1
  <2>1. h < e2 /\ h + 1 < e2
    BY <1>3
  <2> HIDE DEF e2
  <2> QED  BY <1>4, <1>5, <2>1
<1>7. SizeLeft(m, e, h, MinSize) = left
  <2>1. SizeAt(m, h) = e - h
    BY <1>1, <1>3, Reads
  <2>2. (e - h) - ((e - Start) - MinSize) = left
    BY <1>1
  <2> HIDE DEF left
  <2> QED  BY <1>3, <2>1, <2>2, Small DEF SizeLeft
<1>8. U(h + left - F) = f
  <2>1. h + left - F = f /\ f \in Int /\ 0 <= f /\ f <= HeapMax
    BY <1>1, <1>3 DEF F
  <2> HIDE DEF f, left
  <2> QED  BY <2>1, Small
<1>9. Shortened(m, e, h, MinSize) = w
  <2> HIDE DEF left, f
  <2> QED  BY <1>7, <1>8 DEF Shortened, cut
<1>10. left \in Cell /\ h \in Cell
  BY <1>1, <1>3, Sizes32 DEF Cell
<1>11. 0 <= h /\ h + 2 < HeapMax /\ f \in Int /\ 0 <= f /\ f + 1 < HeapMax /\ f > h + 2
  BY <1>1, <1>3
<1> HIDE DEF left, f
<1>12. /\ ma \in [Mapped -> Cell] /\ ma[h + 2] = left
       /\ \A a \in Mapped : a # h + 2 => ma[a] = cut[a]
  BY <1>5, <1>10, <1>11, SizePut
<1> HIDE DEF ma
<1>13. /\ w \in [Mapped -> Cell]
       /\ \A a \in Mapped : a \notin f .. f + 1 => w[a] = ma[a]
  BY <1>10, <1>11, <1>12, FooterPut
<1> HIDE DEF w
<1>14. \A a \in Mapped : a <= h + 2 => w[a] = ma[a]
  <2> SUFFICES ASSUME NEW a \in Mapped, a <= h + 2  PROVE w[a] = ma[a]
    OBVIOUS
  <2>1. a \in Int
    BY <1>1 DEF Mapped
  <2>2. a \notin f .. f + 1
    BY <1>11, <2>1
  <2> QED  BY <1>13, <2>2
<1>15. w[h] = MAGIC /\ w[h + 1] = 1 /\ w[h + 2] = left
  <2>1. h <= h + 2 /\ h + 1 <= h + 2 /\ h + 2 <= h + 2 /\ h # h + 2 /\ h + 1 # h + 2
    OBVIOUS
  <2>2. w[h] = ma[h] /\ w[h + 1] = ma[h + 1] /\ w[h + 2] = ma[h + 2]
    BY <1>4, <1>14, <2>1
  <2>3. ma[h] = cut[h] /\ ma[h + 1] = cut[h + 1]
    BY <1>4, <1>12, <2>1
  <2> QED  BY <1>6, <1>12, <2>2, <2>3
<1>16. ASSUME NEW a \in Mapped, a < h  PROVE w[a] = m[a]
  <2>1. a \in Int
    BY <1>1 DEF Mapped
  <2>2. a <= h + 2 /\ a # h + 2 /\ a < e2
    BY <1>3, <1>16, <2>1
  <2> HIDE DEF e2
  <2> QED  BY <1>5, <1>12, <1>14, <2>2
<1>17. CutTo(m, w, h, e2)
  BY <1>13, <1>15, <1>16 DEF CutTo, left
<1>18. left # 0
  BY <1>3
<1> QED  BY <1>7, <1>9, <1>17, <1>18

\* contract shortens the hole at the end.
LEMMA EndCut ==
  ASSUME NEW m, NEW ix, NEW e \in Int, NEW h \in Int, NEW L, HeapFreeing(m, ix, e, h, L),
         h + m[h + 2] = e, h + 5 <= Start + MinSize
  PROVE  /\ HeapFreeing(Shortened(m, e, h, MinSize), ix, Start + MinSize, h, L)
         /\ SizeLeft(m, e, h, MinSize) # 0
<1> DEFINE Hs == SetOf(ix) \cup {h}
           e2 == Start + MinSize
           m2 == Shortened(m, e, h, MinSize)
<1>1. /\ h \in Int /\ Start <= h /\ m[h + 2] \in Int /\ m[h] = MAGIC /\ m[h + 1] = 1
      /\ e <= HeapMax /\ m \in [Mapped -> Cell] /\ ix \in Seq(Int)
  <2>1. h \in SetOf(ix) \cup {h} /\ HeapFreeing(m, ix, e, h, L)
    OBVIOUS
  <2> QED  BY ONLY <2>1, FreeingFacts
<1>2. /\ m[Start - 2] # MAGIC /\ Start + MinSize <= e /\ Once(ix) /\ Clients(L)
      /\ Layout(Hs, L, m, Start, e)
  BY DEF HeapFreeing
<1>3. Paged(e)
  BY DEF HeapFreeing, Paged
<1>4. Start \in Int /\ Start > 5 /\ HeapMax \in Int /\ MinSize \in Int
  BY Sizes32
<1>5. m[h + 2] = e - h
  BY <1>1
<1>6. CutTo(m, m2, h, e2) /\ SizeLeft(m, e, h, MinSize) # 0
  BY <1>1, <1>2, <1>3, <1>5, CutWords
<1>7. /\ m2 \in [Mapped -> Cell]
      /\ m2[h] = MAGIC /\ m2[h + 1] = 1 /\ m2[h + 2] = e2 - h
      /\ \A a \in Mapped : a < h => m2[a] = m[a]
  BY <1>6 DEF CutTo
<1>8. e2 \in Int /\ e2 <= HeapMax /\ e2 <= e /\ h <= e2
  BY <1>2, <1>4, Sizes32
<1>9. e2 \in {Page * n : n \in 1 .. HeapMax}
  <2>1. PICK n \in 1 .. HeapMax : MinSize = Page * n
    BY HeapAssumption
  <2>2. Page \in Int /\ n \in Int /\ n >= 1 /\ Page * n = n * Page
    BY Sizes32
  <2>3. e2 = Start + n * Page
    BY <2>1, <2>2
  <2>4. Start + n * Page <= HeapMax
    BY <1>8, <2>3
  <2> HIDE DEF e2
  <2> QED  BY <2>2, <2>3, <2>4, WholePages
<1> HIDE DEF m2
<1>10. Layout({h}, {}, m2, h, e2)
  <2> DEFINE s == e2 - h
  <2>1. s \in Int /\ 5 <= s /\ h + s = e2 /\ m2[h + 2] = s
    BY <1>4, <1>7
  <2>2. HoleAt(m2, h)
    BY <1>7 DEF HoleAt
  <2> HIDE DEF s, e2
  <2> QED  BY <2>1, <2>2, LayoutHole
<1> HIDE DEF e2
<1>11. Layout((Hs \ {h}) \cup {h}, L \cup {}, m2, Start, e2)
  <2>1. \A a \in Start .. h - 1 : m2[a] = m[a]
    <3> SUFFICES ASSUME NEW a \in Start .. h - 1  PROVE m2[a] = m[a]
      OBVIOUS
    <3>1. a \in Mapped /\ a < h
      BY <1>1, <1>4, <1>8 DEF Mapped
    <3> QED  BY <1>7, <3>1
  <2>2. h \in Hs
    OBVIOUS
  <2> HIDE DEF Hs
  <2> QED  BY <1>2, <1>8, <1>10, <2>1, <2>2, ReplaceHole
<1>12. (Hs \ {h}) \cup {h} = Hs /\ L \cup {} = L
  OBVIOUS
<1>13. m2[Start - 2] = m[Start - 2]
  <2>1. Start - 2 \in Mapped /\ Start - 2 < h
    BY <1>1, <1>4, Sizes32 DEF Mapped
  <2> QED  BY <1>7, <2>1
<1>14. Layout(Hs, L, m2, Start, e2)
  BY <1>11, <1>12
<1>15. HeapFreeing(m2, ix, e2, h, L)
  <2>1. Start + MinSize <= e2
    BY <1>4 DEF e2
  <2> QED  BY <1>1, <1>2, <1>7, <1>8, <1>9, <1>13, <1>14, <2>1 DEF HeapFreeing
<1> QED  BY <1>6, <1>15 DEF m2, e2

\* After contract the heap is as before, or ends earlier.
LEMMA Contracted ==
  ASSUME NEW t, NEW L, FreeAt(t, L)
  PROVE  FreeCut(Contract(t), L)
<1>1. PICK m, ix, e, h, f, test, add, md, df :
        /\ t = Freeing(m, ix, e, h, f, test, add, md, df)
        /\ FreeIs(m, ix, e, h, f, add, md, df, L)
  BY DEF FreeAt
<1> DEFINE r == Contract(t)
           new == ContractedSize(h - Start)
           e2 == Start + new
           d2 == First(df, e2 < h + Overhead, "contract")
           m2 == Shortened(m, e, h, new)
<1>2. CutOutcome(m, ix, e, h, f, test, add, md, df, r)
  BY <1>1, ContractIs
<1>3. FreeIs(m, ix, e, h, f, add, md, df, L)
  BY <1>1
<1>4. md \in Modes /\ df \in Defects \cup {"none"}
  BY <1>3 DEF FreeIs
<1>5. d2 \in Defects \cup {"none"} /\ (d2 = "none" => df = "none" /\ ~(e2 < h + Overhead))
  <2> DEFINE p == e2 < h + Overhead
  <2>1. "contract" \in Defects /\ p \in BOOLEAN
    BY DEF Defects
  <2>2. d2 = First(df, p, "contract")
    OBVIOUS
  <2> HIDE DEF p, d2
  <2>3. d2 \in Defects \cup {"none"} /\ (d2 = "none" => df = "none" /\ ~p)
    BY <1>4, <2>1, <2>2, Firsts
  <2> QED  BY <2>3 DEF p
<1> SUFFICES FreeCut(r, L)
  OBVIOUS
<1> HIDE DEF r
<1>6. \/ r = Freeing(m, ix, e, h, f, test, add, md, df)
      \/ r = Freeing(m, ix, e2, h, f, test, add, "undefined", d2)
      \/ U(f + F) = e /\ r = Freeing(m2, ix, e2, h, f, test, add, md, d2)
      \/ /\ U(f + F) = e /\ SizeLeft(m, e, h, new) = 0
         /\ \E m3, ix3 : r = Freeing(m3, ix3, e2, h, f, test, add, md, d2)
  BY <1>2 DEF CutOutcome
<1>7. ASSUME md = "run", d2 = "none", U(f + F) = e
      PROVE  /\ HeapFreeing(m2, ix, e2, h, L) /\ add = (h \notin SetOf(ix))
             /\ SizeLeft(m, e, h, new) # 0
  <2>1. /\ HeapFreeing(m, ix, e, h, L) /\ add = (h \notin SetOf(ix))
        /\ f \in Int /\ f + 2 = h + m[h + 2]
    BY <1>3, <1>5, <1>7 DEF FreeIs
  <2>2. /\ h \in Int /\ Start <= h /\ m[h + 2] \in Int /\ 5 <= m[h + 2] /\ h + m[h + 2] <= e
        /\ e \in Int /\ e <= HeapMax
    <3>1. h \in SetOf(ix) \cup {h} /\ HeapFreeing(m, ix, e, h, L)
      BY <2>1
    <3> HIDE DEF new, e2, d2, m2
    <3> QED  BY <3>1, FreeingFacts
  <2>3. h + m[h + 2] = e
    <3>1. f + F = f + 2
      BY <2>1 DEF F
    <3>2. f + 2 \in Int /\ 0 <= f + 2 /\ f + 2 <= HeapMax
      BY <2>1, <2>2, Sizes32
    <3>3. U(f + 2) = f + 2
      BY <3>2, Small
    <3> QED  BY <1>7, <2>1, <3>1, <3>3
  <2>4. new = MinSize
    <3>1. ~(Start + new < h + Overhead)
      BY <1>5, <1>7
    <3> QED  BY <2>2, <3>1, ToMinSize
  <2>5. h + 5 <= Start + MinSize
    <3>1. ~(Start + MinSize < h + 5)
      BY <1>5, <1>7, <2>4 DEF Overhead, H, F
    <3>2. Start \in Int /\ MinSize \in Int
      BY Sizes32
    <3> QED  BY <2>2, <3>1, <3>2
  <2>6. /\ HeapFreeing(Shortened(m, e, h, MinSize), ix, Start + MinSize, h, L)
        /\ SizeLeft(m, e, h, MinSize) # 0
    BY <2>1, <2>2, <2>3, <2>5, EndCut
  <2> QED  BY <2>1, <2>4, <2>6
<1> HIDE DEF new, e2, d2, m2
<1>8. CASE r = Freeing(m, ix, e, h, f, test, add, md, df)
  <2>1. CutIs(m, ix, e, h, add, md, df, L)
    BY <1>3 DEF FreeIs, CutIs
  <2>2. FreeCut(Freeing(m, ix, e, h, f, test, add, md, df), L)
    BY <2>1, FreeCutFrom
  <2> QED  BY <1>8, <2>2
<1>9. CASE r = Freeing(m, ix, e2, h, f, test, add, "undefined", d2)
  <2>1. CutIs(m, ix, e2, h, add, "undefined", d2, L)
    BY <1>5 DEF CutIs, Modes
  <2>2. FreeCut(Freeing(m, ix, e2, h, f, test, add, "undefined", d2), L)
    BY <2>1, FreeCutFrom
  <2> QED  BY <1>9, <2>2
<1>10. CASE U(f + F) = e /\ r = Freeing(m2, ix, e2, h, f, test, add, md, d2)
  <2>1. CutIs(m2, ix, e2, h, add, md, d2, L)
    BY <1>4, <1>5, <1>7, <1>10 DEF CutIs
  <2>2. FreeCut(Freeing(m2, ix, e2, h, f, test, add, md, d2), L)
    BY <2>1, FreeCutFrom
  <2> QED  BY <1>10, <2>2
<1>11. ASSUME NEW m3, NEW ix3, U(f + F) = e, SizeLeft(m, e, h, new) = 0,
              r = Freeing(m3, ix3, e2, h, f, test, add, md, d2)
       PROVE  FreeCut(r, L)
  <2>1. ~(md = "run" /\ d2 = "none")
    BY <1>7, <1>11
  <2>2. CutIs(m3, ix3, e2, h, add, md, d2, L)
    BY <1>4, <1>5, <2>1 DEF CutIs
  <2>3. FreeCut(Freeing(m3, ix3, e2, h, f, test, add, md, d2), L)
    BY <2>2, FreeCutFrom
  <2> QED  BY <1>11, <2>3
<1> QED  BY <1>6, <1>8, <1>9, <1>10, <1>11

\* The heap between two calls.
HeapKept(m, ix, e, L) ==
  /\ Clients(L)
  /\ m \in [Mapped -> Cell] /\ m[Start - 2] # MAGIC
  /\ e \in Int /\ Start + MinSize <= e /\ e <= HeapMax /\ Paged(e)
  /\ ix \in Seq(Int) /\ Once(ix) /\ Layout(SetOf(ix), L, m, Start, e)

FreeDone(t, L) ==
  /\ t.mode \in Modes /\ t.defect \in Defects \cup {"none"}
  /\ t.mode = "run" /\ t.defect = "none" => HeapKept(t.mem, t.index, t.end, L)

\* The hole is put into the index unless it is part of one that is there.
LEMMA IndexAdded ==
  ASSUME NEW t, NEW L, FreeCut(t, L)
  PROVE  FreeDone(AddToIndex(t), L)
<1>1. PICK m, ix, e, h, f, test, add, md, df :
        /\ t = Freeing(m, ix, e, h, f, test, add, md, df)
        /\ CutIs(m, ix, e, h, add, md, df, L)
  BY DEF FreeCut
<1> DEFINE r == AddToIndex(t)
           ix2 == Insert(h, ix, m)
<1>2. /\ md \in Modes /\ df \in Defects \cup {"none"}
      /\ md = "run" /\ df = "none" => HeapFreeing(m, ix, e, h, L) /\ add = (h \notin SetOf(ix))
  BY <1>1 DEF CutIs
<1>3. /\ t.mem = m /\ t.index = ix /\ t.end = e /\ t.header = h /\ t.mode = md
      /\ t.defect = df /\ t.add = add
  BY <1>1 DEF Freeing
<1>4. r = IF md = "run" /\ add THEN [t EXCEPT !.index = ix2] ELSE t
  BY <1>3 DEF AddToIndex
<1>5. [t EXCEPT !.index = ix2] = Freeing(m, ix2, e, h, f, test, add, md, df)
  <2> DEFINE u == Freeing(m, ix, e, h, f, test, add, md, df)
  <2>1. t = u
    BY <1>1
  <2> HIDE DEF ix2
  <2>2. [u EXCEPT !.index = ix2] = Freeing(m, ix2, e, h, f, test, add, md, df)
    BY DEF Freeing
  <2> HIDE DEF u
  <2> QED  BY <2>1, <2>2
<1> SUFFICES FreeDone(r, L)
  OBVIOUS
<1>6. ASSUME md = "run", df = "none"
      PROVE  /\ Clients(L) /\ m \in [Mapped -> Cell] /\ m[Start - 2] # MAGIC
             /\ e \in Int /\ Start + MinSize <= e /\ e <= HeapMax /\ Paged(e)
             /\ ix \in Seq(Int) /\ Once(ix) /\ h \in Int
             /\ Layout(SetOf(ix) \cup {h}, L, m, Start, e)
             /\ add = (h \notin SetOf(ix))
  BY <1>2, <1>6 DEF HeapFreeing, Paged
<1> HIDE DEF r
<1>7. CASE md = "run" /\ add
  <2>1. r = Freeing(m, ix2, e, h, f, test, add, md, df)
    BY <1>4, <1>5, <1>7
  <2>2. ASSUME df = "none"  PROVE HeapKept(m, ix2, e, L)
    <3>1. h \notin SetOf(ix) /\ ix \in Seq(Int) /\ h \in Int /\ Once(ix)
      BY <1>6, <1>7, <2>2
    <3>2. ix2 \in Seq(Int) /\ SetOf(ix2) = SetOf(ix) \cup {h} /\ Once(ix2)
      BY <3>1, InsertSet DEF Insert
    <3> HIDE DEF ix2
    <3> QED  BY <1>6, <1>7, <2>2, <3>2 DEF HeapKept
  <2> HIDE DEF ix2
  <2>3. r.mode = md /\ r.defect = df /\ r.mem = m /\ r.index = ix2 /\ r.end = e
    BY <2>1 DEF Freeing
  <2> QED  BY <1>2, <2>2, <2>3 DEF FreeDone
<1>8. CASE ~(md = "run" /\ add)
  <2>1. r = t
    BY <1>4, <1>8
  <2>2. ASSUME md = "run", df = "none"  PROVE HeapKept(m, ix, e, L)
    <3>1. h \in SetOf(ix)
      BY <1>6, <1>8, <2>2
    <3>2. SetOf(ix) \cup {h} = SetOf(ix)
      BY <3>1
    <3>3. Layout(SetOf(ix), L, m, Start, e)
      BY <1>6, <2>2, <3>2
    <3> QED  BY <1>6, <2>2, <3>3 DEF HeapKept
  <2> QED  BY <1>2, <1>3, <2>1, <2>2 DEF FreeDone
<1> QED  BY <1>7, <1>8

\* free keeps the layout.
LEMMA FreeStep ==
  ASSUME heapInv, NEW b \in live, Free(b)
  PROVE  heapInv'
<1> DEFINE t0 == MakeHole(Hdr(b))
           t1 == UnifyLeft(t0)
           t2 == UnifyRight(t1)
           t3 == Contract(t2)
           t == AddToIndex(t3)
           L == live \ {b}
<1>1. mode = "run" /\ request = None
  BY DEF Free
<1>2. FreeNew(t0, L)
  BY <1>1, HoleMade
<1>3. /\ mem' = t.mem /\ index' = t.index /\ end' = t.end /\ mode' = t.mode
      /\ defect' = t.defect /\ live' = L /\ request' = request
  BY DEF Free, Hdr
<1> HIDE DEF t0, L
<1>4. FreeAt(t1, L)
  BY <1>2, LeftUnified
<1> HIDE DEF t1
<1>5. FreeAt(t2, L)
  BY <1>4, RightUnified
<1> HIDE DEF t2
<1>6. FreeCut(t3, L)
  BY <1>5, Contracted
<1> HIDE DEF t3
<1>7. FreeDone(t, L)
  BY <1>6, IndexAdded
<1> HIDE DEF t
<1>8. /\ mode' \in Modes /\ defect' \in Defects \cup {"none"}
      /\ mode' = "run" /\ defect' = "none" => HeapKept(mem', index', end', live')
  BY <1>3, <1>7 DEF FreeDone
<1>9. typesInv'
  BY <1>1, <1>3, <1>8 DEF typesInv, Modes
<1>10. ASSUME Sound'
       PROVE  wordsInv' /\ Layout(SetOf(index), live, mem, Start, end)'
  <2>1. mode' = "run" /\ defect' = "none"
    BY <1>10 DEF Sound
  <2>2. HeapKept(mem', index', end', live')
    BY <1>8, <2>1
  <2>5. /\ IsFiniteSet(live')
        /\ live' \subseteq [addr : Int, size : {r.size : r \in Requests}, written : BOOLEAN]
    BY <2>2 DEF HeapKept, Clients
  <2>6. /\ (mem \in [Mapped -> Cell])' /\ mem'[Start - 2] # MAGIC
        /\ end' \in Int /\ Start + MinSize <= end' /\ end' <= HeapMax /\ Paged(end')
        /\ index' \in Seq(Int) /\ Once(index') /\ Layout(SetOf(index'), live', mem', Start, end')
    BY <2>2 DEF HeapKept
  <2>7. end' \in Start + MinSize .. HeapMax /\ end' \in {Page * n : n \in 1 .. HeapMax}
    <3> DEFINE e == end'
    <3>1. e \in Int /\ Start + MinSize <= e /\ e <= HeapMax
      BY <2>6
    <3>2. Start + MinSize \in Int /\ HeapMax \in Int
      BY Sizes32
    <3> HIDE DEF e
    <3>3. e \in Start + MinSize .. HeapMax
      BY <3>1, <3>2
    <3> QED  BY <2>6, <3>3 DEF e, Paged
  <2>8. Start - F = Start - 2
    BY DEF F
  <2>9. wordsInv'
    BY <2>5, <2>6, <2>7, <2>8 DEF wordsInv
  <2> QED  BY <2>6, <2>9
<1> QED  BY <1>9, <1>10 DEF heapInv

-----------------------------------------------------------------------------
(* Clients write, and the theorem.                                         *)

\* A block's client writes in it.
LEMMA BlockWritten ==
  ASSUME NEW Hs, NEW L, NEW m, NEW m2, NEW e \in Int, Layout(Hs, L, m, Start, e),
         NEW b \in L, NEW b2, b2.addr = b.addr, b2.size = b.size,
         \A a \in Payload(b) : m2[a] = DATA,
         \A a \in Start .. e - 1 : a \notin Payload(b) => m2[a] = m[a]
  PROVE  Layout(Hs, (L \ {b}) \cup {b2}, m2, Start, e)
<1> DEFINE C == Hs \cup {Hdr(c) : c \in L}
           x == Hdr(b)
           s == m[x + 2]
           y == x + s
<1>0. Start \in Int
  BY Sizes32
<1>1. Facts(Hs, L, m, Start, e)
  BY <1>0, LayoutFacts
<1>2. /\ Tiles(C, m, Start, e)
      /\ \A c \in C : c \in Int
      /\ \A h \in Hs : h # x
      /\ x \in Int /\ s \in Int /\ 5 <= s /\ Start <= x /\ m[x] = MAGIC /\ y <= e
  <2>1. x \in C
    OBVIOUS
  <2>2. \A c \in C : /\ c \in Int /\ m[c + 2] \in Int /\ m[c] = MAGIC
                     /\ Start <= c /\ 5 <= m[c + 2] /\ c + m[c + 2] <= e
    BY <1>1 DEF Facts
  <2>3. Tiles(C, m, Start, e) /\ \A h \in Hs : h # x
    BY <1>1 DEF Facts
  <2> HIDE DEF C, x
  <2> QED  BY <2>1, <2>2, <2>3
<1>3. \A c, d \in L : Hdr(c) = Hdr(d) => c = d
  BY DEF Layout
<1>4. x \in C /\ (y \in C \/ y = e)
  <2>1. x \in C
    OBVIOUS
  <2> HIDE DEF C, x
  <2> QED  BY <1>0, <1>2, <2>1, NextChunk
<1>5. \A c \in C : x <= c /\ c < y => c = x
  <2> HIDE DEF C, x
  <2> QED  BY <1>2, <1>4, OnlyChunk
<1>6. /\ b.addr \in Int /\ b.size \in Int /\ 1 <= b.size
      /\ m[x + 1] = 0 /\ b.size + 5 <= s /\ b.addr = x + 3
      /\ m[(x + s) - 2] = MAGIC /\ m[(x + s) - 1] = x
  <2>1. BlockAt(m, b)
    BY DEF Layout
  <2>2. b.addr \in Int /\ x = b.addr - 3
    BY <2>1 DEF BlockAt, Hdr, H
  <2>3. b.addr = x + 3
    BY <2>2
  <2> QED  BY <2>1, <2>3 DEF BlockAt
<1>7. Hdr(b2) = x
  BY DEF Hdr
<1>8. Payload(b2) = Payload(b)
  BY DEF Payload
<1> HIDE DEF x, s
<1>9. \A a \in Payload(b) : a \in Int /\ x + 3 <= a /\ a < (x + s) - 2
  BY <1>2, <1>6 DEF Payload
<1>10. ASSUME NEW a \in {x, x + 1, x + 2, (x + s) - 2, (x + s) - 1}
       PROVE  m2[a] = m[a]
  <2>1. a \in Start .. e - 1
    BY <1>0, <1>2
  <2>2. a \notin Payload(b)
    BY <1>2, <1>9
  <2> QED  BY <2>1, <2>2
<1>11. m2[x + 2] = s
  BY <1>10 DEF s
<1>12. BlockAt(m2, b2)
  <2>1. /\ m2[x] = MAGIC /\ m2[x + 1] = 0
        /\ m2[(x + s) - 2] = MAGIC /\ m2[(x + s) - 1] = x
    BY <1>2, <1>6, <1>10
  <2>2. \A a \in Payload(b2) : m2[a] = DATA
    BY <1>8
  <2> QED  BY <1>6, <1>7, <1>11, <2>1, <2>2 DEF BlockAt
<1>13. Layout({}, {b2}, m2, x, y)
  BY <1>2, <1>7, <1>11, <1>12, LayoutBlock
<1>14. y \in Int /\ x < y /\ x <= y
  BY <1>2
<1>15. \A a \in Start .. x - 1 : m2[a] = m[a]
  <2> SUFFICES ASSUME NEW a \in Start .. x - 1  PROVE m2[a] = m[a]
    OBVIOUS
  <2>1. a \in Start .. e - 1
    BY <1>0, <1>2
  <2>2. a \notin Payload(b)
    BY <1>2, <1>9
  <2> QED  BY <2>1, <2>2
<1>16. \A a \in y .. e - 1 : m2[a] = m[a]
  <2> SUFFICES ASSUME NEW a \in y .. e - 1  PROVE m2[a] = m[a]
    OBVIOUS
  <2>1. a \in Start .. e - 1
    BY <1>0, <1>2
  <2>2. a \notin Payload(b)
    BY <1>2, <1>9
  <2> QED  BY <2>1, <2>2
<1> HIDE DEF y
<1>17. Layout({h \in Hs : h < x \/ ~(h < y)} \cup {},
              {c \in L : Hdr(c) < x \/ ~(Hdr(c) < y)} \cup {b2}, m2, Start, e)
  <2>1. (y \in Hs \/ y \in {Hdr(c) : c \in L} \/ y = e) /\ x \in {Hdr(c) : c \in L}
    BY <1>4 DEF x
  <2>2. Start <= x /\ x <= y /\ y <= e /\ x \in Int /\ y \in Int
    BY <1>2, <1>14 DEF y
  <2> QED  BY <1>13, <1>15, <1>16, <2>1, <2>2, Rebuild
<1>18. {h \in Hs : h < x \/ ~(h < y)} \cup {} = Hs
  <2>1. \A h \in Hs : h \in Int /\ h # x /\ (x <= h /\ h < y => h = x)
    BY <1>2, <1>5
  <2>2. \A h \in Hs : h < x \/ ~(h < y)
    BY <1>2, <1>14, <2>1
  <2> QED  BY <2>2
<1>19. {c \in L : Hdr(c) < x \/ ~(Hdr(c) < y)} = L \ {b}
  <2>1. \A c \in L : Hdr(c) \in C
    OBVIOUS
  <2>2. Hdr(b) = x
    BY DEF x
  <2>3. \A c \in L : Hdr(c) = x => c = b
    BY <1>3, <2>2
  <2> HIDE DEF C
  <2>4. \A c \in L : (Hdr(c) < x \/ ~(Hdr(c) < y)) <=> c # b
    BY <1>2, <1>5, <1>14, <2>1, <2>2, <2>3
  <2> QED  BY <2>4
<1> QED  BY <1>17, <1>18, <1>19

\* A write keeps the layout.
LEMMA WriteStep ==
  ASSUME heapInv, NEW b \in live, Write(b)
  PROVE  heapInv'
<1> DEFINE b2 == [addr |-> b.addr, size |-> b.size, written |-> TRUE]
<1>1. /\ mem' = [a \in Mapped |-> IF a \in Payload(b) THEN DATA ELSE mem[a]]
      /\ live' = (live \ {b}) \cup {b2} /\ index' = index /\ end' = end
      /\ request' = request /\ mode' = mode /\ defect' = defect
  BY DEF Write
<1>2. typesInv'
  BY <1>1 DEF heapInv, typesInv
<1>3. ASSUME Sound'
      PROVE  wordsInv' /\ Layout(SetOf(index), live, mem, Start, end)'
  <2>1. Sound
    BY <1>1, <1>3 DEF Sound
  <2>2. wordsInv /\ Layout(SetOf(index), live, mem, Start, end)
    BY <2>1 DEF heapInv
  <2>3. /\ mem \in [Mapped -> Cell] /\ end \in Int /\ end <= HeapMax
        /\ Start \in Int /\ Start > 5 /\ HeapMax \in Int
    BY <2>1, WordFacts, Sizes32
  <2>4. /\ b.addr \in Int /\ b.size \in Int /\ Start + 3 <= b.addr /\ b.addr + b.size + 2 <= end
    <3> DEFINE C == SetOf(index) \cup {Hdr(c) : c \in live}
               x == Hdr(b)
    <3>1. Facts(SetOf(index), live, mem, Start, end)
      BY <2>2, <2>3, LayoutFacts
    <3>2. \A c \in C : /\ c \in Int /\ mem[c + 2] \in Int
                       /\ Start <= c /\ 5 <= mem[c + 2] /\ c + mem[c + 2] <= end
      BY <3>1 DEF Facts
    <3>3. x \in C
      OBVIOUS
    <3>4. BlockAt(mem, b)
      BY <2>2 DEF Layout
    <3>5. b.addr \in Int /\ b.size \in Int /\ x = b.addr - 3 /\ b.size + 5 <= mem[x + 2]
      BY <3>4 DEF BlockAt, Hdr, H
    <3> HIDE DEF C, x
    <3>6. x \in Int /\ mem[x + 2] \in Int /\ Start <= x /\ x + mem[x + 2] <= end
      BY <3>2, <3>3
    <3> QED  BY <2>3, <3>5, <3>6
  <2>5. \A a \in Payload(b) : a \in Mapped /\ a # Start - 2
    BY <2>3, <2>4 DEF Payload, Mapped
  <2>6. /\ \A a \in Payload(b) : mem'[a] = DATA
        /\ \A a \in Mapped : a \notin Payload(b) => mem'[a] = mem[a]
    BY <1>1, <2>5
  <2>7. mem' \in [Mapped -> Cell]
    <3>1. DATA \in Cell
      BY Sizes32 DEF DATA, Cell
    <3> QED  BY <1>1, <2>3, <3>1
  <2>8. mem'[Start - F] # MAGIC
    <3>1. Start - 2 \in Mapped /\ Start - 2 \notin Payload(b) /\ Start - F = Start - 2
      <4>1. Start - 2 \in Mapped
        BY Sizes32 DEF Mapped
      <4>2. Start - F = Start - 2
        BY DEF F
      <4> QED  BY <2>5, <4>1, <4>2
    <3> QED  BY <2>2, <2>6, <3>1 DEF wordsInv
  <2> DEFINE m2 == mem'
  <2>9. Layout(SetOf(index), (live \ {b}) \cup {b2}, m2, Start, end)
    <3>1. \A a \in Start .. end - 1 : a \notin Payload(b) => m2[a] = mem[a]
      <4> SUFFICES ASSUME NEW a \in Start .. end - 1, a \notin Payload(b)  PROVE m2[a] = mem[a]
        OBVIOUS
      <4>1. a \in Mapped
        BY <2>3 DEF Mapped
      <4> QED  BY <2>6, <4>1
    <3>2. b2.addr = b.addr /\ b2.size = b.size /\ \A a \in Payload(b) : m2[a] = DATA
      BY <2>6
    <3> HIDE DEF b2, m2
    <3> QED  BY <2>2, <2>3, <3>1, <3>2, BlockWritten
  <2>10. /\ IsFiniteSet(live')
         /\ live' \subseteq [addr : Int, size : {r.size : r \in Requests}, written : BOOLEAN]
    <3>1. b \in [addr : Int, size : {r.size : r \in Requests}, written : BOOLEAN]
      BY <2>2 DEF wordsInv
    <3>2. b2 \in [addr : Int, size : {r.size : r \in Requests}, written : BOOLEAN]
      BY <3>1
    <3> HIDE DEF b2
    <3>3. live \ {b} \subseteq live
      OBVIOUS
    <3>4. IsFiniteSet(live \ {b})
      BY <2>2, <3>3, FS_Subset DEF wordsInv
    <3>5. IsFiniteSet((live \ {b}) \cup {b2})
      BY <3>4, FS_AddElement
    <3> QED  BY <1>1, <2>2, <3>2, <3>5 DEF wordsInv
  <2>11. wordsInv'
    BY <1>1, <2>2, <2>7, <2>8, <2>10 DEF wordsInv
  <2>12. Layout(SetOf(index'), live', mem', Start, end')
    BY <1>1, <2>9
  <2> QED  BY <2>11, <2>12
<1> QED  BY <1>2, <1>3 DEF heapInv

-----------------------------------------------------------------------------
(* The invariant.                                                          *)

\* A new heap is one hole.
LEMMA HeapInit == khInit => heapInv
<1> SUFFICES ASSUME khInit  PROVE heapInv
  OBVIOUS
<1> DEFINE m == [a \in Mapped |-> 0]
           size == InitialEnd - Start
<1>1. /\ mem = PutHeader(m, Start, 1, size) /\ index = <<Start>> /\ end = InitialEnd
      /\ live = {} /\ request = None /\ mode = "run" /\ defect = "none"
  BY DEF khInit
<1>2. 0 \in Cell /\ 1 \in Cell /\ size \in Cell
  BY Sizes32 DEF Cell
<1>3. m \in [Mapped -> Cell] /\ \A a \in Mapped : m[a] = 0
  BY <1>2
<1>4. /\ 0 <= Start /\ Start + 2 < HeapMax /\ Start \in Int /\ size \in Int /\ 5 <= size
      /\ Start + size = InitialEnd
  BY Sizes32
<1> HIDE DEF m, size
<1>5. /\ mem \in [Mapped -> Cell] /\ mem[Start] = MAGIC /\ mem[Start + 1] = 1
      /\ mem[Start + 2] = size
      /\ \A a \in Mapped : a \notin Start .. Start + 2 => mem[a] = m[a]
  BY <1>1, <1>2, <1>3, <1>4, HeaderPut
<1>6. SetOf(index) = {Start} /\ Once(index) /\ index \in Seq(Int)
  <2>1. Len(index) = 1 /\ index[1] = Start
    BY <1>1
  <2> QED  BY <1>1, <1>4, <2>1 DEF SetOf, Once
<1>7. Layout(SetOf(index), live, mem, Start, end)
  <2>1. HoleAt(mem, Start)
    BY <1>5 DEF HoleAt
  <2>2. Layout({Start}, {}, mem, Start, Start + size)
    BY <1>4, <1>5, <2>1, LayoutHole
  <2> QED  BY <1>1, <1>4, <1>6, <2>2
<1>8. wordsInv
  <2>1. end \in Start + MinSize .. HeapMax /\ end \in {Page * n : n \in 1 .. HeapMax}
    BY <1>1, Sizes32, HeapAssumption
  <2>2. Start - F \in Mapped /\ Start - F \notin Start .. Start + 2
    BY Sizes32 DEF Mapped, F
  <2>3. mem[Start - F] = 0
    BY <1>3, <1>5, <2>2
  <2>4. mem[Start - F] # MAGIC
    BY <2>3 DEF MAGIC
  <2>5. IsFiniteSet(live)
    BY <1>1, FS_EmptySet
  <2> QED  BY <1>1, <1>5, <1>6, <2>1, <2>4, <2>5 DEF wordsInv
<1>9. typesInv
  BY <1>1 DEF typesInv
<1> QED  BY <1>7, <1>8, <1>9 DEF heapInv

\* Every step keeps the layout.
LEMMA HeapStep ==
  ASSUME heapInv, [khNext]_khVars
  PROVE  heapInv'
<1>1. ASSUME UNCHANGED <<mem, index, end, live, mode, defect>>, request' \in Requests \cup {None}
      PROVE  heapInv'
  <2>1. typesInv'
    BY <1>1 DEF heapInv, typesInv
  <2>2. Sound' => Sound
    BY <1>1 DEF Sound
  <2>3. wordsInv => wordsInv'
    BY <1>1 DEF wordsInv, Once
  <2>4. Layout(SetOf(index), live, mem, Start, end) => Layout(SetOf(index), live, mem, Start, end)'
    BY <1>1
  <2> QED  BY <2>1, <2>2, <2>3, <2>4 DEF heapInv
<1>2. CASE UNCHANGED khVars
  <2>1. UNCHANGED <<mem, index, end, live, mode, defect>> /\ request' \in Requests \cup {None}
    BY <1>2 DEF khVars, heapInv, typesInv
  <2> QED  BY <1>1, <2>1
<1>3. ASSUME NEW r \in Requests, Call(r)  PROVE heapInv'
  <2>1. UNCHANGED <<mem, index, end, live, mode, defect>> /\ request' \in Requests \cup {None}
    BY <1>3 DEF Call
  <2> QED  BY <1>1, <2>1
<1> QED  BY <1>2, <1>3, BlockStep, ExpandStep, FreeStep, WriteStep DEF khNext, alloc

\* The layout of a heap, up to the first defect, for clients that ask for any
\* blocks, aligned or not, and free them in any order.
THEOREM HeapLayout == khSpec => []heapInv
<1>1. heapInv /\ [khNext]_khVars => heapInv'
  BY HeapStep
<1> QED  BY <1>1, HeapInit, PTL DEF khSpec

-----------------------------------------------------------------------------
(* What the layout implies.                                                *)

\* The chunks that the clients' blocks and the index have, in numbers.
LEMMA ChunkFacts ==
  ASSUME heapInv, Sound
  PROVE  /\ Tiles(Chunks, mem, Start, end)
         /\ \A h \in Chunks : SizeAt(mem, h) = mem[h + 2]
         /\ Chunks = SetOf(index) \cup {Hdr(b) : b \in live}
         /\ \A b \in live : Hdr(b) \in Chunks /\ BlockAt(mem, b)
<1>1. Chunks = SetOf(index) \cup {Hdr(b) : b \in live}
  BY DEF Chunks, SetOf, Hdr
<1>2. Layout(SetOf(index), live, mem, Start, end)
  BY WordFacts
<1>3. Tiles(Chunks, mem, Start, end) /\ \A b \in live : BlockAt(mem, b)
  BY <1>1, <1>2 DEF Layout
<1>4. ASSUME NEW h \in Chunks  PROVE SizeAt(mem, h) = mem[h + 2]
  <2>1. /\ h \in Int /\ mem[h + 2] \in Int
        /\ Start <= h /\ 5 <= mem[h + 2] /\ h + mem[h + 2] <= end
    BY <1>3 DEF Tiles
  <2>2. 0 <= h /\ h + 2 < HeapMax
    BY <2>1, WordFacts, Sizes32
  <2> QED  BY <2>1, <2>2, Reads
<1> QED  BY <1>1, <1>3, <1>4

\* Up to the first defect, memory, index, end and the clients' blocks are what
\* they should be; no item of the index points outside the heap.
THEOREM HeapTypes == khSpec => []khTypeOK
<1>1. heapInv => khTypeOK
  <2> SUFFICES ASSUME heapInv  PROVE khTypeOK
    OBVIOUS
  <2>1. typesInv
    BY DEF heapInv
  <2>2. ASSUME Sound
        PROVE  /\ mem \in [Mapped -> -2 .. 2 ^ Bits - 1]
               /\ index \in Seq(Start .. end - 1)
               /\ end \in Start + MinSize .. HeapMax
               /\ live \subseteq [addr : Start .. end - 1, size : 1 .. HeapMax,
                                  written : BOOLEAN]
    <3>1. wordsInv /\ Start \in Int /\ end \in Int
      BY <2>2, WordFacts, Sizes32 DEF heapInv
    <3>2. Tiles(Chunks, mem, Start, end)
      BY <2>2, ChunkFacts
    <3>3. \A c \in Chunks : /\ c \in Int /\ mem[c + 2] \in Int
                            /\ Start <= c /\ 5 <= mem[c + 2] /\ c + mem[c + 2] <= end
      BY <3>2 DEF Tiles
    <3>4. index \in Seq(Start .. end - 1)
      <4>1. \A i \in 1 .. Len(index) : index[i] \in Chunks
        BY DEF Chunks
      <4>2. \A i \in 1 .. Len(index) : index[i] \in Start .. end - 1
        BY <3>1, <3>3, <4>1
      <4>3. index \in Seq(Int)
        BY <3>1 DEF wordsInv
      <4> DEFINE S == Start .. end - 1
                 n == Len(index)
      <4>4. n \in Nat /\ index \in [1 .. n -> Int]
        BY <4>3
      <4> HIDE DEF S, n
      <4>5. index \in [1 .. n -> S]
        BY <4>2, <4>4 DEF S, n
      <4>6. index \in Seq(S)
        BY <4>4, <4>5
      <4> QED  BY <4>6 DEF S
    <3>5. ASSUME NEW b \in live
          PROVE  b \in [addr : Start .. end - 1, size : 1 .. HeapMax, written : BOOLEAN]
      <4>1. b \in [addr : Int, size : {r.size : r \in Requests}, written : BOOLEAN]
        BY <3>1 DEF wordsInv
      <4>2. b.size \in 1 .. HeapMax
        BY <4>1, HeapAssumption
      <4>3. Hdr(b) \in Chunks /\ BlockAt(mem, b)
        BY <2>2, ChunkFacts
      <4> DEFINE h == Hdr(b)
      <4>4. h \in Int /\ mem[h + 2] \in Int /\ Start <= h /\ h + mem[h + 2] <= end
        BY <3>3, <4>3
      <4>5. b.size + 5 <= mem[h + 2] /\ b.addr \in Int /\ h = b.addr - 3
        BY <4>3 DEF BlockAt, Hdr, H
      <4>6. b.size \in Int /\ 1 <= b.size
        BY <4>3 DEF BlockAt
      <4> HIDE DEF h
      <4>7. b.addr \in Start .. end - 1
        BY <3>1, <4>4, <4>5, <4>6
      <4> QED  BY <4>1, <4>2, <4>7
    <3> QED  BY <3>1, <3>4, <3>5 DEF wordsInv, Cell
  <2> QED  BY <2>1, <2>2 DEF typesInv, khTypeOK
<1> QED  BY <1>1, HeapLayout, PTL

\* What clients wrote stays as long as they have the block, whatever is
\* allocated, freed, expanded and contracted around it, up to the first defect.
THEOREM DataKept == khSpec => []DataIsKept
<1>1. heapInv => DataIsKept
  BY ChunkFacts DEF DataIsKept, BlockAt
<1> QED  BY <1>1, HeapLayout, PTL

\* As many items of a set as there are of another it maps to one to one.
LEMMA CountItems ==
  ASSUME NEW S, NEW T, NEW g \in [S -> T], IsFiniteSet(S),
         \A x, y \in S : g[x] = g[y] => x = y, \A t \in T : \E x \in S : g[x] = t
  PROVE  IsFiniteSet(T) /\ Cardinality(T) = Cardinality(S)
<1>1. g \in Bijection(S, T)
  BY DEF Bijection, Injection, Surjection, IsInjective
<1>2. ExistsBijection(S, T)
  BY <1>1 DEF ExistsBijection
<1> QED  BY <1>2, FS_Bijection

\* The chunks are as many as the items of the index and the blocks together.
LEMMA ChunksCounted ==
  ASSUME heapInv, Sound
  PROVE  Cardinality(Chunks) = Len(index) + Cardinality(live)
<1> DEFINE Hs == SetOf(index)
           Bs == {Hdr(b) : b \in live}
           n == Len(index)
<1>1. n \in Nat /\ Once(index) /\ IsFiniteSet(live)
  BY WordFacts DEF heapInv, wordsInv
<1>2. IsFiniteSet(Hs) /\ Cardinality(Hs) = n
  <2> DEFINE g == [i \in 1 .. n |-> index[i]]
  <2>1. g \in [1 .. n -> Hs]
    BY DEF SetOf
  <2>2. \A i, j \in 1 .. n : g[i] = g[j] => i = j
    BY <1>1 DEF Once
  <2>3. \A t \in Hs : \E i \in 1 .. n : g[i] = t
    BY DEF SetOf
  <2>4. IsFiniteSet(1 .. n) /\ Cardinality(1 .. n) = n
    BY <1>1, FS_Interval
  <2> HIDE DEF g, Hs, n
  <2> QED  BY <2>1, <2>2, <2>3, <2>4, CountItems
<1>3. IsFiniteSet(Bs) /\ Cardinality(Bs) = Cardinality(live)
  <2> DEFINE g == [b \in live |-> Hdr(b)]
  <2>1. g \in [live -> Bs] /\ \A t \in Bs : \E b \in live : g[b] = t
    OBVIOUS
  <2>2. \A b, c \in live : g[b] = g[c] => b = c
    BY WordFacts DEF Layout
  <2> HIDE DEF g, Bs
  <2> QED  BY <1>1, <2>1, <2>2, CountItems
<1>4. Hs \cap Bs = {}
  <2>1. Facts(Hs, live, mem, Start, end)
    BY WordFacts, Sizes32, LayoutFacts
  <2>2. \A h \in Hs : \A b \in live : Hdr(b) # h
    BY <2>1 DEF Facts
  <2> QED  BY <2>2
<1>5. Chunks = Hs \cup Bs
  BY ChunkFacts
<1> HIDE DEF Hs, Bs
<1>6. Cardinality(Hs \cup Bs) = Cardinality(Hs) + Cardinality(Bs) - Cardinality(Hs \cap Bs)
  BY <1>2, <1>3, FS_Union
<1>7. Cardinality(Hs \cap Bs) = 0 /\ Cardinality(live) \in Nat
  BY <1>1, <1>4, FS_EmptySet, FS_CardinalityType
<1> QED  BY <1>1, <1>2, <1>3, <1>5, <1>6, <1>7

\* Up to the first defect, holes and blocks tile the heap: no word is lost, and
\* none is in two chunks.
THEOREM HeapTiled == khSpec => []HeapIsTiled
<1>1. heapInv => HeapIsTiled
  <2> SUFFICES ASSUME heapInv, Sound, NEW a \in Start .. end - 1
               PROVE  Cardinality({h \in Chunks : h <= a /\ a < h + SizeAt(mem, h)}) = 1
    BY ChunksCounted DEF HeapIsTiled
  <2>1. Tiles(Chunks, mem, Start, end) /\ \A h \in Chunks : SizeAt(mem, h) = mem[h + 2]
    BY ChunkFacts
  <2>2. /\ \A c \in Chunks : c \in Int /\ mem[c + 2] \in Int
        /\ \A c, d \in Chunks : c < d => c + mem[c + 2] <= d
        /\ \E c \in Chunks : c <= a /\ a < c + mem[c + 2]
    BY <2>1 DEF Tiles
  <2>3. a \in Int
    BY WordFacts, Sizes32
  <2>4. PICK x \in Chunks : x <= a /\ a < x + mem[x + 2]
    BY <2>2
  <2>5. ASSUME NEW h \in Chunks, h <= a, a < h + mem[h + 2]  PROVE h = x
    <3>1. h \in Int /\ x \in Int /\ mem[h + 2] \in Int /\ mem[x + 2] \in Int
      BY <2>2
    <3>2. h < x => h + mem[h + 2] <= x
      BY <2>2
    <3>3. x < h => x + mem[x + 2] <= h
      BY <2>2
    <3> QED  BY <2>3, <2>4, <2>5, <3>1, <3>2, <3>3
  <2>6. {h \in Chunks : h <= a /\ a < h + SizeAt(mem, h)} = {x}
    BY <2>1, <2>4, <2>5
  <2> QED  BY <2>6, FS_Singleton
<1> QED  BY <1>1, HeapLayout, PTL

\* The steps of free but contract keep the end of the heap, and all of them what
\* went wrong first.
SameEnd(t, r) == r.end = t.end /\ (r.defect = "none" => t.defect = "none")

\* They do.
LEMMA StepsKeepEnd ==
  ASSUME NEW m, NEW ix, NEW e, NEW h, NEW f, NEW test, NEW add, NEW md, NEW df
  PROVE  LET t == Freeing(m, ix, e, h, f, test, add, md, df)
         IN SameEnd(t, UnifyLeft(t)) /\ SameEnd(t, UnifyRight(t)) /\ SameEnd(t, AddToIndex(t))
<1> DEFINE t == Freeing(m, ix, e, h, f, test, add, md, df)
<1>1. t.end = e /\ t.defect = df /\ t.mode = md
  BY DEF Freeing
<1>2. SameEnd(t, t)
  BY DEF SameEnd
<1>3. SameEnd(t, UnifyLeft(t))
  BY <1>1 DEF SameEnd, Freeing, UnifyLeft, First
<1>4. SameEnd(t, UnifyRight(t))
  BY <1>1 DEF SameEnd, Freeing, UnifyRight
<1>5. SameEnd(t, AddToIndex(t))
  BY <1>1 DEF SameEnd, Freeing, AddToIndex
<1> QED  BY <1>3, <1>4, <1>5

\* contract does not raise the end, up to the first defect.
LowerEnd(t, r) ==
  r.defect = "none" => t.defect = "none" /\ (r.end = t.end \/ (r.end \in Int /\ r.end <= t.end))

\* It does not.
LEMMA ContractKeepsEnd ==
  ASSUME NEW t, NEW L, FreeAt(t, L)
  PROVE  LowerEnd(t, Contract(t))
<1>1. PICK m, ix, e, h, f, test, add, md, df :
        /\ t = Freeing(m, ix, e, h, f, test, add, md, df)
        /\ FreeIs(m, ix, e, h, f, add, md, df, L)
  BY DEF FreeAt
<1> DEFINE r == Contract(t)
           new == ContractedSize(h - Start)
           e2 == Start + new
           p == e2 < h + Overhead
           d2 == First(df, p, "contract")
<1>2. t.end = e /\ t.defect = df /\ t.mode = md
  BY <1>1 DEF Freeing
<1>3. df \in Defects \cup {"none"} /\ FreeIs(m, ix, e, h, f, add, md, df, L)
  BY <1>1 DEF FreeIs
<1>4. CASE md # "run"
  <2>1. r = t
    BY <1>2, <1>4 DEF Contract
  <2> QED  BY <2>1 DEF LowerEnd
<1>5. CASE md = "run"
  <2>1. ASSUME d2 = "none"  PROVE df = "none" /\ e2 \in Int /\ e2 <= e
    <3>1. df = "none" /\ ~p
      <4>1. "contract" \in Defects /\ p \in BOOLEAN
        BY DEF Defects
      <4>2. First(df, p, "contract") = "none"
        BY <2>1
      <4> HIDE DEF p, d2
      <4> QED  BY <1>3, <4>1, <4>2, Firsts
    <3>2. HeapFreeing(m, ix, e, h, L)
      BY <1>3, <1>5, <3>1 DEF FreeIs
    <3>3. h \in Int /\ Start <= h
      <4>1. h \in SetOf(ix) \cup {h}
        OBVIOUS
      <4> HIDE DEF new, e2, p, d2
      <4> QED  BY <3>2, <4>1, FreeingFacts
    <3>4. new = MinSize
      BY <3>1, <3>3, ToMinSize
    <3>5. Start + MinSize <= e
      BY <3>2 DEF HeapFreeing
    <3> QED  BY <3>1, <3>4, <3>5, Sizes32
  <2>2. CutOutcome(m, ix, e, h, f, test, add, md, df, r)
    BY <1>1, ContractIs
  <2> SUFFICES LowerEnd(t, r)
    OBVIOUS
  <2> HIDE DEF r
  <2>3. \/ r = t
        \/ \E m3, ix3, md3 : r = Freeing(m3, ix3, e2, h, f, test, add, md3, d2)
    BY <1>1, <2>2 DEF CutOutcome
  <2> HIDE DEF e2, d2
  <2>4. r = t \/ (r.end = e2 /\ r.defect = d2)
    BY <2>3 DEF Freeing
  <2> QED  BY <1>2, <2>1, <2>4 DEF LowerEnd
<1> QED  BY <1>4, <1>5

\* Nor does free.
LEMMA FreeKeepsEnd ==
  ASSUME heapInv, NEW b \in live, Free(b), defect' = "none"
  PROVE  defect = "none" /\ ~(end' > end)
<1> DEFINE t0 == MakeHole(Hdr(b))
           t1 == UnifyLeft(t0)
           t2 == UnifyRight(t1)
           t3 == Contract(t2)
           t == AddToIndex(t3)
           L == live \ {b}
<1>1. mode = "run"
  BY DEF Free
<1>2. FreeNew(t0, L) /\ t0.end = end /\ t0.defect = defect
  <2>1. FreeNew(t0, L)
    BY <1>1, HoleMade
  <2> QED  BY <2>1 DEF MakeHole
<1>3. end' = t.end /\ defect' = t.defect
  BY DEF Free, Hdr
<1> HIDE DEF t0, L
<1>4. FreeAt(t1, L) /\ SameEnd(t0, t1)
  <2>1. FreeAt(t1, L)
    BY <1>2, LeftUnified
  <2> QED  BY <1>2, <2>1, StepsKeepEnd DEF FreeNew
<1> HIDE DEF t1
<1>5. FreeAt(t2, L) /\ SameEnd(t1, t2)
  <2>1. FreeAt(t2, L)
    BY <1>4, RightUnified
  <2> QED  BY <1>4, <2>1, StepsKeepEnd DEF FreeAt
<1> HIDE DEF t2
<1>6. FreeCut(t3, L) /\ LowerEnd(t2, t3)
  BY <1>5, Contracted, ContractKeepsEnd
<1> HIDE DEF t3
<1>7. SameEnd(t3, t)
  BY <1>6, StepsKeepEnd DEF FreeCut
<1> HIDE DEF t
<1>8. defect = "none"
  BY <1>2, <1>3, <1>4, <1>5, <1>6, <1>7 DEF SameEnd, LowerEnd
<1>9. end' = end \/ (end' \in Int /\ end' <= end)
  BY <1>2, <1>3, <1>4, <1>5, <1>6, <1>7 DEF SameEnd, LowerEnd
<1>10. Sound
  BY <1>1, <1>8 DEF Sound
<1>11. end \in Int
  BY <1>10, WordFacts
<1>12. end' \in Int
  BY <1>9, <1>11
<1> QED  BY <1>8, <1>9, <1>11, <1>12

\* A block in the heap, apart from the blocks L.
BlockWithin(b, L) ==
  /\ b.addr \in Int /\ b.size \in Int
  /\ Start < b.addr /\ b.addr + b.size < HeapMax
  /\ \A c \in L : b.addr + b.size <= c.addr \/ c.addr + c.size <= b.addr

\* Every block of a layout is so, as to the others.
LEMMA BlockIsWithin ==
  ASSUME NEW Hs, NEW L, NEW m, NEW e \in Int, e <= HeapMax, Layout(Hs, L, m, Start, e),
         NEW b \in L
  PROVE  BlockWithin(b, {c \in L : Hdr(c) # Hdr(b)})
<1> DEFINE C == Hs \cup {Hdr(d) : d \in L}
           x == Hdr(b)
           s == m[x + 2]
<1>1. Tiles(C, m, Start, e)
  BY DEF Layout
<1>2. \A c \in L : BlockAt(m, c) /\ Hdr(c) \in C
  BY DEF Layout
<1> HIDE DEF C
<1>3. b.addr \in Int /\ b.size \in Int /\ b.size + 5 <= s /\ x = b.addr - 3
  BY <1>2 DEF BlockAt, Hdr, H
<1>4. x \in Int /\ s \in Int /\ Start <= x /\ x + s <= e
  BY <1>1, <1>2 DEF Tiles
<1>5. Start \in Int /\ HeapMax \in Int
  BY Sizes32
<1>6. ASSUME NEW c \in L, Hdr(c) # x
      PROVE  b.addr + b.size <= c.addr \/ c.addr + c.size <= b.addr
  <2> DEFINE y == Hdr(c)
             z == m[y + 2]
  <2>1. c.addr \in Int /\ c.size \in Int /\ c.size + 5 <= z /\ y = c.addr - 3
    BY <1>2 DEF BlockAt, Hdr, H
  <2>2. y \in Int /\ z \in Int /\ (x < y => x + s <= y) /\ (y < x => y + z <= x)
    BY <1>1, <1>2 DEF Tiles
  <2>3. x # y
    BY <1>6
  <2> HIDE DEF x, y, s, z
  <2> QED  BY <1>3, <1>4, <2>1, <2>2, <2>3
<1> HIDE DEF s
<1>7. Start < b.addr /\ b.addr + b.size < HeapMax
  <2> HIDE DEF x
  <2> QED  BY <1>3, <1>4, <1>5
<1> QED  BY <1>3, <1>6, <1>7 DEF BlockWithin

\* A step of the heap up to the first defect takes a block that is apart from
\* all others, gives one back, or does neither.
LEMMA AllocatorStep ==
  ASSUME heapInv, [khNext]_khVars, defect' = "none"
  PROVE  Client!allocNext \/ UNCHANGED Blocks
<1> DEFINE B(c) == [addr |-> c.addr, size |-> c.size]
<1>1. ASSUME live' = live  PROVE UNCHANGED Blocks
  BY <1>1 DEF Blocks
<1>2. Blocks = {B(c) : c \in live}
  BY DEF Blocks
<1>3. CASE AllocBlock
  <2>1. mode' = "run" \/ live' = live
    BY <1>3 DEF AllocBlock
  <2>2. CASE live' = live
    BY <1>1, <2>2
  <2>3. CASE mode' = "run"
    <3>1. Sound'
      BY <2>3 DEF Sound
    <3>2. Sound /\ request # None
      BY <1>3, <3>1, BlockOutcome
    <3>3. PICK h, HD, b : BlockMade(h, HD, b)
      BY <1>3, <3>1, BlockOutcome
    <3>4. /\ Layout(SetOf(index'), live', mem', Start, end')
          /\ \A c \in live : Hdr(c) # Hdr(b)
          /\ b.addr \in Int
      BY <3>2, <3>3, BlockLayout
    <3>5. b.size = request.size /\ live' = live \cup {b} /\ end' = end
      BY <3>3 DEF BlockMade
    <3>6. request \in Requests /\ request.size \in Int /\ request.size >= 1
      BY <3>2, Asked DEF heapInv
    <3>7. end \in Int /\ end <= HeapMax /\ Start \in Int /\ HeapMax \in Int
      BY <3>2, WordFacts, Sizes32
    <3>8. /\ Start < b.addr /\ b.addr + b.size < HeapMax
          /\ \A c \in live : b.addr + b.size <= c.addr \/ c.addr + c.size <= b.addr
      <4>1. BlockWithin(b, {c \in live' : Hdr(c) # Hdr(b)})
        <5>1. Layout(SetOf(index'), live', mem', Start, end') /\ b \in live'
          BY <3>4, <3>5
        <5>2. end' \in Int /\ end' <= HeapMax
          BY <3>5, <3>7
        <5> QED  BY <5>1, <5>2, BlockIsWithin
      <4>2. \A c \in live : c \in {d \in live' : Hdr(d) # Hdr(b)}
        BY <3>4, <3>5
      <4> QED  BY <4>1, <4>2 DEF BlockWithin
    <3>9. Blocks' = Blocks \cup {B(b)}
      BY <1>2, <3>5 DEF Blocks
    <3>10. B(b) \in Client!Block
      <4>1. b.addr \in Start .. HeapMax - 1
        BY <3>4, <3>5, <3>6, <3>7, <3>8
      <4>2. b.size \in {q.size : q \in Requests}
        BY <3>5, <3>6
      <4> QED  BY <4>1, <4>2 DEF Client!Block
    <3>11. Client!Words(B(b)) \subseteq Start .. HeapMax - 1
      <4>1. Client!Words(B(b)) = b.addr .. b.addr + b.size - 1
        BY DEF Client!Words
      <4> QED  BY <3>4, <3>5, <3>6, <3>7, <3>8, <4>1
    <3>12. ASSUME NEW d \in Blocks  PROVE Client!Apart(B(b), d)
      <4>1. PICK c \in live : d = B(c)
        BY <1>2
      <4>2. d.addr = c.addr /\ d.size = c.size
        BY <4>1
      <4>3. b.addr + b.size <= c.addr \/ c.addr + c.size <= b.addr
        BY <3>8
      <4> QED  BY <4>2, <4>3 DEF Client!Apart
    <3>13. Client!Take(B(b))
      BY <3>9, <3>10, <3>11, <3>12 DEF Client!Take
    <3> QED  BY <3>9, <3>13 DEF Client!allocNext
  <2> QED  BY <2>1, <2>2, <2>3
<1>4. CASE AllocExpand
  BY <1>1, <1>4 DEF AllocExpand
<1>5. ASSUME NEW q \in Requests, Call(q)  PROVE UNCHANGED Blocks
  BY <1>1, <1>5 DEF Call
<1>6. ASSUME NEW b \in live, Write(b)  PROVE UNCHANGED Blocks
  <2> DEFINE w == [addr |-> b.addr, size |-> b.size, written |-> TRUE]
  <2>1. live' = (live \ {b}) \cup {w}
    BY <1>6 DEF Write
  <2>2. B(w) = B(b)
    OBVIOUS
  <2> HIDE DEF w
  <2>3. {B(c) : c \in live'} = {B(c) : c \in live}
    BY <2>1, <2>2
  <2> QED  BY <2>3 DEF Blocks
<1>7. ASSUME NEW b \in live, Free(b)  PROVE Client!allocNext
  <2>1. mode = "run" /\ live' = live \ {b}
    BY <1>7 DEF Free
  <2>2. defect = "none"
    BY <1>7, FreeKeepsEnd
  <2>3. Sound
    BY <2>1, <2>2 DEF Sound
  <2>4. ASSUME NEW c \in live, c # b  PROVE B(c) # B(b)
    <3>1. Layout(SetOf(index), live, mem, Start, end)
      BY <2>3, WordFacts
    <3>2. Hdr(c) # Hdr(b)
      BY <2>4, <3>1 DEF Layout
    <3>3. c.addr # b.addr
      BY <3>2 DEF Hdr
    <3>4. B(c).addr = c.addr /\ B(b).addr = b.addr
      OBVIOUS
    <3> QED  BY <3>3, <3>4
  <2>5. Blocks' = Blocks \ {B(b)} /\ B(b) \in Blocks
    <3>1. Blocks' = {B(c) : c \in live \ {b}}
      BY <2>1 DEF Blocks
    <3> HIDE DEF B
    <3> QED  BY <1>2, <2>4, <3>1
  <2>6. Client!Give(B(b))
    BY <2>5 DEF Client!Give
  <2> QED  BY <2>5, <2>6 DEF Client!allocNext
<1>8. CASE UNCHANGED khVars
  BY <1>1, <1>8 DEF khVars
<1> QED  BY <1>3, <1>4, <1>5, <1>6, <1>7, <1>8 DEF khNext, alloc

\* The heap is an allocator up to its first defect: what alloc hands out lies in
\* the heap and apart from every block that is still in a client's hands.
THEOREM HeapAllocates == khSpec => RefinesAllocator
<1>1. khInit => Client!allocInit
  BY DEF khInit, Client!allocInit, Blocks
<1>2. heapInv /\ [khNext]_khVars => [defect' = "none" => Client!allocNext]_Blocks
  BY AllocatorStep
<1> QED  BY <1>1, <1>2, HeapLayout, PTL DEF khSpec, RefinesAllocator

\* After an expansion the hole at the end takes the request, unless words in
\* front of it are left to align it and there was no hole before.
LEMMA GrownFits ==
  ASSUME heapInv, Sound, request # None, NEW h \in Int, NEW g \in Int, Grown(h, g),
         request.align => index # <<>>
  PROVE  \E i \in 1 .. Len(index') :
           Fits(mem', index'[i], request.size + Overhead, request.align)
<1> DEFINE n == request.size
           e == end'
<1>1. /\ request.align \in BOOLEAN /\ n \in Int /\ n >= 1
  BY Asked DEF heapInv
<1>2. /\ mem'[h + 2] = g /\ h + g = e /\ e > end + (n + 5) /\ 5 <= g
      /\ e \in Int /\ e <= HeapMax
      /\ \/ index = <<>> /\ h = end /\ index' = <<h>>
         \/ h \in SetOf(index) /\ h + mem[h + 2] = end /\ index' = index
  BY DEF Grown
<1>3. /\ end \in Int /\ Start + MinSize <= end /\ Start \in Int /\ MinSize \in Int /\ Page \in Int
      /\ HeapMax \in Int /\ Start >= Page /\ Page > 5 /\ MinSize >= 0
  BY WordFacts, Sizes32
<1>4. Start <= h /\ h <= end
  <2>1. CASE h = end
    BY <1>3, <2>1
  <2>2. CASE h \in SetOf(index)
    <3>1. h \in Int /\ Start <= h /\ mem[h + 2] \in Int /\ 5 <= mem[h + 2] /\ h + mem[h + 2] <= end
      BY <2>2, HoleFacts
    <3> QED  BY <1>3, <3>1
  <2> QED  BY <1>2, <2>1, <2>2
<1>5. \E i \in 1 .. Len(index') : index'[i] = h
  <2>1. CASE index' = <<h>>
    <3>1. 1 \in 1 .. Len(index') /\ index'[1] = h
      BY <2>1
    <3> QED  BY <3>1
  <2>2. CASE h \in SetOf(index) /\ index' = index
    BY <2>2 DEF SetOf
  <2> QED  BY <1>2, <2>1, <2>2
<1> HIDE DEF n, e
<1>6. SizeAt(mem', h) = g
  <2>1. 0 <= h /\ h + 2 < HeapMax
    BY <1>2, <1>3, <1>4
  <2> QED  BY <1>2, <2>1, Reads
<1>7. g >= n + 5
  BY <1>1, <1>2, <1>3, <1>4
<1>8. CASE request.align = FALSE
  <2>1. Fits(mem', h, n + Overhead, FALSE)
    BY <1>1, <1>6, <1>7 DEF Fits, Overhead, H, F
  <2> QED  BY <1>5, <1>8, <2>1 DEF n
<1>9. CASE request.align = TRUE
  <2>1. h \in SetOf(index) /\ h + mem[h + 2] = end
    <3>1. index # <<>>
      BY <1>9
    <3> QED  BY <1>2, <3>1
  <2>2. mem[h + 2] \in Int /\ 5 <= mem[h + 2]
    BY <2>1, HoleFacts
  <2> DEFINE r == (h + H) % Page
             offset == IF h + H >= Page THEN Page - ((h + H) % Page) ELSE 0
  <2>3. h + 5 <= end /\ h + H >= Page
    BY <1>3, <1>4, <2>1, <2>2 DEF H
  <2>4. offset = Page - r
    BY <2>3
  <2>5. h + 3 + offset <= end /\ offset \in Int
    <3>1. Paged(end)
      BY DEF heapInv, wordsInv, Paged
    <3>2. PICK p \in Int : end = Page * p
      BY <1>3, <3>1, Sizes32 DEF Paged
    <3> DEFINE k == h + 3
               q == k \div Page
    <3>3. k \in Int /\ k + 2 <= end
      BY <2>3
    <3>4. r = k % Page
      BY DEF H
    <3> HIDE DEF k, r, offset
    <3>5. k = Page * q + (k % Page) /\ k % Page \in 0 .. Page - 1 /\ q \in Int
      <4>1. k \in Int /\ Page \in Int /\ Page > 0
        BY <1>3, <3>3
      <4> QED  BY <4>1
    <3> HIDE DEF q
    <3>6. r \in Int /\ r >= 0 /\ k = Page * q + r
      BY <3>4, <3>5, <1>3
    <3>7. Page * q < Page * p
      BY <1>3, <3>2, <3>3, <3>5, <3>6
    <3>8. q < p
      BY <1>3, <3>2, <3>5, <3>7
    <3>9. Page * (q + 1) <= Page * p
      BY <1>3, <3>2, <3>5, <3>8
    <3>10. Page * (q + 1) = Page * q + Page
      BY <1>3, <3>5
    <3>11. Page * q \in Int
      BY <1>3, <3>5
    <3>12. k + (Page - r) <= end
      BY <1>3, <3>2, <3>6, <3>9, <3>10, <3>11
    <3> QED  BY <1>3, <2>4, <3>6, <3>12 DEF k
  <2> HIDE DEF offset
  <2>6. g - offset >= n + 5
    BY <1>1, <1>2, <1>3, <1>4, <2>5
  <2>7. Signed(g) = g
    <3>1. 2 ^ (Bits - 1) \in Nat /\ HeapMax - Start < 2 ^ (Bits - 1)
      BY HeapAssumption
    <3> DEFINE w == 2 ^ (Bits - 1)
    <3>2. Signed(g) = IF g >= w THEN g - 2 ^ Bits ELSE g
      BY DEF Signed
    <3> HIDE DEF w
    <3>3. ~(g >= w)
      BY <1>2, <1>3, <1>4, <3>1 DEF w
    <3> QED  BY <3>2, <3>3
  <2>8. Signed(SizeAt(mem', h)) - offset >= n + Overhead
    BY <1>6, <2>6, <2>7 DEF Overhead, H, F
  <2>9. Fits(mem', h, n + Overhead, TRUE)
    BY <2>8 DEF Fits, offset
  <2> QED  BY <1>5, <1>9, <2>9 DEF n
<1> QED  BY <1>1, <1>8, <1>9

\* One expansion is enough for the request, up to the first defect: alloc calls
\* itself once, or an aligned request in a heap without a hole perhaps twice.
THEOREM OneExpansion == khSpec => ExpandsOnce
<1> DEFINE A == end' > end /\ defect' = "none" /\ (request.align => index # <<>>) =>
                  \E i \in 1 .. Len(index') :
                    Fits(mem', index'[i], request.size + Overhead, request.align)
<1>1. heapInv /\ [khNext]_khVars => [A]_khVars
  <2> SUFFICES ASSUME heapInv, khNext, end' > end, defect' = "none",
                      request.align => index # <<>>
               PROVE  \E i \in 1 .. Len(index') :
                        Fits(mem', index'[i], request.size + Overhead, request.align)
    OBVIOUS
  <2>1. ASSUME mode = "run", defect = "none"  PROVE end' # end
    <3>1. end \in Int
      BY <2>1, WordFacts DEF Sound
    <3> QED  BY <3>1
  <2>2. AllocExpand
    <3>1. ~AllocBlock
      <4> SUFFICES ASSUME AllocBlock  PROVE FALSE
        OBVIOUS
      <4>1. mode = "run" /\ end' = end /\ defect = "none"
        BY DEF AllocBlock, First
      <4> QED  BY <2>1, <4>1
    <3>2. ASSUME NEW r \in Requests, Call(r)  PROVE FALSE
      <4>1. mode = "run" /\ end' = end /\ defect = "none"
        BY <3>2 DEF Call
      <4> QED  BY <2>1, <4>1
    <3>3. ASSUME NEW b \in live, Write(b)  PROVE FALSE
      <4>1. mode = "run" /\ end' = end /\ defect = "none"
        BY <3>3 DEF Write
      <4> QED  BY <2>1, <4>1
    <3>4. ASSUME NEW b \in live, Free(b)  PROVE FALSE
      BY <3>4, FreeKeepsEnd
    <3> QED  BY <3>1, <3>2, <3>3, <3>4 DEF khNext, alloc
  <2>3. Sound'
    <3>1. mode = "run" /\ defect = "none"
      BY <2>2 DEF AllocExpand, First
    <3>2. mode' = "run"
      <4>1. end' = end \/ mode' = mode
        BY <2>2 DEF AllocExpand
      <4> QED  BY <2>1, <3>1, <4>1
    <3> QED  BY <3>2 DEF Sound
  <2>4. Sound /\ request # None
    BY <2>2, <2>3, ExpandOutcome
  <2>5. PICK h \in Int, g \in Int : Grown(h, g)
    BY <2>2, <2>3, ExpandOutcome
  <2> QED  BY <2>4, <2>5, GrownFits
<1> QED  BY <1>1, HeapLayout, PTL DEF khSpec, ExpandsOnce

\* insert_ordered_array (ordered_array.c:38-59) keeps the items in order, for
\* every array that is in order by the sizes as they are at the call.
THEOREM InsertKeepsOrder ==
  ASSUME NEW S, NEW array \in Seq(S), NEW item \in S, NEW key \in [S -> Int],
         InOrder(array, key)
  PROVE  InOrder(insert_ordered_array(item, array, key), key)
<1> DEFINE n == Len(array)
           p == InsertAt(item, array, key)
           new == insert_ordered_array(item, array, key)
<1>1. /\ p \in 1 .. n + 1 /\ new \in Seq(S) /\ Len(new) = n + 1
      /\ new[p] = item
      /\ \A i \in 1 .. p - 1 : new[i] = array[i]
      /\ \A i \in p + 1 .. n + 1 : new[i] = array[i - 1]
  BY InsertPlaces
<1>2. /\ p <= n => ~(key[array[p]] < key[item])
      /\ \A j \in 1 .. p - 1 : key[array[j]] < key[item]
  BY InsertStops
<1>3. n \in Nat /\ \A i \in 1 .. n : key[array[i]] \in Int
  OBVIOUS
<1>4. \A i, j \in 1 .. n : i < j => key[array[i]] <= key[array[j]]
  BY DEF InOrder
<1>5. key[item] \in Int
  OBVIOUS
<1> HIDE DEF n, p, new
<1>6. ASSUME NEW i \in 1 .. n, i >= p  PROVE key[item] <= key[array[i]]
  <2>1. p \in 1 .. n /\ key[array[p]] \in Int /\ key[array[i]] \in Int
    BY <1>1, <1>3, <1>6
  <2>2. key[item] <= key[array[p]]
    BY <1>2, <1>5, <2>1
  <2>3. CASE i = p
    BY <2>2, <2>3
  <2>4. CASE i > p
    <3>1. key[array[p]] <= key[array[i]]
      BY <1>4, <2>1, <2>4
    <3> QED  BY <1>5, <2>1, <2>2, <3>1
  <2> QED  BY <1>6, <2>1, <2>3, <2>4
<1>7. ASSUME NEW i \in 1 .. n + 1, NEW j \in 1 .. n + 1, i < j
      PROVE  key[new[i]] <= key[new[j]]
  <2>1. CASE j < p
    <3>1. i \in 1 .. p - 1 /\ j \in 1 .. p - 1 /\ i \in 1 .. n /\ j \in 1 .. n
      BY <1>1, <1>3, <1>7, <2>1
    <3>2. new[i] = array[i] /\ new[j] = array[j]
      BY <1>1, <3>1
    <3>3. key[array[i]] <= key[array[j]]
      BY <1>4, <1>7, <3>1
    <3> QED  BY <3>2, <3>3
  <2>2. CASE j = p
    <3>1. i \in 1 .. p - 1 /\ i \in 1 .. n
      BY <1>1, <1>3, <1>7, <2>2
    <3>2. new[i] = array[i] /\ new[j] = item
      BY <1>1, <2>2, <3>1
    <3>3. key[array[i]] < key[item] /\ key[array[i]] \in Int
      BY <1>2, <1>3, <3>1
    <3> QED  BY <1>5, <3>2, <3>3
  <2>3. CASE j > p
    <3>1. j \in p + 1 .. n + 1 /\ j - 1 \in 1 .. n /\ j - 1 >= p
      BY <1>1, <1>3, <2>3
    <3>2. new[j] = array[j - 1]
      BY <1>1, <3>1
    <3>3. key[item] <= key[array[j - 1]] /\ key[array[j - 1]] \in Int
      BY <1>3, <1>6, <3>1
    <3>4. CASE i < p
      <4>1. i \in 1 .. p - 1 /\ i \in 1 .. n
        BY <1>1, <1>3, <3>4
      <4>2. new[i] = array[i] /\ key[array[i]] < key[item] /\ key[array[i]] \in Int
        BY <1>1, <1>2, <1>3, <4>1
      <4> QED  BY <1>5, <3>2, <3>3, <4>2
    <3>5. CASE i = p
      BY <1>1, <3>2, <3>3, <3>5
    <3>6. CASE i > p
      <4>1. i \in p + 1 .. n + 1 /\ i - 1 \in 1 .. n /\ i - 1 < j - 1
        BY <1>1, <1>3, <1>7, <3>6
      <4>2. new[i] = array[i - 1]
        BY <1>1, <4>1
      <4>3. key[array[i - 1]] <= key[array[j - 1]]
        BY <1>4, <3>1, <4>1
      <4> QED  BY <3>2, <4>2, <4>3
    <3>7. i \in Int /\ p \in Int
      BY <1>1
    <3> QED  BY <3>4, <3>5, <3>6, <3>7
  <2>4. j \in Int /\ p \in Int
    BY <1>1
  <2> QED  BY <2>1, <2>2, <2>3, <2>4
<1>8. InOrder(new, key)
  BY <1>1, <1>7 DEF InOrder
<1> QED  BY <1>8 DEF new

\* insert_ordered_array loses and duplicates nothing, in order or not: without
\* the new item the array is what it was (ordered_array.c:38-75).
THEOREM RemoveUndoesInsert ==
  ASSUME NEW S, NEW array \in Seq(S), NEW item \in S, NEW key
  PROVE  remove_ordered_array(InsertAt(item, array, key),
                              insert_ordered_array(item, array, key)) = array
<1> DEFINE n == Len(array)
           p == InsertAt(item, array, key)
           new == insert_ordered_array(item, array, key)
           old == remove_ordered_array(p, new)
<1>1. /\ p \in 1 .. n + 1 /\ new \in Seq(S) /\ Len(new) = n + 1
      /\ \A i \in 1 .. p - 1 : new[i] = array[i]
      /\ \A i \in p + 1 .. n + 1 : new[i] = array[i - 1]
  BY InsertPlaces
<1>2. n \in Nat
  OBVIOUS
<1> HIDE DEF p, new
<1> DEFINE front == SubSeq(new, 1, p - 1)
           back == SubSeq(new, p + 1, Len(new))
<1>3. old = front \o back
  BY DEF remove_ordered_array
<1> HIDE DEF n, old
<1>4. /\ front \in Seq(S) /\ Len(front) = p - 1
      /\ \A i \in 1 .. p - 1 : front[i] = new[i]
  BY <1>1, <1>2
<1>5. /\ back \in Seq(S) /\ Len(back) = (n + 1) - p
      /\ \A i \in 1 .. (n + 1) - p : back[i] = new[p + i]
  BY <1>1, <1>2
<1> HIDE DEF front, back
<1>6. old \in Seq(S) /\ Len(old) = n
  <2>1. Len(front) + Len(back) = n
    BY <1>1, <1>2, <1>4, <1>5
  <2>2. front \in Seq(S) /\ back \in Seq(S)
    BY <1>4, <1>5
  <2>3. front \o back \in Seq(S) /\ Len(front \o back) = Len(front) + Len(back)
    BY <2>2
  <2> QED  BY <1>3, <2>1, <2>3
<1>7. ASSUME NEW i \in 1 .. n  PROVE old[i] = array[i]
  <2>1. CASE i < p
    <3>1. i \in 1 .. p - 1
      BY <1>1, <2>1
    <3>2. old[i] = front[i]
      BY <1>1, <1>3, <1>4, <1>5, <3>1
    <3> QED  BY <1>1, <1>4, <3>1, <3>2
  <2>2. CASE ~(i < p)
    <3> DEFINE k == (i + 1) - p
    <3>1. k \in 1 .. (n + 1) - p /\ p + k = i + 1 /\ i + 1 \in p + 1 .. n + 1
      BY <1>1, <1>2, <2>2
    <3>2. old[i] = back[k]
      BY <1>1, <1>2, <1>3, <1>4, <1>5, <2>2
    <3> HIDE DEF k
    <3>3. back[k] = new[p + k] /\ new[i + 1] = array[(i + 1) - 1]
      BY <1>1, <1>5, <3>1
    <3>4. (i + 1) - 1 = i
      OBVIOUS
    <3> QED  BY <3>1, <3>2, <3>3, <3>4
  <2> QED  BY <2>1, <2>2
<1>8. old = array
  BY <1>6, <1>7 DEF n
<1> QED  BY <1>8 DEF old, p, new

\* While the index is in order by the sizes that the headers hold, what
\* find_smallest_hole (kheap.c:87-112) returns for a request without alignment
\* is a smallest hole that the request fits in.  free and alloc also change
\* sizes in place (kheap.c:216, 316), after which the premise may fail.
THEOREM FoundIsSmallest ==
  ASSUME NEW need \in Int, mem \in [Mapped -> Int], index \in Seq(Mapped),
         InOrder(index, [a \in Mapped |-> SizeAt(mem, a)]),
         Fitting(need, FALSE) # {}
  PROVE  LET i == find_smallest_hole(need, FALSE)
         IN /\ i \in Fitting(need, FALSE)
            /\ \A j \in Fitting(need, FALSE) :
                 SizeAt(mem, index[i]) <= SizeAt(mem, index[j])
<1> DEFINE T == Fitting(need, FALSE)
           i == find_smallest_hole(need, FALSE)
           size == [a \in Mapped |-> SizeAt(mem, a)]
<1>1. T \subseteq 1 .. Len(index) /\ T \subseteq Nat /\ T # {}
  <2>1. T \subseteq 1 .. Len(index)
    BY DEF Fitting
  <2> HIDE DEF T
  <2>2. T # {}
    BY DEF T
  <2> QED  BY <2>1, <2>2
<1> HIDE DEF T
<1>2. \E k \in T : \A j \in T : k <= j
  BY <1>1, LeastExists
<1>3. i = CHOOSE k \in T : \A j \in T : k <= j
  BY DEF find_smallest_hole, T
<1>4. i \in T /\ \A j \in T : i <= j
  BY <1>2, <1>3
<1> HIDE DEF i
<1>5. ASSUME NEW j \in T  PROVE SizeAt(mem, index[i]) <= SizeAt(mem, index[j])
  <2>1. /\ i \in 1 .. Len(index) /\ j \in 1 .. Len(index) /\ i <= j
        /\ index[i] \in Mapped /\ index[j] \in Mapped
    BY <1>1, <1>4
  <2>2. size[index[i]] = SizeAt(mem, index[i]) /\ size[index[j]] = SizeAt(mem, index[j])
    BY <2>1
  <2>3. CASE i < j
    <3>1. size[index[i]] <= size[index[j]]
      BY <2>1, <2>3 DEF InOrder
    <3> QED  BY <2>2, <3>1
  <2>4. CASE i = j
    <3>1. \A a : Word(mem, a) \in Int
      BY DEF Word
    <3>2. SizeAt(mem, index[i]) \in Int
      BY <3>1 DEF SizeAt
    <3> QED  BY <2>4, <3>2
  <2> QED  BY <2>1, <2>3, <2>4
<1> QED  BY <1>4, <1>5 DEF i, T

=============================================================================
