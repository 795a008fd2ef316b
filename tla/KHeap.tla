------------------------------- MODULE KHeap -------------------------------
(***************************************************************************)
(* The kernel heap (kernel/kheap.c:34-371): holes and blocks in memory,    *)
(* each with a header in front and a footer behind, and an ordered index   *)
(* of the holes.  alloc splits holes and expands the heap; free unifies    *)
(* neighbouring holes and contracts it.                                    *)
(*                                                                         *)
(* Memory is modelled word by word, so that a stale or overlapping header  *)
(* or footer is read as the code would read it; a word of 32 bits is one   *)
(* unit of size, and addresses and sizes are computed modulo 2^Bits.  The  *)
(* addresses from 0 to HeapMax - 1 are mapped (heap_install maps the whole *)
(* heap area); the others are not, and a touch of one ends in a panic.     *)
(* The clients are external: they free what they got, once and in any      *)
(* order, and write only to words they own.                                *)
(*                                                                         *)
(* The code gets four situations wrong.  Each is recognised where it       *)
(* arises and its name kept in the history variable defect, which no       *)
(* action reads; the model goes on as the code does.                       *)
(***************************************************************************)
EXTENDS OrderedArray, FiniteSets

CONSTANTS
  Page,        \* words per page (PAGE_SIZE)
  Bits,        \* width of an address
  Start,       \* heap->start_address
  InitialEnd,  \* end_address of a new heap
  HeapMax,     \* heap->max_address
  MinSize,     \* HEAP_MIN_SIZE
  Requests,    \* what clients ask for: [size, align]
  MaxBlocks    \* blocks in use at one time

H == 3         \* words of a header_t: magic, is_hole, size
F == 2         \* words of a footer_t: magic, header
Overhead == H + F
MAGIC == -1    \* HEAP_MAGIC, which neither garbage nor client data equals
DATA == -2     \* any word a client wrote

ASSUME HeapAssumption ==
  /\ Page \in Nat /\ Page > Overhead
  /\ Bits \in Nat /\ 2 ^ Bits \in Nat /\ HeapMax < 2 ^ Bits
  /\ 2 ^ (Bits - 1) \in Nat /\ HeapMax - Start < 2 ^ (Bits - 1)
  /\ {Start, InitialEnd, HeapMax, MinSize} \subseteq {Page * n : n \in 1 .. HeapMax}
  /\ Start + MinSize <= InitialEnd /\ InitialEnd <= HeapMax
  /\ MinSize >= 2 * Page
  /\ Requests \subseteq [size : 1 .. HeapMax, align : BOOLEAN]
  /\ MaxBlocks \in Nat

VARIABLES
  mem,      \* the words of the mapped addresses
  index,    \* heap->index: header addresses of the holes
  end,      \* heap->end_address
  live,     \* the blocks in clients' hands: [addr, size, written]
  request,  \* the call of alloc in progress, or None
  mode,     \* "run", or how the kernel stopped: "panic" or "undefined"
  defect    \* the first situation the code got wrong, or "none"

khVars == <<mem, index, end, live, request, mode, defect>>

Defects == {"cramped", "expand", "footer", "contract"}

\* The defect after an event: the first one is kept.
First(before, event, name) == IF before = "none" /\ event THEN name ELSE before

None == [size |-> 0, align |-> FALSE]

-----------------------------------------------------------------------------
(* Machine words.                                                          *)

U(n) == n % (2 ^ Bits)
Signed(n) == IF n >= 2 ^ (Bits - 1) THEN n - 2 ^ Bits ELSE n

Mapped == 0 .. HeapMax - 1
Word(m, a) == IF a \in Mapped THEN m[a] ELSE 0

IsMagic(m, a) == Word(m, a) = MAGIC
IsHole(m, h) == Word(m, U(h + 1)) # 0    \* a pointer's low byte counts as set
SizeAt(m, h) == Word(m, U(h + 2))

PutSize(m, h, size) == [m EXCEPT ![U(h + 2)] = size]
PutHeader(m, h, hole, size) ==
  [m EXCEPT ![h] = MAGIC, ![U(h + 1)] = hole, ![U(h + 2)] = size]
PutFooter(m, f, h) == [m EXCEPT ![f] = MAGIC, ![U(f + 1)] = h]

FooterOf(m, h) == U(h + SizeAt(m, h) - F)

\* Insertion by header_t_less_than, on the sizes as they are in memory now.
Insert(h, array, m) ==
  insert_ordered_array(h, array, [a \in 0 .. 2 ^ Bits - 1 |-> SizeAt(m, a)])

-----------------------------------------------------------------------------
(* alloc.                                                                  *)

\* Fault variant of Fits: room for the block's footer is forgotten.
Fits_no_footer(m, h, need, align) == SizeAt(m, h) >= need - F

\* Does the hole at h take need words?  To align, at least one word and at
\* most a page is left in front.
Fits(m, h, need, align) ==
  IF align
  THEN LET offset == IF h + H >= Page THEN Page - ((h + H) % Page) ELSE 0
       IN Signed(SizeAt(m, h)) - offset >= need
  ELSE SizeAt(m, h) >= need

Fitting(need, align) ==
  {i \in 1 .. Len(index) : Fits(mem, index[i], need, align)}

find_smallest_hole(need, align) ==
  CHOOSE i \in Fitting(need, align) : \A j \in Fitting(need, align) : i <= j

\* A hole taken from the index: too small a rest is added to the block.
TakeHole(i, size) ==
  LET pos == index[i]
      hole == SizeAt(mem, pos)
      rest == U(hole - (size + Overhead))
      extra == IF rest < Overhead THEN rest ELSE 0
  IN [mem |-> mem, index |-> index, i |-> i, pos |-> pos, hole |-> hole,
      size |-> size + extra, touched |-> {pos}]

\* Fault variant of SplitFront: the hole that is used up stays in the index.
SplitFront_kept(t, align) == t

\* To page-align the block, the words in front of it stay a hole, in its place
\* in the index; its size is read back from memory.
SplitFront(t, align) ==
  IF align /\ t.pos >= Page
  THEN LET front == U(Page - (t.pos % Page) - H)
           loc == U(t.pos + front)
           m == PutFooter(PutHeader(t.mem, t.pos, 1, front), U(loc - F), t.pos)
       IN [t EXCEPT !.mem = m, !.pos = loc, !.hole = U(t.hole - SizeAt(m, t.pos)),
                    !.touched = @ \cup {U(loc - F), loc}]
  ELSE [t EXCEPT !.index = remove_ordered_array(t.i, @)]

WriteBlock(t) ==
  LET footer == U(t.pos + H + t.size)
  IN [t EXCEPT !.mem = PutFooter(PutHeader(@, t.pos, 0, t.size + Overhead),
                                 footer, t.pos),
               !.touched = @ \cup {footer, U(footer + 1)}]

\* What is left behind the block becomes a hole of its own.
SplitRest(t) ==
  LET rest == U(t.hole - (t.size + Overhead))
      h == U(t.pos + t.size + Overhead)
      footer == U(h + rest - F)
      m1 == PutHeader(t.mem, h, 1, rest)
      m2 == IF footer < end THEN PutFooter(m1, footer, h) ELSE m1
  IN IF rest = 0 THEN t
     ELSE [t EXCEPT !.mem = m2,
                    !.index = Insert(h, @, m2),
                    !.touched = @ \cup {h, U(h + 2)}
                                  \cup (IF footer < end THEN {footer} ELSE {})]

\* Defect "cramped": the words in front of an aligned block, or those left
\* behind it, are too few for a hole's header and footer.
Cramped(h, need) ==
  LET front == Page - (h % Page) - H
      rest == SizeAt(mem, h) - front - need
  IN front < Overhead \/ rest \in 1 .. Overhead - 1

\* The part of alloc after a hole was found; the block goes to the client.
AllocBlock ==
  LET need == request.size + Overhead
      i == find_smallest_hole(need, request.align)
      t == SplitRest(WriteBlock(SplitFront(
             TakeHole(i, request.size), request.align)))
  IN /\ mode = "run" /\ request # None
     /\ Fitting(need, request.align) # {}
     /\ IF t.touched \subseteq Mapped
        THEN /\ mem' = t.mem
             /\ index' = t.index
             /\ live' = live \cup {[addr |-> t.pos + H, size |-> request.size,
                                    written |-> FALSE]}
             /\ request' = None
             /\ UNCHANGED mode
        ELSE mode' = "panic" /\ UNCHANGED <<mem, index, live, request>>
     /\ defect' = First(defect, request.align /\ Cramped(index[i], need), "cramped")
     /\ UNCHANGED end

\* Fault variant of ExpandedSize: the page boundary before.
ExpandedSize_down(size) == IF size >= Page THEN (size \div Page) * Page ELSE size

\* expand: the next page boundary, always one further than needed.
ExpandedSize(size) == IF size >= Page THEN (size \div Page + 1) * Page ELSE size

Endmost == CHOOSE h \in {index[i] : i \in 1 .. Len(index)} :
             \A i \in 1 .. Len(index) : index[i] <= h

\* The part of alloc after no hole was found: the heap expands, the hole with
\* the highest address takes the new words, and alloc calls itself.
\* Defect "expand": that hole is not at the end of the heap, and the words it
\* grows over are others'.
AllocExpand ==
  LET need == request.size + Overhead
      size == ExpandedSize(end - Start + need)
      more == size - (end - Start)
      h == IF index = <<>> THEN end ELSE Endmost
      grown == IF index = <<>> THEN more ELSE U(SizeAt(mem, h) + more)
      m == IF index = <<>> THEN PutHeader(mem, h, 1, grown)
                           ELSE PutSize(mem, h, grown)
      footer == U(h + grown - F)
  IN /\ mode = "run" /\ request # None
     /\ Fitting(need, request.align) = {}
     /\ IF Start + size <= HeapMax /\ {h, U(h + 2), footer, U(footer + 1)} \subseteq Mapped
        THEN /\ end' = Start + size
             /\ mem' = PutFooter(m, footer, h)
             /\ index' = IF index = <<>> THEN <<h>> ELSE index
             /\ UNCHANGED <<request, mode>>
        ELSE mode' = "panic" /\ UNCHANGED <<end, mem, index, request>>
     /\ defect' = First(defect, index # <<>> /\ h + SizeAt(mem, h) # end, "expand")
     /\ UNCHANGED live

-----------------------------------------------------------------------------
(* free, in steps; a failed assertion or a page fault in one stops the     *)
(* kernel before the next.                                                 *)

MakeHole(h) ==
  [mem |-> [mem EXCEPT ![h + 1] = 1], index |-> index, end |-> end,
   header |-> h, footer |-> FooterOf(mem, h), test |-> 0, add |-> TRUE,
   mode |-> IF IsMagic(mem, h) /\ IsMagic(mem, FooterOf(mem, h)) THEN mode
                                                                 ELSE "panic",
   defect |-> defect]

\* Defect "footer": a hole ends in front of the chunk, and the footer there is
\* an old one that names another header.
Misnamed(t, h) ==
  \E i \in 1 .. Len(t.index) :
    t.index[i] # h /\ t.index[i] + SizeAt(t.mem, t.index[i]) = t.header

\* A word that a client wrote, read as a header or a pointer to one, may say
\* anything.
UnifyLeft(t) ==
  LET left == U(t.header - F)
      h == Word(t.mem, U(left + 1))
      hole == Word(t.mem, U(h + 1))
  IN IF t.mode # "run" \/ (left \in Mapped /\ ~IsMagic(t.mem, left)) THEN t
     ELSE IF h = DATA \/ hole = DATA THEN [t EXCEPT !.mode = "undefined"]
     ELSE IF \/ ~({left, U(left + 1), h, U(h + 1)} \subseteq Mapped)
             \/ hole = 1 /\ U(h + 2) \notin Mapped
     THEN [t EXCEPT !.mode = "panic"]
     ELSE IF hole = 1
     THEN [t EXCEPT !.header = h, !.add = FALSE,
                    !.mem = PutSize([@ EXCEPT ![U(t.footer + 1)] = h], h,
                                    U(SizeAt(@, h) + SizeAt(@, t.header))),
                    !.defect = First(@, Misnamed(t, h), "footer")]
     ELSE t

\* Fault variant of UnifyRight: the neighbour stays in the index.
UnifyRight_kept(t) ==
  LET right == U(t.footer + F)
  IN IF IsMagic(t.mem, right) /\ IsHole(t.mem, right)
     THEN [t EXCEPT !.mem = PutSize(@, t.header,
                                    U(SizeAt(@, t.header) + SizeAt(@, right))),
                    !.footer = FooterOf(t.mem, right), !.test = right]
     ELSE [t EXCEPT !.test = right]

\* The right neighbour's footer becomes this hole's footer without being
\* rewritten: it still points to the neighbour's header.
UnifyRight(t) ==
  LET right == U(t.footer + F)
      i == IndexOf(right, t.index)
  IN IF t.mode # "run" THEN t
     ELSE IF \/ right \notin Mapped
             \/ IsMagic(t.mem, right) /\ U(right + 1) \notin Mapped
             \/ IsMagic(t.mem, right) /\ IsHole(t.mem, right) /\ U(right + 2) \notin Mapped
     THEN [t EXCEPT !.mode = "panic"]
     ELSE IF IsMagic(t.mem, right) /\ IsHole(t.mem, right)
     THEN [t EXCEPT !.mem = PutSize(@, t.header,
                                    U(SizeAt(@, t.header) + SizeAt(@, right))),
                    !.footer = FooterOf(t.mem, right), !.test = right,
                    !.index = IF i # 0 THEN remove_ordered_array(i, @) ELSE @,
                    !.mode = IF i # 0 THEN @ ELSE "panic"]
     ELSE [t EXCEPT !.test = right]

\* contract's rounding: PAGE_SIZE where expand has 0xFFFFF000, so a size with
\* that bit set becomes two pages, and any other stays as it is.
ContractedSize(size) ==
  LET rounded == IF (size \div Page) % 2 = 1 THEN 2 * Page ELSE size
  IN IF rounded < MinSize THEN MinSize ELSE rounded

\* The pages that contract gives back; what they show afterwards is not what
\* the heap wrote there.
Unmapped(old, new) ==
  {a \in Mapped : \E k \in 1 .. old \div Page :
     /\ new < old - k * Page
     /\ a \div Page = (Start + old - k * Page) \div Page}

\* A hole at the end of the heap: contract the heap, then shorten the hole or
\* take it out of the index, where its right neighbour is looked for instead.
\* Defect "contract": the new end leaves the hole no room for its header and
\* footer.
Contract(t) ==
  LET old == t.end - Start
      new == ContractedSize(t.header - Start)
      lost == Unmapped(old, new)
      size == U(SizeAt(t.mem, t.header) - (old - new))
      m == [a \in Mapped |-> IF a \in lost THEN 0 ELSE t.mem[a]]
      i == IndexOf(t.test, t.index)
      s == [t EXCEPT !.end = Start + new,
                     !.defect = First(@, Start + new < t.header + Overhead, "contract")]
  IN IF t.mode # "run" \/ U(t.footer + F) # t.end THEN t
     ELSE IF t.header \in lost THEN [s EXCEPT !.mode = "undefined"]
     ELSE IF size # 0
     THEN [s EXCEPT !.mem = PutFooter(PutSize(m, t.header, size),
                                      U(t.header + size - F), t.header)]
     ELSE [s EXCEPT !.mem = m,
                    !.index = IF i # 0 THEN remove_ordered_array(i, @) ELSE @]

AddToIndex(t) ==
  IF t.mode = "run" /\ t.add
  THEN [t EXCEPT !.index = Insert(t.header, @, t.mem)]
  ELSE t

Free(b) ==
  LET t == AddToIndex(Contract(UnifyRight(UnifyLeft(MakeHole(b.addr - H)))))
  IN /\ mode = "run" /\ request = None
     /\ mem' = t.mem
     /\ index' = t.index
     /\ end' = t.end
     /\ mode' = t.mode
     /\ defect' = t.defect
     /\ live' = live \ {b}
     /\ UNCHANGED request

-----------------------------------------------------------------------------
(* The clients.                                                            *)

Call(r) ==
  /\ mode = "run" /\ request = None
  /\ Cardinality(live) < MaxBlocks
  /\ request' = r
  /\ UNCHANGED <<mem, index, end, live, mode, defect>>

Payload(b) == b.addr .. b.addr + b.size - 1

Write(b) ==
  /\ mode = "run"
  /\ ~b.written
  /\ mem' = [a \in Mapped |-> IF a \in Payload(b) THEN DATA ELSE mem[a]]
  /\ live' = (live \ {b}) \cup {[addr |-> b.addr, size |-> b.size, written |-> TRUE]}
  /\ UNCHANGED <<index, end, request, mode, defect>>

-----------------------------------------------------------------------------
\* create_heap: one hole, with no footer.
khInit ==
  /\ mem = PutHeader([a \in Mapped |-> 0], Start, 1, InitialEnd - Start)
  /\ index = <<Start>>
  /\ end = InitialEnd
  /\ live = {}
  /\ request = None
  /\ mode = "run"
  /\ defect = "none"

alloc == AllocBlock \/ AllocExpand

khNext ==
  \/ alloc
  \/ \E r \in Requests : Call(r)
  \/ \E b \in live : Free(b) \/ Write(b)

khSpec == khInit /\ [][khNext]_khVars

-----------------------------------------------------------------------------
(* Properties.                                                             *)

\* The heap works: the kernel runs, and none of the defects has come up.
Sound == mode = "run" /\ defect = "none"

khTypeOK ==
  /\ Sound => mem \in [Mapped -> -2 .. 2 ^ Bits - 1]
  /\ Sound => index \in Seq(Start .. end - 1)
  /\ Sound => end \in Start + MinSize .. HeapMax
  /\ Sound => live \subseteq [addr : Start .. end - 1, size : 1 .. HeapMax, written : BOOLEAN]
  /\ request \in Requests \cup {None}
  /\ mode \in {"run", "panic", "undefined"}
  /\ defect \in Defects \cup {"none"}

Blocks == {[addr |-> b.addr, size |-> b.size] : b \in live}

Client == INSTANCE Allocator WITH
  Space <- Start .. HeapMax - 1,
  Sizes <- {r.size : r \in Requests},
  blocks <- Blocks

\* Up to the first defect, alloc hands out words of the heap that no other
\* client has and free takes back one block, however holes were split, unified,
\* expanded and contracted before, and in whatever order blocks were freed.
RefinesAllocator ==
  Client!allocInit /\ [][defect' = "none" => Client!allocNext]_Blocks

\* The chunks of the heap: a hole for each item of the index, and the block
\* around each piece of memory in a client's hands, by their headers.
Chunks == {index[i] : i \in 1 .. Len(index)} \cup {b.addr - H : b \in live}

\* Up to the first defect, the chunks tile the heap from end to end: no word is
\* lost to both clients and index, and none is in two chunks.
HeapIsTiled ==
  Sound =>
    /\ Cardinality(Chunks) = Len(index) + Cardinality(live)
    /\ \A a \in Start .. end - 1 :
         Cardinality({h \in Chunks : h <= a /\ a < h + SizeAt(mem, h)}) = 1

\* Up to the first defect, what clients wrote stays: no header or footer is ever
\* put into their words, and contract unmaps none of them.
DataIsKept ==
  Sound =>
    \A b \in live : b.written => \A a \in Payload(b) : mem[a] = DATA


\* kheap.c:222, "We now have enough space. Recurse": up to the first defect one
\* expansion is enough, so alloc calls itself at most once; an aligned request
\* in a heap without a hole may take two.
ExpandsOnce ==
  [][end' > end /\ defect' = "none" /\ (request.align => index # <<>>) =>
       \E i \in 1 .. Len(index') :
         Fits(mem', index'[i], request.size + Overhead, request.align)]_khVars

\* kheap.c:72, "Don't contract too far!": the heap never ends before a block
\* that a client has; contract's own defect included, the others not.
BlocksBelowEnd ==
  defect \in {"none", "contract"} => \A b \in live : b.addr + b.size + F <= end
=============================================================================
