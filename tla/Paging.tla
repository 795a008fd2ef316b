------------------------------- MODULE Paging -------------------------------
(***************************************************************************)
(* Memory before there is a heap, and the pages under the heap: the        *)
(* placement allocator (kernel/mm.c), paging_init and the frame allocator  *)
(* (kernel/paging.c), heap_install (kernel/kheap.c:13-31), and the mapping *)
(* and unmapping of heap pages by expand and contract.                     *)
(*                                                                         *)
(* Addresses are counted in units, PageUnits to a page, so that an         *)
(* allocation can end inside a page.  Frames and pages are numbered; the   *)
(* numbers of the code scale down to the constants.  Once paging is on, a  *)
(* touch of a page that is not present is a page fault, which ends in      *)
(* kpanic.                                                                 *)
(***************************************************************************)
EXTENDS Integers, FiniteSets

CONSTANTS
  PageUnits,     \* units per page (PAGE_SIZE)
  TableSpan,     \* pages a page table maps (1024)
  Base,          \* page where placement starts (0x200000)
  MarginPages,   \* pages heap_install maps beyond placement (16)
  HeapStart,     \* first page of the heap area (KHEAP_START)
  HeapMax,       \* end of the heap area (KHEAP_MAX)
  InitialPages,  \* pages the heap starts with (KHEAP_INITIAL_SIZE)
  MinPages,      \* pages contract leaves it (HEAP_MIN_SIZE and the index)
  NFrames,       \* frames the bitmap is searched for
  ClearedBits,   \* bits that paging_init's memset clears
  FrameDivisor,  \* what clear_frame divides a frame number by (PAGE_SIZE, 4096)
  WildPages,     \* distance of the word that set_frame(ULONG_MAX) writes
  HeapShrinks    \* does the heap unmap pages?

ASSUME PagingAssumption ==
  /\ PageUnits \in Nat /\ PageUnits >= 2
  /\ TableSpan \in Nat /\ TableSpan >= 1
  /\ Base \in Nat /\ Base >= 1
  /\ MarginPages \in Nat
  /\ HeapStart \in Nat /\ HeapMax \in Nat /\ HeapStart < HeapMax
  /\ InitialPages \in 1 .. HeapMax - HeapStart
  /\ MinPages \in 0 .. InitialPages
  /\ NFrames \in Nat
  /\ ClearedBits \in 0 .. NFrames
  /\ FrameDivisor \in Nat /\ FrameDivisor >= 1
  /\ WildPages \in Nat
  /\ HeapShrinks \in BOOLEAN

\* The first page behind what boot maps to itself: placement starts at Base; the
\* bitmap, the directory and the first page table take five pages of it.
LowEnd == Base + 5 + MarginPages

\* The page tables of the heap area.
FirstTable == HeapStart \div TableSpan
LastTable == (HeapMax - 1) \div TableSpan

\* How the code's numbers lie (Base 512, MarginPages 16, TableSpan 1024, heap
\* area 4096 to 8190 and so four tables, WildPages 32): one page table holds all
\* that is mapped to itself; every further page table takes two pages of the
\* margin, the heap_t two more; memset clears the bits of the pages below LowEnd
\* (with at least 8.5 MB), and the wild write goes between them and the heap.
ASSUME LayoutAssumption ==
  /\ LowEnd <= TableSpan /\ TableSpan <= HeapStart
  /\ 2 * (LastTable - FirstTable + 1) + 2 <= MarginPages
  /\ LowEnd <= ClearedBits
  /\ Base + WildPages \in LowEnd .. HeapStart - 1

VARIABLES
  pc,          \* the loop or call kmain is in
  i,           \* the loop counter, an address
  placement,   \* placement_address
  frames,      \* the bitmap: frames whose bit is set
  tables,      \* page tables that exist
  page,        \* per page number, its page table entry
  paging,      \* has CR0.PG been set?
  end          \* page where the heap ends

pgVars == <<pc, i, placement, frames, tables, page, paging, end>>

Pages == 0 .. HeapMax - 1
PageOf(addr) == addr \div PageUnits

NoEntry == [present |-> FALSE, frame |-> 0]

-----------------------------------------------------------------------------
(* kmalloc_int before the heap exists.                                     *)

\* An aligned request always moves to the next page, even from a boundary.
Align(addr) ==
  IF PageOf(addr) # 0 THEN (PageOf(addr) + 1) * PageUnits ELSE addr

BitmapUnits == 1                       \* nframes / 32 bytes, in one page
DirectoryUnits == 2 * PageUnits + 1    \* sizeof(page_directory_t) is 8196
HeapUnits == 1                         \* sizeof(heap_t)

-----------------------------------------------------------------------------
(* The frame allocator.                                                    *)

Present(p) == p \in Pages /\ page[p].present
Touchable(p) == ~paging \/ Present(p)

FreeFrames == (0 .. NFrames - 1) \ frames

first_free_frame == CHOOSE f \in FreeFrames : \A g \in FreeFrames : f <= g

\* Fault variant of TakeFrame: stores the number of the next frame.
TakeFrame_next(p) ==
  /\ page' = [page EXCEPT ![p] = [present |-> TRUE, frame |-> first_free_frame + 1]]
  /\ frames' = frames \cup {first_free_frame}

\* Fault variant of TakeFrame: the bit of the frame is not set.
TakeFrame_unmarked(p) ==
  /\ page' = [page EXCEPT ![p] = [present |-> TRUE, frame |-> first_free_frame]]
  /\ UNCHANGED frames

TakeFrame(p) ==
  /\ page' = [page EXCEPT ![p] = [present |-> TRUE, frame |-> first_free_frame]]
  /\ frames' = frames \cup {first_free_frame}

\* Fault variant of alloc_frame: when no frame is free, the caller goes on.
alloc_frame_goes_on(p, next) ==
  IF page[p].frame # 0
  THEN pc' = next /\ UNCHANGED <<page, frames>>
  ELSE IF FreeFrames # {}
  THEN pc' = next /\ TakeFrame(p)
  ELSE /\ pc' = IF next = "run" THEN "undefined" ELSE next
       /\ UNCHANGED <<page, frames>>

\* alloc_frame, entered with pc and reaching pc next.  An entry with frame 0
\* counts as unallocated.  When no frame is free, set_frame is called with
\* ULONG_MAX all the same and writes far behind the bitmap.
alloc_frame(p, next) ==
  IF page[p].frame # 0
  THEN pc' = next /\ UNCHANGED <<page, frames>>
  ELSE IF FreeFrames # {}
  THEN pc' = next /\ TakeFrame(p)
  ELSE /\ pc' = IF Touchable(Base + WildPages) THEN "undefined" ELSE "panic"
       /\ UNCHANGED <<page, frames>>

\* The bit that clear_frame clears for frame number f: it takes the number for
\* an address and divides it once more.
ClearedBit(f) == f \div FrameDivisor

\* free_frame for each page of P.  An entry with frame 0 is left alone; the
\* others get frame 0 and stay present.
free_frame(P) ==
  /\ frames' = frames \ {ClearedBit(page[p].frame) :
                            p \in {p \in P : page[p].frame # 0}}
  /\ page' = [p \in Pages |-> IF p \in P THEN [page[p] EXCEPT !.frame = 0]
                                         ELSE page[p]]

\* alloc_frame(get_page(addr, ..), ..) and alloc_frame(set_page(addr, ..), ..):
\* the entry's page table is made when it is missing, and cleared.
TableOf(addr) == PageOf(addr) \div TableSpan

MapPage(addr, next) ==
  IF TableOf(addr) \in tables
  THEN alloc_frame(PageOf(addr), next) /\ UNCHANGED <<placement, tables>>
  ELSE /\ placement' = Align(placement) + PageUnits
       /\ IF Touchable(PageOf(Align(placement)))
          THEN /\ tables' = tables \cup {TableOf(addr)}
               /\ alloc_frame(PageOf(addr), next)
          ELSE pc' = "panic" /\ UNCHANGED <<tables, page, frames>>

-----------------------------------------------------------------------------
(* paging_init.                                                            *)

\* The bitmap and the page directory.
MakeDirectory ==
  /\ pc = "start"
  /\ placement' = Align(placement + BitmapUnits) + DirectoryUnits
  /\ i' = 0
  /\ pc' = "identity"
  /\ UNCHANGED <<frames, tables, page, paging, end>>

\* Fault variant of IdentityEnd: the end is the placement address before the
\* loop, as a for loop would have it.
IdentityEnd_fixed == Align(Base * PageUnits + BitmapUnits) + DirectoryUnits

\* placement_address is read again in every iteration.
IdentityEnd == placement

IdentityMap ==
  /\ pc = "identity"
  /\ i < IdentityEnd
  /\ MapPage(i, "identity")
  /\ i' = i + PageUnits
  /\ UNCHANGED <<paging, end>>

EnablePaging ==
  /\ pc = "identity"
  /\ ~(i < IdentityEnd)
  /\ paging' = TRUE
  /\ i' = placement
  /\ pc' = "margin"
  /\ UNCHANGED <<placement, frames, tables, page, end>>

-----------------------------------------------------------------------------
(* heap_install.                                                           *)

\* Fault variant of MarginEnd: only the memory used so far.
MarginEnd_none == placement

\* placement_address is read again in every iteration here, too.
MarginEnd == placement + MarginPages * PageUnits

MapMargin ==
  /\ pc = "margin"
  /\ i < MarginEnd
  /\ MapPage(i, "margin")
  /\ i' = i + PageUnits
  /\ UNCHANGED <<paging, end>>

MarginDone ==
  /\ pc = "margin"
  /\ ~(i < MarginEnd)
  /\ i' = HeapStart * PageUnits
  /\ pc' = "heap"
  /\ UNCHANGED <<placement, frames, tables, page, paging, end>>

\* Fault variant of MapHeap: the counter is not advanced.
MapHeap_stuck ==
  /\ pc = "heap"
  /\ i < HeapMax * PageUnits
  /\ MapPage(i, "heap")
  /\ UNCHANGED <<i, paging, end>>

MapHeap ==
  /\ pc = "heap"
  /\ i < HeapMax * PageUnits
  /\ MapPage(i, "heap")
  /\ i' = i + PageUnits
  /\ UNCHANGED <<paging, end>>

\* create_heap takes a heap_t from the placement allocator and writes to it;
\* from here on kmalloc goes to the heap.
CreateHeap ==
  /\ pc = "heap"
  /\ ~(i < HeapMax * PageUnits)
  /\ placement' = Align(placement) + HeapUnits
  /\ pc' = IF Touchable(PageOf(Align(placement))) THEN "run" ELSE "panic"
  /\ UNCHANGED <<i, frames, tables, page, paging, end>>

-----------------------------------------------------------------------------
(* The heap at work: expand maps the pages at its end, contract unmaps     *)
(* those behind its new end.  The heap ends at a page boundary here; what  *)
(* an end inside a page does (kernel/kheap.c:66) is in KHeap.              *)

ExpandPage ==
  /\ pc = "run"
  /\ end < HeapMax
  /\ MapPage(end * PageUnits, "run")
  /\ end' = end + 1
  /\ UNCHANGED <<i, paging>>

\* The loop ends before it reaches the page at the new end e, which stays
\* mapped.
Contract(e) ==
  /\ pc = "run"
  /\ HeapShrinks
  /\ e \in HeapStart + MinPages .. end - 1
  /\ free_frame(e + 1 .. end - 1)
  /\ end' = e
  /\ UNCHANGED <<pc, i, placement, tables, paging>>

-----------------------------------------------------------------------------
\* memset clears as many bytes as the bitmap has words, so the bits behind
\* ClearedBits are whatever the memory held.
pgInit ==
  /\ pc = "start"
  /\ i = 0
  /\ placement = Base * PageUnits
  /\ frames \in SUBSET (ClearedBits .. NFrames - 1)
  /\ tables = {}
  /\ page = [p \in Pages |-> NoEntry]
  /\ paging = FALSE
  /\ end = HeapStart + InitialPages

Boot ==
  \/ MakeDirectory \/ IdentityMap \/ EnablePaging
  \/ MapMargin \/ MarginDone \/ MapHeap \/ CreateHeap

pgNext ==
  \/ Boot
  \/ ExpandPage
  \/ \E e \in HeapStart .. HeapMax : Contract(e)

pgSpec == pgInit /\ [][pgNext]_pgVars

\* kmain runs on: nothing else does anything yet.
pgFairSpec == pgSpec /\ WF_pgVars(Boot)

-----------------------------------------------------------------------------
(* Properties.                                                             *)

pgTypeOK ==
  /\ pc \in {"start", "identity", "margin", "heap", "run", "panic", "undefined"}
  /\ i \in Nat
  /\ placement \in Nat
  /\ frames \subseteq 0 .. NFrames - 1
  /\ tables \subseteq {p \div TableSpan : p \in Pages}
  /\ page \in [Pages -> [present : BOOLEAN, frame : 0 .. NFrames - 1]]
  /\ paging \in BOOLEAN
  /\ end \in HeapStart .. HeapMax

\* paging.c:65-71: once paging is on, all the memory handed out by the
\* placement allocator, what the identity loop itself and heap_install take
\* for page tables included, is mapped to itself.
IdentityMapped ==
  paging => \A p \in Pages :
              p * PageUnits < placement => page[p] = [present |-> TRUE, frame |-> p]

\* The pages whose memory the kernel uses: what boot mapped, and of the heap
\* area the part below the end of the heap.
InUse ==
  {p \in Pages : page[p].present /\ (p < HeapStart \/ p < end \/ pc # "run")}

\* No two pages in use share a frame, whatever the memory behind the cleared
\* part of the bitmap held.  For an unmapped page, see paging.c:166,
\* "deallocate a frame", and paging.h:19, "Frame address (shifted right 12
\* bits)".
NoFrameShared ==
  \A p, q \in InUse : page[p].frame = page[q].frame => p = q

\* The frames whose bit free_frame may clear by mistake.  With the code's 4096
\* these are at most the first 256, the memory below the kernel.
LowFrames == {ClearedBit(f) : f \in 0 .. NFrames - 1}

\* What holds nevertheless: only low frames are ever shared, and one of the
\* pages is of the heap area; so no frame of a page table, of the heap_t, or
\* of the heap above them is handed out twice.  Boot, and a heap that only
\* grows, share none.
OnlyLowFramesShared ==
  \A p, q \in InUse :
    page[p].frame = page[q].frame =>
      \/ p = q
      \/ /\ HeapShrinks
         /\ page[p].frame \in LowFrames
         /\ p >= HeapStart \/ q >= HeapStart

\* The margin heap_install maps first is enough for the page tables and the
\* heap_t that follow: nothing unmapped is touched but by the wild write of an
\* allocator that has run out of frames.
FaultsOnlyWhenExhausted == pc \in {"panic", "undefined"} => FreeFrames = {}

\* Whatever the bitmap holds, boot ends: in the shell's kernel or in a panic.
BootEnds == <>(pc \in {"run", "panic", "undefined"})

\* paging.c:267, "PANIC! No free frames": when frames run out the kernel stops;
\* it never goes on with memory corrupted by the wild write of set_frame.
ExhaustionPanics == pc # "undefined"
-----------------------------------------------------------------------------
(* The parts of the inductive invariant behind OnlyLowFramesShared.        *)

\* No bit has been cleared so far, by free_frame.
Growing == ~HeapShrinks \/ pc \in {"start", "identity", "margin", "heap"}

EntriesTyped ==
  /\ page \in [Pages -> [present : BOOLEAN, frame : 0 .. NFrames - 1]]
  /\ end \in HeapStart .. HeapMax

\* The bit of a frame that is not low is set as long as an entry names it.
NamedIsMarked ==
  \A p \in Pages : page[p].frame \notin LowFrames => page[p].frame \in frames

\* Until a bit is cleared this goes for low frames as well.
MappedIsMarked ==
  Growing => \A p \in Pages : page[p].present => page[p].frame \in frames

\* Two pages name the same frame only if it is a low one, one of them is of the
\* heap area, and the heap shrinks.
MappedApart ==
  \A p, q \in Pages :
    page[p].present /\ page[q].present /\ page[p].frame = page[q].frame =>
      \/ p = q
      \/ /\ ~Growing
         /\ page[p].frame \in LowFrames
         /\ p >= HeapStart \/ q >= HeapStart

pgInv == EntriesTyped /\ NamedIsMarked /\ MappedIsMarked /\ MappedApart
=============================================================================
