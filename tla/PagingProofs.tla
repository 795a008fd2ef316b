---------------------------- MODULE PagingProofs ----------------------------
(***************************************************************************)
(* Paging for every size of memory, of the heap area and of the bitmap,    *)
(* and whatever the bitmap holds behind its cleared part.                  *)
(*                                                                         *)
(* Which pages may share a frame: the argument is pgInv.  A frame that an  *)
(* entry names and that is not low has its bit set, so a first free frame  *)
(* above the low ones is nobody's; free_frame, in a heap that shrinks,     *)
(* clears bits of low frames only, whatever frames it is called for.       *)
(*                                                                         *)
(* What boot maps: the argument is layInv.  The frames are handed out in   *)
(* the order of the pages, so page n gets frame n up to LowEnd; the page   *)
(* tables made later, and the heap_t, lie below it.                        *)
(***************************************************************************)
EXTENDS Paging, WellFoundedInduction, TLAPS

-----------------------------------------------------------------------------
(* The operators the steps are built from.                                 *)

\* The search of first_free_frame has an answer: a set of numbers that is
\* not empty has a least element.
LEMMA LeastExists ==
  ASSUME NEW S, S \subseteq Nat, S # {}
  PROVE  \E f \in S : \A g \in S : f <= g
<1>1. \E f \in S : \A g \in S : ~ (<<g, f>> \in OpToRel(<, Nat))
  BY WFMin, NatLessThanWellFounded, Zenon
<1>2. PICK f \in S : \A g \in S : ~ (<<g, f>> \in OpToRel(<, Nat))
  BY <1>1, Zenon
<1>3. ASSUME NEW g \in S
      PROVE  f <= g
  <2>1. f \in Nat /\ g \in Nat
    BY Zenon
  <2>2. ~ (g < f)
    BY <1>2, <2>1, Zenon DEF OpToRel
  <2> QED
    BY <2>1, <2>2
<1> QED
  BY <1>3, Zenon

\* first_free_frame (paging.c:143-164) returns a frame whose bit is clear.
LEMMA FirstIsFree ==
  ASSUME FreeFrames # {}
  PROVE  /\ first_free_frame \in Nat /\ first_free_frame \notin frames
         /\ first_free_frame \in FreeFrames /\ first_free_frame \in 0 .. NFrames - 1
<1>1. FreeFrames \subseteq Nat
  BY PagingAssumption DEF FreeFrames, PagingAssumption
<1>2. \E f \in FreeFrames : \A g \in FreeFrames : f <= g
  BY <1>1, LeastExists, Zenon
<1>3. first_free_frame \in FreeFrames
  BY <1>2, Zenon DEF first_free_frame
<1> QED
  BY <1>1, <1>3 DEF FreeFrames

\* Frame 0 exists and is low, as its bit is the one clear_frame clears for it.
LEMMA ZeroIsLow == 0 \in 0 .. NFrames - 1 /\ 0 \in LowFrames
<1>1. /\ NFrames \in Nat /\ ClearedBits \in Nat /\ ClearedBits <= NFrames
      /\ Base \in Nat /\ MarginPages \in Nat /\ LowEnd <= ClearedBits
  BY PagingAssumption, LayoutAssumption DEF PagingAssumption, LayoutAssumption
<1>2. 0 \in 0 .. NFrames - 1
  BY <1>1 DEF LowEnd
<1>3. 0 \div FrameDivisor = 0
  BY PagingAssumption DEF PagingAssumption
<1> QED
  BY <1>2, <1>3 DEF LowFrames, ClearedBit

\* The page of the address expand maps is the page at the end of the heap.
LEMMA PageOfUnits ==
  ASSUME NEW e \in Nat
  PROVE  PageOf(e * PageUnits) = e
  BY PagingAssumption DEF PageOf, PagingAssumption

-----------------------------------------------------------------------------
(* The steps.                                                              *)

\* alloc_frame (paging.c:240-269), whichever way it goes: the frame an entry
\* gets is named by no other, in boot or for a page of the heap area.
LEMMA AllocKeepsApart ==
  ASSUME EntriesTyped, NamedIsMarked, MappedIsMarked, MappedApart,
         NEW p, NEW next,
         alloc_frame(p, next),
         Growing \/ p \in HeapStart .. HeapMax,
         Growing' => Growing
  PROVE  /\ page' \in [Pages -> [present : BOOLEAN, frame : 0 .. NFrames - 1]]
         /\ NamedIsMarked' /\ MappedIsMarked' /\ MappedApart'
<1>1. CASE UNCHANGED <<page, frames>>
  BY <1>1 DEF EntriesTyped, NamedIsMarked, MappedIsMarked, MappedApart, Pages,
         LowFrames, ClearedBit
<1>2. CASE FreeFrames # {} /\ TakeFrame(p)
  <2> DEFINE f == first_free_frame
             entry == [present |-> TRUE, frame |-> f]
  <2>1. f \in 0 .. NFrames - 1 /\ f \notin frames
    BY <1>2, FirstIsFree
  <2>2. page' = [page EXCEPT ![p] = entry] /\ frames' = frames \cup {f}
    BY <1>2 DEF TakeFrame
  <2>3. entry \in [present : BOOLEAN, frame : 0 .. NFrames - 1] /\ entry.present /\ entry.frame = f
    BY <2>1
  <2> HIDE DEF f, entry
  <2>4. page' \in [Pages -> [present : BOOLEAN, frame : 0 .. NFrames - 1]]
    BY <2>2, <2>3 DEF EntriesTyped
  <2>5. \A q \in Pages : page'[q] = IF q = p THEN entry ELSE page[q]
    BY <2>2 DEF EntriesTyped
  <2>6. NamedIsMarked'
    BY <2>2, <2>3, <2>5 DEF NamedIsMarked, Pages, LowFrames, ClearedBit
  <2>7. MappedIsMarked'
    BY <2>2, <2>3, <2>5 DEF MappedIsMarked, Pages
  <2>8. \A q \in Pages :
          page[q].present /\ page[q].frame = f => ~Growing /\ f \in LowFrames
    BY <2>1 DEF NamedIsMarked, MappedIsMarked
  <2>9. MappedApart'
    <3> SUFFICES ASSUME NEW r \in Pages, NEW q \in Pages,
                        page'[r].present, page'[q].present,
                        page'[r].frame = page'[q].frame, r # q
                 PROVE  /\ ~Growing' /\ page'[r].frame \in LowFrames
                        /\ r >= HeapStart \/ q >= HeapStart
      BY DEF MappedApart, Pages, LowFrames, ClearedBit
    <3>1. CASE r # p /\ q # p
      BY <3>1, <2>5 DEF MappedApart
    <3>2. CASE r = p
      BY <3>2, <2>3, <2>5, <2>8, PagingAssumption DEF PagingAssumption
    <3>3. CASE q = p
      BY <3>3, <2>3, <2>5, <2>8, PagingAssumption DEF PagingAssumption
    <3> QED
      BY <3>1, <3>2, <3>3
  <2> QED
    BY <2>4, <2>6, <2>7, <2>9
<1> QED
  BY <1>1, <1>2 DEF alloc_frame

\* MapPage allocates a page table first or panics.
LEMMA MapPageKeepsApart ==
  ASSUME EntriesTyped, NamedIsMarked, MappedIsMarked, MappedApart,
         NEW addr, NEW next,
         MapPage(addr, next),
         Growing \/ PageOf(addr) \in HeapStart .. HeapMax,
         Growing' => Growing
  PROVE  /\ page' \in [Pages -> [present : BOOLEAN, frame : 0 .. NFrames - 1]]
         /\ NamedIsMarked' /\ MappedIsMarked' /\ MappedApart'
<1>1. CASE alloc_frame(PageOf(addr), next)
  BY <1>1, AllocKeepsApart
<1>2. CASE UNCHANGED <<page, frames>>
  BY <1>2 DEF EntriesTyped, NamedIsMarked, MappedIsMarked, MappedApart, Pages,
         LowFrames, ClearedBit
<1> QED
  BY <1>1, <1>2 DEF MapPage

\* A loop of boot maps a page while nothing has been cleared.
LEMMA BootMapKeepsInv ==
  ASSUME pgInv, NEW addr, NEW next,
         pc \in {"start", "identity", "margin", "heap"},
         MapPage(addr, next), end' = end
  PROVE  pgInv'
<1>1. Growing
  BY DEF Growing
<1>2. EntriesTyped /\ NamedIsMarked /\ MappedIsMarked /\ MappedApart
  BY DEF pgInv
<1>3. /\ page' \in [Pages -> [present : BOOLEAN, frame : 0 .. NFrames - 1]]
      /\ NamedIsMarked' /\ MappedIsMarked' /\ MappedApart'
  BY <1>1, <1>2, MapPageKeepsApart
<1>4. EntriesTyped'
  BY <1>2, <1>3 DEF EntriesTyped, Pages
<1> QED
  BY <1>3, <1>4 DEF pgInv

\* expand maps the page at the end of the heap, a page of the heap area.
LEMMA ExpandKeepsInv ==
  ASSUME pgInv, ExpandPage
  PROVE  pgInv'
<1>1. EntriesTyped /\ NamedIsMarked /\ MappedIsMarked /\ MappedApart
  BY DEF pgInv
<1>2. end \in Nat /\ end \in HeapStart .. HeapMax /\ end + 1 \in HeapStart .. HeapMax
  BY <1>1, PagingAssumption DEF ExpandPage, EntriesTyped, PagingAssumption
<1>3. PageOf(end * PageUnits) \in HeapStart .. HeapMax
  BY <1>2, PageOfUnits
<1>4. pc' # "start" /\ pc' # "identity" /\ pc' # "margin" /\ pc' # "heap"
  BY DEF ExpandPage, MapPage, alloc_frame
<1>5. Growing' => Growing
  BY <1>4 DEF Growing
<1>6. MapPage(end * PageUnits, "run")
  BY DEF ExpandPage
<1>7. /\ page' \in [Pages -> [present : BOOLEAN, frame : 0 .. NFrames - 1]]
      /\ NamedIsMarked' /\ MappedIsMarked' /\ MappedApart'
  BY <1>1, <1>3, <1>5, <1>6, MapPageKeepsApart
<1>8. EntriesTyped'
  BY <1>2, <1>7 DEF ExpandPage, EntriesTyped, Pages
<1> QED
  BY <1>7, <1>8 DEF pgInv

\* free_frame (paging.c:166-173), for pages of a set: their entries name frame 0
\* from then on, and only bits of low frames are cleared.
LEMMA FreeFrameEffect ==
  ASSUME page \in [Pages -> [present : BOOLEAN, frame : 0 .. NFrames - 1]],
         NEW P, P \subseteq Pages, free_frame(P)
  PROVE  /\ page' \in [Pages -> [present : BOOLEAN, frame : 0 .. NFrames - 1]]
         /\ \A q \in P : page'[q].frame = 0 /\ page'[q].present = page[q].present
         /\ \A q \in Pages : q \notin P => page'[q] = page[q]
         /\ frames' \subseteq frames
         /\ \A f \in frames : f \notin LowFrames => f \in frames'
<1>1. page' = [q \in Pages |-> IF q \in P THEN [page[q] EXCEPT !.frame = 0] ELSE page[q]]
  BY DEF free_frame
<1>2. 0 \in 0 .. NFrames - 1
  BY ZeroIsLow
<1>3. \A q \in Pages : page[q] \in [present : BOOLEAN, frame : 0 .. NFrames - 1]
  OBVIOUS
<1>4. ASSUME NEW q \in Pages
      PROVE  /\ [page[q] EXCEPT !.frame = 0] \in [present : BOOLEAN, frame : 0 .. NFrames - 1]
             /\ [page[q] EXCEPT !.frame = 0].frame = 0
             /\ [page[q] EXCEPT !.frame = 0].present = page[q].present
  BY <1>2, <1>3
<1>5. page' \in [Pages -> [present : BOOLEAN, frame : 0 .. NFrames - 1]]
  BY <1>1, <1>3, <1>4
<1>6. \A q \in P : page'[q].frame = 0 /\ page'[q].present = page[q].present
  BY <1>1, <1>4
<1>7. \A q \in Pages : q \notin P => page'[q] = page[q]
  BY <1>1
<1> DEFINE cleared == {ClearedBit(page[p].frame) : p \in {p \in P : page[p].frame # 0}}
<1>8. frames' = frames \ cleared
  BY DEF free_frame
<1>9. ASSUME NEW f \in cleared
      PROVE  f \in LowFrames
  BY <1>3, <1>9 DEF LowFrames
<1> QED
  BY <1>5, <1>6, <1>7, <1>8, <1>9

\* contract frees the pages behind the one at the new end of the heap.
LEMMA ContractKeepsInv ==
  ASSUME pgInv, NEW e, Contract(e)
  PROVE  pgInv'
<1>1. EntriesTyped /\ NamedIsMarked /\ MappedIsMarked /\ MappedApart
  BY DEF pgInv
<1> DEFINE P == e + 1 .. end - 1
<1>2. /\ P \subseteq Pages /\ end' \in HeapStart .. HeapMax
      /\ \A p \in P : p >= HeapStart
  BY <1>1, PagingAssumption DEF Contract, EntriesTyped, Pages, PagingAssumption
<1>3. ~Growing /\ ~Growing'
  BY DEF Contract, Growing
<1>4. free_frame(P)
  BY DEF Contract
<1> HIDE DEF P
<1>5. /\ page' \in [Pages -> [present : BOOLEAN, frame : 0 .. NFrames - 1]]
      /\ \A q \in P : page'[q].frame = 0 /\ page'[q].present = page[q].present
      /\ \A q \in Pages : q \notin P => page'[q] = page[q]
      /\ \A f \in frames : f \notin LowFrames => f \in frames'
  BY <1>1, <1>2, <1>4, FreeFrameEffect DEF EntriesTyped
<1>6. EntriesTyped'
  BY <1>2, <1>5 DEF EntriesTyped, Pages
<1>7. NamedIsMarked'
  <2> SUFFICES ASSUME NEW p \in Pages, page'[p].frame \notin LowFrames
               PROVE  page'[p].frame \in frames'
    BY DEF NamedIsMarked, Pages, LowFrames, ClearedBit
  <2>1. p \notin P
    BY <1>5, ZeroIsLow
  <2> QED
    BY <1>1, <1>5, <2>1 DEF NamedIsMarked
<1>8. MappedIsMarked'
  BY <1>3 DEF MappedIsMarked
<1>9. MappedApart'
  <2> SUFFICES ASSUME NEW r \in Pages, NEW q \in Pages,
                      page'[r].present, page'[q].present,
                      page'[r].frame = page'[q].frame, r # q
               PROVE  page'[r].frame \in LowFrames /\ (r >= HeapStart \/ q >= HeapStart)
    BY <1>3 DEF MappedApart, Pages, LowFrames, ClearedBit
  <2>1. CASE r \notin P /\ q \notin P
    BY <2>1, <1>1, <1>5 DEF MappedApart
  <2>2. CASE r \in P
    BY <2>2, <1>2, <1>5, ZeroIsLow
  <2>3. CASE q \in P
    BY <2>3, <1>2, <1>5, ZeroIsLow
  <2> QED
    BY <2>1, <2>2, <2>3
<1> QED
  BY <1>6, <1>7, <1>8, <1>9 DEF pgInv

\* The steps that touch no entry keep the invariant; none of them goes back
\* to boot.
LEMMA OtherStepsKeepInv ==
  ASSUME pgInv, UNCHANGED <<frames, page, end>>, Growing' => Growing
  PROVE  pgInv'
  BY DEF pgInv, EntriesTyped, NamedIsMarked, MappedIsMarked, MappedApart, Pages,
         LowFrames, ClearedBit

-----------------------------------------------------------------------------
(* The theorems.                                                           *)

\* The invariant behind the property below: frames named by entries are marked.
THEOREM PagingInvariant == pgSpec => []pgInv
<1>1. pgInit => pgInv
  <2> SUFFICES ASSUME pgInit
               PROVE  pgInv
    OBVIOUS
  <2>1. /\ NoEntry \in [present : BOOLEAN, frame : 0 .. NFrames - 1]
        /\ ~NoEntry.present /\ NoEntry.frame \in LowFrames
    BY ZeroIsLow DEF NoEntry
  <2>2. \A p \in Pages : page[p] = NoEntry
    BY DEF pgInit
  <2>3. EntriesTyped
    BY <2>1, PagingAssumption DEF pgInit, EntriesTyped, PagingAssumption
  <2>4. NamedIsMarked /\ MappedIsMarked /\ MappedApart
    BY <2>1, <2>2 DEF NamedIsMarked, MappedIsMarked, MappedApart
  <2> QED
    BY <2>3, <2>4 DEF pgInv
<1>2. pgInv /\ [pgNext]_pgVars => pgInv'
  <2> SUFFICES ASSUME pgInv, [pgNext]_pgVars
               PROVE  pgInv'
    OBVIOUS
  <2>1. CASE MakeDirectory
    BY <2>1, OtherStepsKeepInv DEF MakeDirectory, Growing
  <2>2. CASE IdentityMap
    BY <2>2, BootMapKeepsInv DEF IdentityMap
  <2>3. CASE EnablePaging
    BY <2>3, OtherStepsKeepInv DEF EnablePaging, Growing
  <2>4. CASE MapMargin
    BY <2>4, BootMapKeepsInv DEF MapMargin
  <2>5. CASE MarginDone
    BY <2>5, OtherStepsKeepInv DEF MarginDone, Growing
  <2>6. CASE MapHeap
    BY <2>6, BootMapKeepsInv DEF MapHeap
  <2>7. CASE CreateHeap
    BY <2>7, OtherStepsKeepInv DEF CreateHeap, Growing
  <2>8. CASE ExpandPage
    BY <2>8, ExpandKeepsInv
  <2>9. ASSUME NEW e \in HeapStart .. HeapMax, Contract(e)
        PROVE  pgInv'
    BY <2>9, ContractKeepsInv
  <2>10. CASE UNCHANGED pgVars
    BY <2>10, OtherStepsKeepInv DEF pgVars, Growing
  <2> QED
    BY <2>1, <2>2, <2>3, <2>4, <2>5, <2>6, <2>7, <2>8, <2>9, <2>10 DEF pgNext, Boot
<1> QED
  BY <1>1, <1>2, PTL DEF pgSpec

\* OnlyLowFramesShared: whatever the bitmap holds behind the part memset
\* clears, alloc_frame gives no frame to two pages in use, except the low frames
\* whose bits free_frame (paging.c:166-173) clears by its second division.
THEOREM FramesAreApart == pgSpec => []OnlyLowFramesShared
<1>1. pgInv => OnlyLowFramesShared
  <2> SUFFICES ASSUME pgInv, NEW p \in InUse, NEW q \in InUse,
                      page[p].frame = page[q].frame, p # q
               PROVE  /\ HeapShrinks /\ page[p].frame \in LowFrames
                      /\ p >= HeapStart \/ q >= HeapStart
    BY DEF OnlyLowFramesShared
  <2>1. p \in Pages /\ q \in Pages /\ page[p].present /\ page[q].present
    BY DEF InUse
  <2>2. ~Growing /\ page[p].frame \in LowFrames /\ (p >= HeapStart \/ q >= HeapStart)
    BY <2>1 DEF pgInv, MappedApart
  <2> QED
    BY <2>2, PagingAssumption DEF Growing, PagingAssumption
<1> QED
  BY <1>1, PagingInvariant, PTL

-----------------------------------------------------------------------------
(* The layout of boot: the inductive invariant.  It says where boot stands *)
(* as a function of the number n of pages it has mapped.                   *)

Identity(n) ==
  \A p \in Pages : /\ p < n => page[p] = [present |-> TRUE, frame |-> p]
                   /\ p \in n .. HeapStart - 1 => page[p] = NoEntry

BitsUpTo(n) == \A f \in 0 .. ClearedBits - 1 : f \in frames <=> f < n

\* The page tables made for the heap pages below h, and the placement after t
\* of them.
HeapTables(h) ==
  IF h = HeapStart THEN 0 ELSE ((h - 1) \div TableSpan) - FirstTable + 1
PlacementAfter(t) == (Base + 5 + 2 * t) * PageUnits

AtStart ==
  /\ i = 0 /\ placement = Base * PageUnits
  /\ tables = {} /\ ~paging
  /\ Identity(0) /\ BitsUpTo(0)

AtIdentity(n) ==
  /\ i = n * PageUnits /\ ~paging
  /\ n <= Base + 5
  /\ IF n = 0 THEN tables = {} /\ placement = (Base + 3) * PageUnits + 1
              ELSE tables = {0} /\ placement = PlacementAfter(0)
  /\ Identity(n) /\ BitsUpTo(n)

AtMargin(n) ==
  /\ i = n * PageUnits /\ paging
  /\ n \in Base + 5 .. LowEnd
  /\ tables = {0} /\ placement = PlacementAfter(0)
  /\ Identity(n) /\ BitsUpTo(n)

AtHeap(h) ==
  /\ i = h * PageUnits /\ paging
  /\ h \in HeapStart .. HeapMax
  /\ tables = {0} \cup (FirstTable .. FirstTable + HeapTables(h) - 1)
  /\ placement = PlacementAfter(HeapTables(h))
  /\ Identity(LowEnd)

\* The heap at work, or the end of a boot or a heap without a free frame.
AtWork ==
  /\ paging
  /\ placement <= PlacementAfter(HeapTables(HeapMax)) + PageUnits + 1
  /\ Identity(LowEnd)
  /\ pc = "run" => tables = {0} \cup (FirstTable .. LastTable)
  /\ pc = "panic" => FreeFrames = {}

layInv ==
  /\ pgTypeOK
  /\ pc # "undefined"
  /\ pc = "start" => AtStart
  /\ pc = "identity" => \E n \in 0 .. HeapMax : AtIdentity(n)
  /\ pc = "margin" => \E n \in 0 .. HeapMax : AtMargin(n)
  /\ pc = "heap" => \E h \in 0 .. HeapMax : AtHeap(h)
  /\ pc \in {"run", "panic"} => AtWork

-----------------------------------------------------------------------------
(* The layout of boot: arithmetic of pages and units.                      *)

\* The constants as numbers, and the order in which the areas lie.
LEMMA LayoutFacts ==
  /\ PageUnits \in Nat /\ PageUnits >= 2
  /\ TableSpan \in Nat /\ TableSpan >= 1
  /\ Base \in Nat /\ Base >= 1
  /\ MarginPages \in Nat /\ LowEnd \in Nat
  /\ HeapStart \in Nat /\ HeapMax \in Nat
  /\ NFrames \in Nat /\ ClearedBits \in Nat /\ WildPages \in Nat
  /\ Base + 5 + MarginPages = LowEnd
  /\ LowEnd <= TableSpan /\ TableSpan <= HeapStart /\ HeapStart < HeapMax
  /\ LowEnd <= ClearedBits /\ ClearedBits <= NFrames
  BY PagingAssumption, LayoutAssumption DEF PagingAssumption, LayoutAssumption, LowEnd

\* An address less than a page behind the start of page a is in page a.
LEMMA PageOfAddress ==
  ASSUME NEW a \in Nat, NEW r \in 0 .. 1
  PROVE  PageOf(a * PageUnits + r) = a
  BY LayoutFacts DEF PageOf

\* An aligned kmalloc moves to the next page from inside a page and from its
\* start (mm.c:31-36).
LEMMA AlignAddress ==
  ASSUME NEW a \in Nat, a >= 1, NEW r \in 0 .. 1
  PROVE  Align(a * PageUnits + r) = (a + 1) * PageUnits
  BY PageOfAddress DEF Align

\* The same at a page boundary.
LEMMA AlignBoundary ==
  ASSUME NEW a \in Nat, a >= 1
  PROVE  /\ Align(a * PageUnits) = (a + 1) * PageUnits
         /\ PageOf(Align(a * PageUnits)) = a + 1
<1>1. a * PageUnits + 0 = a * PageUnits
  BY LayoutFacts
<1>2. Align(a * PageUnits) = (a + 1) * PageUnits
  BY <1>1, AlignAddress
<1> QED
  BY <1>2, PageOfUnits

\* One page further.
LEMMA NextPage ==
  ASSUME NEW a \in Nat
  PROVE  a * PageUnits + PageUnits = (a + 1) * PageUnits /\ a * PageUnits \in Nat
  BY LayoutFacts

\* Addresses of pages are ordered as the pages are.
LEMMA PageOrder ==
  ASSUME NEW a \in Nat, NEW b \in Nat
  PROVE  /\ a * PageUnits < b * PageUnits <=> a < b
         /\ a * PageUnits < b * PageUnits + 1 => a <= b
<1> DEFINE P == PageUnits
<1>1. P \in Nat /\ P >= 2
  BY LayoutFacts
<1> HIDE DEF P
<1>2. a < b => a * P + P <= b * P
  <2> SUFFICES ASSUME a < b
               PROVE  a * P + P <= b * P
    OBVIOUS
  <2>1. PICK d \in Nat : b = a + 1 + d
    <3> WITNESS b - a - 1 \in Nat
    <3> QED OBVIOUS
  <2>2. b * P = a * P + P + d * P /\ d * P >= 0
    BY <1>1, <2>1
  <2> QED
    BY <1>1, <2>2
<1>3. b < a => b * P + P <= a * P
  <2> SUFFICES ASSUME b < a
               PROVE  b * P + P <= a * P
    OBVIOUS
  <2>1. PICK d \in Nat : a = b + 1 + d
    <3> WITNESS a - b - 1 \in Nat
    <3> QED OBVIOUS
  <2>2. a * P = b * P + P + d * P /\ d * P >= 0
    BY <1>1, <2>1
  <2> QED
    BY <1>1, <2>2
<1>4. a = b => a * P = b * P
  OBVIOUS
<1>5. a * P \in Nat /\ b * P \in Nat
  BY <1>1
<1> QED
  BY <1>1, <1>2, <1>3, <1>4, <1>5 DEF P

\* The table of a page address; the first page table serves all below LowEnd.
LEMMA TableOfPage ==
  ASSUME NEW a \in Nat
  PROVE  /\ TableOf(a * PageUnits) = a \div TableSpan
         /\ a \div TableSpan \in Nat
         /\ a < TableSpan => a \div TableSpan = 0
<1> DEFINE T == TableSpan
<1>1. T \in Nat /\ T >= 1
  BY LayoutFacts
<1>2. TableOf(a * PageUnits) = a \div T
  BY PageOfUnits DEF TableOf
<1> HIDE DEF T
<1>3. a \div T \in Nat
  BY <1>1
<1>4. a < T => a \div T = 0
  BY <1>1
<1> QED
  BY <1>2, <1>3, <1>4 DEF T

\* The table number grows by at most one from page to page.
LEMMA TableStep ==
  ASSUME NEW a \in Nat
  PROVE  \/ (a + 1) \div TableSpan = a \div TableSpan
         \/ (a + 1) \div TableSpan = a \div TableSpan + 1
<1> DEFINE T == TableSpan
           q == a \div T
           r == a % T
<1>1. T \in Nat /\ T >= 1
  BY LayoutFacts
<1> HIDE DEF T
<1>2. q \in Nat /\ r \in 0 .. T - 1 /\ a = T * q + r
  BY <1>1
<1> HIDE DEF q, r
<1>3. CASE r = T - 1
  <2>1. a + 1 = T * (q + 1)
    BY <1>1, <1>2, <1>3
  <2>2. (a + 1) \div T = q + 1
    BY <1>1, <1>2, <2>1
  <2> QED
    BY <2>2 DEF q, T
<1>4. CASE r < T - 1
  <2>1. a + 1 = T * q + (r + 1) /\ r + 1 \in 0 .. T - 1
    BY <1>1, <1>2, <1>4
  <2>2. (a + 1) \div T = q
    BY <1>1, <1>2, <2>1
  <2> QED
    BY <2>2 DEF q, T
<1> QED
  BY <1>1, <1>2, <1>3, <1>4

\* The table number does not fall.
LEMMA TableOrder ==
  ASSUME NEW a \in Nat, NEW b \in Nat, a <= b
  PROVE  a \div TableSpan <= b \div TableSpan
<1> DEFINE T == TableSpan
           q == a \div T
           s == b \div T
<1>1. T \in Nat /\ T >= 1
  BY LayoutFacts
<1> HIDE DEF T
<1>2. q \in Nat /\ T * q <= a /\ a < T * q + T
  BY <1>1
<1>3. s \in Nat /\ T * s <= b /\ b < T * s + T
  BY <1>1
<1> HIDE DEF q, s
<1>4. s < q => T * s + T <= T * q
  <2> SUFFICES ASSUME s < q
               PROVE  T * s + T <= T * q
    OBVIOUS
  <2>1. PICK d \in Nat : q = s + 1 + d
    <3>1. q - s - 1 \in Nat /\ q = s + 1 + (q - s - 1)
      BY <1>2, <1>3
    <3> QED
      BY <3>1
  <2>2. T * q = T * s + T + T * d /\ T * d >= 0
    BY <1>1, <1>3, <2>1
  <2> QED
    BY <1>1, <1>3, <2>2
<1>5. q <= s
  BY <1>1, <1>2, <1>3, <1>4
<1> QED
  BY <1>5 DEF q, s, T

\* The tables of the heap area are not the first one, and lie in order.
LEMMA HeapTableFacts ==
  /\ FirstTable \in Nat /\ FirstTable >= 1
  /\ LastTable \in Nat /\ FirstTable <= LastTable
<1>1. FirstTable \in Nat /\ LastTable \in Nat
  BY LayoutFacts, TableOfPage DEF FirstTable, LastTable
<1>2. FirstTable <= LastTable
  BY LayoutFacts, TableOrder DEF FirstTable, LastTable
<1>3. TableSpan \div TableSpan = 1
  BY LayoutFacts
<1>4. FirstTable >= 1
  BY LayoutFacts, <1>3, TableOrder DEF FirstTable
<1> QED
  BY <1>1, <1>2, <1>4

\* How the number of tables grows with the heap pages mapped.
LEMMA HeapTablesStep ==
  ASSUME NEW h \in HeapStart .. HeapMax - 1
  PROVE  /\ h + 1 \in HeapStart .. HeapMax
         /\ HeapTables(h) \in 0 .. LastTable - FirstTable + 1
         /\ HeapTables(h + 1) \in 1 .. LastTable - FirstTable + 1
         /\ h \div TableSpan = FirstTable + HeapTables(h + 1) - 1
         /\ HeapTables(h + 1) = HeapTables(h) \/ HeapTables(h + 1) = HeapTables(h) + 1
<1>1. h \in Nat /\ h + 1 \in HeapStart .. HeapMax /\ h + 1 # HeapStart
  BY LayoutFacts
<1>2. HeapTables(h + 1) = (h \div TableSpan) - FirstTable + 1
  <2>1. (h + 1) - 1 = h
    BY <1>1
  <2> QED
    BY <1>1, <2>1 DEF HeapTables
<1>3. h \div TableSpan \in Nat /\ FirstTable <= h \div TableSpan /\ h \div TableSpan <= LastTable
  BY <1>1, LayoutFacts, TableOrder, TableOfPage DEF FirstTable, LastTable
<1>4. HeapTables(h + 1) \in 1 .. LastTable - FirstTable + 1
  BY <1>2, <1>3, HeapTableFacts
<1>5. CASE h = HeapStart
  <2>1. HeapTables(h) = 0 /\ h \div TableSpan = FirstTable
    BY <1>5 DEF HeapTables, FirstTable
  <2> QED
    BY <1>1, <1>2, <1>3, <1>4, <2>1, HeapTableFacts
<1>6. CASE h # HeapStart
  <2> DEFINE g == h - 1
  <2>1. g \in Nat /\ g + 1 = h /\ HeapStart <= g /\ g <= HeapMax - 1
    BY <1>6, LayoutFacts
  <2>2. HeapTables(h) = (g \div TableSpan) - FirstTable + 1
    BY <1>6 DEF HeapTables
  <2> HIDE DEF g
  <2>3. g \div TableSpan \in Nat /\ FirstTable <= g \div TableSpan /\ g \div TableSpan <= LastTable
    BY <2>1, LayoutFacts, TableOrder, TableOfPage DEF FirstTable, LastTable
  <2>4. h \div TableSpan = g \div TableSpan \/ h \div TableSpan = g \div TableSpan + 1
    BY <2>1, TableStep
  <2> QED
    BY <1>1, <1>2, <1>3, <1>4, <2>2, <2>3, <2>4, HeapTableFacts
<1> QED
  BY <1>5, <1>6

\* At the end of the heap area all its tables exist.
LEMMA AllHeapTables ==
  HeapTables(HeapMax) = LastTable - FirstTable + 1 /\ HeapTables(HeapStart) = 0
  BY LayoutFacts DEF HeapTables, LastTable

-----------------------------------------------------------------------------
(* The layout of boot: the steps.                                          *)

\* With the bits of pages below n set and that of n clear, n is the frame that
\* first_free_frame finds.
LEMMA FirstIs ==
  ASSUME NEW n \in Nat, n < ClearedBits, BitsUpTo(n)
  PROVE  FreeFrames # {} /\ first_free_frame = n
<1>1. n \in FreeFrames
  BY LayoutFacts DEF BitsUpTo, FreeFrames
<1>2. \A g \in FreeFrames : g \in Nat /\ n <= g
  BY LayoutFacts DEF BitsUpTo, FreeFrames
<1>3. \E f \in FreeFrames : \A g \in FreeFrames : f <= g
  BY <1>1, <1>2
<1>4. first_free_frame \in FreeFrames /\ \A g \in FreeFrames : first_free_frame <= g
  BY <1>3, Zenon DEF first_free_frame
<1> QED
  BY <1>1, <1>2, <1>4

\* alloc_frame on the next page of the identity loop or the margin maps it to
\* itself (paging.c:240-269).
LEMMA AllocNext ==
  ASSUME pgTypeOK, NEW n \in Nat, n < LowEnd, NEW next,
         Identity(n), BitsUpTo(n), alloc_frame(n, next)
  PROVE  /\ pc' = next
         /\ Identity(n + 1)' /\ BitsUpTo(n + 1)'
         /\ frames' \subseteq 0 .. NFrames - 1
         /\ page' \in [Pages -> [present : BOOLEAN, frame : 0 .. NFrames - 1]]
<1>1. n \in Pages /\ n \in n .. HeapStart - 1 /\ n < ClearedBits /\ n < NFrames
  BY LayoutFacts DEF Pages
<1>2. page[n] = NoEntry
  BY <1>1 DEF Identity
<1>3. page[n].frame = 0
  BY <1>2 DEF NoEntry
<1>4. FreeFrames # {} /\ first_free_frame = n
  BY <1>1, FirstIs
<1>5. pc' = next /\ TakeFrame(n)
  BY <1>3, <1>4 DEF alloc_frame
<1> DEFINE entry == [present |-> TRUE, frame |-> n]
<1>6. page' = [page EXCEPT ![n] = entry] /\ frames' = frames \cup {n}
  BY <1>4, <1>5 DEF TakeFrame
<1>7. entry \in [present : BOOLEAN, frame : 0 .. NFrames - 1]
  BY <1>1, LayoutFacts
<1>8. page' \in [Pages -> [present : BOOLEAN, frame : 0 .. NFrames - 1]]
  <2> HIDE DEF entry
  <2> QED
    BY <1>6, <1>7 DEF pgTypeOK
<1>9. Identity(n + 1)'
  <2>1. \A p \in Pages : page'[p] = IF p = n THEN entry ELSE page[p]
    BY <1>6 DEF pgTypeOK
  <2>2. \A p \in Pages : p < n + 1 => page'[p] = [present |-> TRUE, frame |-> p]
    <3> HIDE DEF entry
    <3> SUFFICES ASSUME NEW p \in Pages, p < n + 1
                 PROVE  page'[p] = [present |-> TRUE, frame |-> p]
      OBVIOUS
    <3>1. CASE p = n
      BY <2>1, <3>1 DEF entry
    <3>2. CASE p < n
      BY <2>1, <3>2 DEF Identity
    <3> QED
      BY <3>1, <3>2, LayoutFacts DEF Pages
  <2>3. \A p \in Pages : p \in n + 1 .. HeapStart - 1 => page'[p] = NoEntry
    <3> HIDE DEF entry
    <3> SUFFICES ASSUME NEW p \in Pages, p \in n + 1 .. HeapStart - 1
                 PROVE  page'[p] = NoEntry
      OBVIOUS
    <3>1. p # n /\ p \in n .. HeapStart - 1
      BY LayoutFacts
    <3> QED
      BY <2>1, <3>1 DEF Identity
  <2> QED
    BY <2>2, <2>3 DEF Identity, Pages, NoEntry
<1>10. BitsUpTo(n + 1)'
  BY <1>6, LayoutFacts DEF BitsUpTo
<1>11. frames' \subseteq 0 .. NFrames - 1
  BY <1>1, <1>6, LayoutFacts DEF pgTypeOK
<1> QED
  BY <1>5, <1>8, <1>9, <1>10, <1>11

\* alloc_frame on a page of the heap area leaves the low pages alone; without a
\* free frame it ends in a page fault, since the wild write hits no mapped page.
LEMMA AllocHeap ==
  ASSUME pgTypeOK, paging, Identity(LowEnd),
         NEW p \in HeapStart .. HeapMax - 1, NEW next, alloc_frame(p, next)
  PROVE  /\ Identity(LowEnd)'
         /\ frames' \subseteq 0 .. NFrames - 1
         /\ page' \in [Pages -> [present : BOOLEAN, frame : 0 .. NFrames - 1]]
         /\ \/ pc' = next
            \/ pc' = "panic" /\ FreeFrames = {} /\ FreeFrames' = {}
<1>1. CASE page[p].frame # 0
  <2>1. pc' = next /\ UNCHANGED <<page, frames>>
    BY <1>1 DEF alloc_frame
  <2> QED
    BY <2>1 DEF pgTypeOK, Identity, Pages, NoEntry
<1>2. CASE page[p].frame = 0 /\ FreeFrames # {}
  <2> DEFINE f == first_free_frame
             entry == [present |-> TRUE, frame |-> f]
  <2>1. pc' = next /\ TakeFrame(p)
    BY <1>2 DEF alloc_frame
  <2>2. f \in 0 .. NFrames - 1
    <3>1. f \in Nat /\ f \in FreeFrames
      BY <1>2, FirstIsFree
    <3> QED
      BY <3>1 DEF FreeFrames
  <2>3. page' = [page EXCEPT ![p] = entry] /\ frames' = frames \cup {f}
    BY <2>1 DEF TakeFrame
  <2> HIDE DEF f
  <2>4. entry \in [present : BOOLEAN, frame : 0 .. NFrames - 1]
    BY <2>2
  <2> HIDE DEF entry
  <2>5. page' \in [Pages -> [present : BOOLEAN, frame : 0 .. NFrames - 1]]
    BY <2>3, <2>4 DEF pgTypeOK
  <2>6. frames' \subseteq 0 .. NFrames - 1
    BY <2>2, <2>3 DEF pgTypeOK
  <2>7. \A q \in Pages : q < HeapStart => page'[q] = page[q]
    BY <2>3, LayoutFacts DEF pgTypeOK, Pages
  <2>8. Identity(LowEnd)'
    <3> SUFFICES ASSUME NEW q \in Pages
                 PROVE  /\ q < LowEnd => page'[q] = [present |-> TRUE, frame |-> q]
                        /\ q \in LowEnd .. HeapStart - 1 => page'[q] = NoEntry
      BY DEF Identity, Pages, NoEntry, LowEnd
    <3>1. (q < LowEnd \/ q \in LowEnd .. HeapStart - 1) => q < HeapStart
      BY LayoutFacts DEF Pages
    <3> QED
      BY <2>7, <3>1 DEF Identity
  <2> QED
    BY <2>1, <2>5, <2>6, <2>8
<1>3. CASE page[p].frame = 0 /\ FreeFrames = {}
  <2>1. /\ pc' = IF Touchable(Base + WildPages) THEN "undefined" ELSE "panic"
        /\ UNCHANGED <<page, frames>>
    BY <1>3 DEF alloc_frame
  <2>2. Base + WildPages \in Pages /\ Base + WildPages \in LowEnd .. HeapStart - 1
    BY LayoutFacts, LayoutAssumption DEF Pages, LayoutAssumption
  <2>3. page[Base + WildPages] = NoEntry
    BY <2>2 DEF Identity
  <2>4. ~Touchable(Base + WildPages)
    BY <2>3 DEF Touchable, Present, NoEntry
  <2>5. FreeFrames' = {}
    BY <1>3, <2>1 DEF FreeFrames
  <2> QED
    BY <1>3, <2>1, <2>4, <2>5 DEF pgTypeOK, Identity, Pages, NoEntry
<1> QED
  BY <1>1, <1>2, <1>3

\* MapPage in the heap area, where its page table exists (paging.c:175-238).
LEMMA MapHeapPage ==
  ASSUME pgTypeOK, paging, Identity(LowEnd),
         NEW h \in HeapStart .. HeapMax - 1, NEW next,
         h \div TableSpan \in tables,
         MapPage(h * PageUnits, next)
  PROVE  /\ Identity(LowEnd)'
         /\ frames' \subseteq 0 .. NFrames - 1
         /\ page' \in [Pages -> [present : BOOLEAN, frame : 0 .. NFrames - 1]]
         /\ pc' = next \/ (pc' = "panic" /\ FreeFrames = {} /\ FreeFrames' = {})
         /\ UNCHANGED <<placement, tables>>
<1>1. h \in Nat
  BY LayoutFacts
<1>2. alloc_frame(h, next) /\ UNCHANGED <<placement, tables>>
  BY <1>1, PageOfUnits, TableOfPage DEF MapPage
<1> QED
  BY <1>2, AllocHeap

\* The same where the table is made first: it lies in the margin.
LEMMA MapHeapTable ==
  ASSUME pgTypeOK, paging, Identity(LowEnd),
         NEW h \in HeapStart .. HeapMax - 1, NEW next,
         h \div TableSpan \notin tables,
         NEW t \in 0 .. LastTable - FirstTable,
         placement = PlacementAfter(t),
         MapPage(h * PageUnits, next)
  PROVE  /\ Identity(LowEnd)'
         /\ frames' \subseteq 0 .. NFrames - 1
         /\ page' \in [Pages -> [present : BOOLEAN, frame : 0 .. NFrames - 1]]
         /\ pc' = next \/ (pc' = "panic" /\ FreeFrames = {} /\ FreeFrames' = {})
         /\ placement' = PlacementAfter(t + 1)
         /\ tables' = tables \cup {h \div TableSpan}
<1> DEFINE a == Base + 5 + 2 * t
<1>1. h \in Nat /\ t \in Nat
  BY LayoutFacts, HeapTableFacts
<1>2. a \in Nat /\ a >= 1 /\ a + 1 < LowEnd /\ a + 1 \in Nat /\ a + 1 + 1 = Base + 5 + 2 * (t + 1)
  BY <1>1, LayoutFacts, HeapTableFacts, LayoutAssumption DEF LayoutAssumption
<1>3. placement = a * PageUnits
  BY DEF PlacementAfter
<1> HIDE DEF a
<1>4. Align(placement) = (a + 1) * PageUnits /\ PageOf(Align(placement)) = a + 1
  BY <1>2, <1>3, AlignBoundary
<1>5. Align(placement) + PageUnits = PlacementAfter(t + 1)
  BY <1>2, <1>4, NextPage DEF PlacementAfter
<1>6. Touchable(PageOf(Align(placement)))
  <2>1. a + 1 \in Pages
    BY <1>2, LayoutFacts DEF Pages
  <2>2. page[a + 1] = [present |-> TRUE, frame |-> a + 1]
    BY <1>2, <2>1 DEF Identity
  <2> QED
    BY <1>4, <2>1, <2>2 DEF Touchable, Present
<1>7. TableOf(h * PageUnits) = h \div TableSpan /\ PageOf(h * PageUnits) = h
  BY <1>1, TableOfPage, PageOfUnits
<1>8. /\ placement' = Align(placement) + PageUnits
      /\ tables' = tables \cup {h \div TableSpan}
      /\ alloc_frame(h, next)
  BY <1>6, <1>7 DEF MapPage
<1> QED
  BY <1>5, <1>8, AllocHeap

\* paging_init before its loop.
LEMMA MakeDirectoryLays ==
  ASSUME layInv, MakeDirectory
  PROVE  layInv'
<1>1. AtStart /\ pgTypeOK
  BY DEF layInv, MakeDirectory
<1>2. Align(Base * PageUnits + 1) = (Base + 1) * PageUnits
  BY LayoutFacts, AlignAddress
<1>3. placement' = (Base + 3) * PageUnits + 1
  <2>1. placement' = (Base + 1) * PageUnits + (2 * PageUnits + 1)
    BY <1>1, <1>2 DEF MakeDirectory, AtStart, BitmapUnits, DirectoryUnits
  <2> QED
    BY <2>1, LayoutFacts
<1>4. placement' \in Nat
  BY <1>3, LayoutFacts
<1>5. 0 * PageUnits = 0
  BY LayoutFacts
<1>6. AtIdentity(0)'
  BY <1>1, <1>3, <1>5, LayoutFacts
     DEF MakeDirectory, AtStart, AtIdentity, Identity, BitsUpTo, Pages, NoEntry, PlacementAfter
<1>7. pgTypeOK'
  BY <1>1, <1>4 DEF MakeDirectory, pgTypeOK, Pages
<1>8. 0 \in 0 .. HeapMax
  BY LayoutFacts
<1>9. pc' = "identity"
  BY DEF MakeDirectory
<1> QED
  BY <1>6, <1>7, <1>8, <1>9 DEF layInv

\* A turn of the identity loop: page n is mapped to frame n, and the first turn
\* makes the page table that serves all of them.
LEMMA IdentityMapLays ==
  ASSUME layInv, IdentityMap
  PROVE  layInv'
<1>1. pgTypeOK
  BY DEF layInv
<1>2. PICK n \in 0 .. HeapMax : AtIdentity(n)
  BY DEF layInv, IdentityMap
<1>3. n \in Nat /\ i = n * PageUnits /\ n <= Base + 5 /\ Identity(n) /\ BitsUpTo(n) /\ ~paging
  BY <1>2, LayoutFacts DEF AtIdentity
<1>4. n < Base + 5
  <2>1. CASE n = 0
    BY <2>1, LayoutFacts
  <2>2. CASE n # 0
    <3>1. placement = (Base + 5) * PageUnits
      <4>1. Base + 5 + 2 * 0 = Base + 5
        BY LayoutFacts
      <4> QED
        BY <1>2, <2>2, <4>1 DEF AtIdentity, PlacementAfter
    <3>2. n * PageUnits < (Base + 5) * PageUnits
      BY <1>3, <3>1 DEF IdentityMap, IdentityEnd
    <3> QED
      BY <1>3, <3>2, PageOrder, LayoutFacts
  <2> QED
    BY <2>1, <2>2
<1>5. n < LowEnd /\ n < TableSpan /\ n + 1 <= Base + 5 /\ n + 1 # 0 /\ n + 1 \in 0 .. HeapMax
  BY <1>3, <1>4, LayoutFacts
<1>6. PageOf(i) = n /\ TableOf(i) = 0
  BY <1>3, <1>5, PageOfUnits, TableOfPage
<1>7. MapPage(i, "identity") /\ i' = i + PageUnits /\ UNCHANGED <<paging, end>>
  BY DEF IdentityMap
<1>8. i' = (n + 1) * PageUnits /\ i' \in Nat
  BY <1>3, <1>7, NextPage
<1>9. alloc_frame(n, "identity") /\ tables' = {0} /\ placement' = PlacementAfter(0)
  <2>1. CASE n = 0
    <3>1. tables = {} /\ placement = (Base + 3) * PageUnits + 1
      BY <1>2, <2>1 DEF AtIdentity
    <3>2. Align(placement) = (Base + 4) * PageUnits
      <4>1. Base + 3 \in Nat /\ Base + 3 >= 1 /\ Base + 3 + 1 = Base + 4
        BY LayoutFacts
      <4> QED
        BY <3>1, <4>1, AlignAddress
    <3>3. Align(placement) + PageUnits = PlacementAfter(0)
      <4>1. Base + 4 \in Nat /\ Base + 4 + 1 = Base + 5 + 2 * 0
        BY LayoutFacts
      <4> QED
        BY <3>2, <4>1, NextPage DEF PlacementAfter
    <3>4. Touchable(PageOf(Align(placement)))
      BY <1>3 DEF Touchable
    <3> QED
      BY <1>6, <1>7, <3>1, <3>3, <3>4 DEF MapPage
  <2>2. CASE n # 0
    <3>1. tables = {0} /\ placement = PlacementAfter(0)
      BY <1>2, <2>2 DEF AtIdentity
    <3> QED
      BY <1>6, <1>7, <3>1 DEF MapPage
  <2> QED
    BY <2>1, <2>2
<1>10. /\ pc' = "identity"
       /\ Identity(n + 1)' /\ BitsUpTo(n + 1)'
       /\ frames' \subseteq 0 .. NFrames - 1
       /\ page' \in [Pages -> [present : BOOLEAN, frame : 0 .. NFrames - 1]]
  BY <1>1, <1>3, <1>5, <1>9, AllocNext
<1>11. AtIdentity(n + 1)'
  BY <1>3, <1>5, <1>7, <1>8, <1>9, <1>10 DEF AtIdentity, PlacementAfter
<1>12. PlacementAfter(0) \in Nat
  BY LayoutFacts DEF PlacementAfter
<1>13. {0} \subseteq {p \div TableSpan : p \in Pages}
  <2>1. 0 \in Pages /\ 0 \div TableSpan = 0
    BY LayoutFacts, TableOfPage DEF Pages
  <2> QED
    BY <2>1
<1>14. pgTypeOK'
  BY <1>1, <1>7, <1>8, <1>9, <1>10, <1>12, <1>13 DEF pgTypeOK, Pages, PlacementAfter
<1> QED
  BY <1>5, <1>10, <1>11, <1>14 DEF layInv

\* The identity loop ends behind the first page table; paging is enabled.
LEMMA EnablePagingLays ==
  ASSUME layInv, EnablePaging
  PROVE  layInv'
<1>1. pgTypeOK
  BY DEF layInv
<1>2. PICK n \in 0 .. HeapMax : AtIdentity(n)
  BY DEF layInv, EnablePaging
<1>3. n \in Nat /\ i = n * PageUnits /\ n <= Base + 5 /\ Identity(n) /\ BitsUpTo(n)
  BY <1>2, LayoutFacts DEF AtIdentity
<1>4. ~(n * PageUnits < placement)
  BY <1>3 DEF EnablePaging, IdentityEnd
<1>5. n # 0
  <2> SUFFICES ASSUME n = 0
               PROVE  FALSE
    OBVIOUS
  <2>1. placement = (Base + 3) * PageUnits + 1
    BY <1>2 DEF AtIdentity
  <2> QED
    BY <1>4, <2>1, LayoutFacts
<1>6. Base + 5 + 2 * 0 = Base + 5 /\ Base + 5 \in Nat
  BY LayoutFacts
<1>7. tables = {0} /\ placement = PlacementAfter(0) /\ placement = (Base + 5) * PageUnits
  BY <1>2, <1>5, <1>6 DEF AtIdentity, PlacementAfter
<1>8. n = Base + 5
  BY <1>3, <1>4, <1>6, <1>7, PageOrder
<1>9. /\ pc' = "margin" /\ paging' /\ i' = placement
      /\ UNCHANGED <<placement, frames, tables, page, end>>
  BY DEF EnablePaging
<1>10. n \in Base + 5 .. LowEnd
  BY <1>8, LayoutFacts
<1>11. AtMargin(n)'
  BY <1>3, <1>7, <1>8, <1>9, <1>10
     DEF AtMargin, Identity, BitsUpTo, Pages, NoEntry, PlacementAfter, LowEnd
<1>12. pgTypeOK'
  BY <1>1, <1>9 DEF EnablePaging, pgTypeOK, Pages
<1> QED
  BY <1>2, <1>9, <1>11, <1>12 DEF layInv

\* heap_install's first loop maps the margin to itself; it needs no page table.
LEMMA MapMarginLays ==
  ASSUME layInv, MapMargin
  PROVE  layInv'
<1>1. pgTypeOK
  BY DEF layInv
<1>2. PICK n \in 0 .. HeapMax : AtMargin(n)
  BY DEF layInv, MapMargin
<1>3. /\ n \in Nat /\ i = n * PageUnits /\ n \in Base + 5 .. LowEnd
      /\ Identity(n) /\ BitsUpTo(n) /\ paging
      /\ tables = {0} /\ placement = PlacementAfter(0)
  BY <1>2, LayoutFacts DEF AtMargin
<1>4. MarginEnd = LowEnd * PageUnits
  BY <1>3, LayoutFacts DEF MarginEnd, PlacementAfter
<1>5. n < LowEnd
  BY <1>3, <1>4, PageOrder, LayoutFacts DEF MapMargin
<1>6. n < TableSpan /\ n + 1 \in Base + 5 .. LowEnd /\ n + 1 \in 0 .. HeapMax
  BY <1>3, <1>5, LayoutFacts
<1>7. PageOf(i) = n /\ TableOf(i) = 0
  BY <1>3, <1>6, PageOfUnits, TableOfPage
<1>8. MapPage(i, "margin") /\ i' = i + PageUnits /\ UNCHANGED <<paging, end>>
  BY DEF MapMargin
<1>9. i' = (n + 1) * PageUnits /\ i' \in Nat
  BY <1>3, <1>8, NextPage
<1>10. alloc_frame(n, "margin") /\ UNCHANGED <<placement, tables>>
  BY <1>3, <1>7, <1>8 DEF MapPage
<1>11. /\ pc' = "margin"
       /\ Identity(n + 1)' /\ BitsUpTo(n + 1)'
       /\ frames' \subseteq 0 .. NFrames - 1
       /\ page' \in [Pages -> [present : BOOLEAN, frame : 0 .. NFrames - 1]]
  BY <1>1, <1>3, <1>5, <1>10, AllocNext
<1>12. AtMargin(n + 1)'
  BY <1>3, <1>6, <1>8, <1>9, <1>10, <1>11 DEF AtMargin, PlacementAfter, LowEnd
<1>13. pgTypeOK'
  BY <1>1, <1>8, <1>9, <1>10, <1>11 DEF pgTypeOK, Pages
<1> QED
  BY <1>6, <1>11, <1>12, <1>13 DEF layInv

\* The margin is mapped; the loop over the heap area begins.
LEMMA MarginDoneLays ==
  ASSUME layInv, MarginDone
  PROVE  layInv'
<1>1. pgTypeOK
  BY DEF layInv
<1>2. PICK n \in 0 .. HeapMax : AtMargin(n)
  BY DEF layInv, MarginDone
<1>3. /\ n \in Nat /\ i = n * PageUnits /\ n \in Base + 5 .. LowEnd
      /\ Identity(n) /\ paging
      /\ tables = {0} /\ placement = PlacementAfter(0)
  BY <1>2, LayoutFacts DEF AtMargin
<1>4. MarginEnd = LowEnd * PageUnits
  BY <1>3, LayoutFacts DEF MarginEnd, PlacementAfter
<1>5. n = LowEnd
  BY <1>3, <1>4, PageOrder, LayoutFacts DEF MarginDone
<1>6. /\ i' = HeapStart * PageUnits /\ pc' = "heap"
      /\ UNCHANGED <<placement, frames, tables, page, paging, end>>
  BY DEF MarginDone
<1>7. HeapStart \in HeapStart .. HeapMax /\ HeapStart \in 0 .. HeapMax /\ HeapTables(HeapStart) = 0
  BY LayoutFacts, AllHeapTables
<1>8. {0} = {0} \cup (FirstTable .. FirstTable + 0 - 1)
  BY HeapTableFacts
<1>9. Identity(LowEnd)'
  BY <1>3, <1>5, <1>6 DEF Identity, Pages, NoEntry, LowEnd
<1>10. AtHeap(HeapStart)'
  <2>1. tables' = {0} \cup (FirstTable .. FirstTable + HeapTables(HeapStart) - 1)
    BY <1>3, <1>6, <1>7, <1>8
  <2>2. placement' = PlacementAfter(HeapTables(HeapStart))
    BY <1>3, <1>6, <1>7
  <2> QED
    BY <1>3, <1>6, <1>7, <1>9, <2>1, <2>2
       DEF AtHeap, PlacementAfter, HeapTables, FirstTable
<1>11. pgTypeOK'
  <2>1. HeapStart * PageUnits \in Nat
    BY LayoutFacts
  <2> QED
    BY <1>1, <1>6, <2>1 DEF pgTypeOK, Pages
<1> QED
  BY <1>6, <1>7, <1>10, <1>11 DEF layInv

\* The tables of the heap area are tables of pages.
LEMMA TablesTyped ==
  ASSUME NEW h \in HeapStart .. HeapMax - 1
  PROVE  h \div TableSpan \in {p \div TableSpan : p \in Pages}
  BY LayoutFacts DEF Pages

\* Placement while the tables of the heap are made.
LEMMA PlacementOrder ==
  ASSUME NEW t \in 0 .. LastTable - FirstTable + 1
  PROVE  /\ PlacementAfter(t) \in Nat
         /\ PlacementAfter(t) <= PlacementAfter(HeapTables(HeapMax)) + PageUnits + 1
<1> DEFINE a == Base + 5 + 2 * t
           b == Base + 5 + 2 * (LastTable - FirstTable + 1)
<1>1. a \in Nat /\ b \in Nat /\ a <= b
  BY LayoutFacts, HeapTableFacts
<1>2. PlacementAfter(t) = a * PageUnits /\ PlacementAfter(HeapTables(HeapMax)) = b * PageUnits
  BY AllHeapTables DEF PlacementAfter
<1> HIDE DEF a, b
<1>3. a * PageUnits \in Nat /\ b * PageUnits \in Nat
  BY <1>1, NextPage
<1>4. a * PageUnits <= b * PageUnits
  <2>1. ~(b * PageUnits < a * PageUnits)
    BY <1>1, PageOrder
  <2> QED
    BY <1>3, <2>1
<1> QED
  BY <1>2, <1>3, <1>4, LayoutFacts

\* heap_install's second loop: page tables come from the margin, frames from
\* wherever there are any.
LEMMA MapHeapLays ==
  ASSUME layInv, MapHeap
  PROVE  layInv'
<1>1. pgTypeOK
  BY DEF layInv
<1>2. PICK h \in 0 .. HeapMax : AtHeap(h)
  BY DEF layInv, MapHeap
<1>3. /\ h \in Nat /\ i = h * PageUnits /\ paging /\ h \in HeapStart .. HeapMax
      /\ tables = {0} \cup (FirstTable .. FirstTable + HeapTables(h) - 1)
      /\ placement = PlacementAfter(HeapTables(h))
      /\ Identity(LowEnd)
  BY <1>2 DEF AtHeap
<1>4. h \in HeapStart .. HeapMax - 1
  <2>1. h < HeapMax
    BY <1>3, PageOrder, LayoutFacts DEF MapHeap
  <2> QED
    BY <1>3, <2>1, LayoutFacts
<1>5. MapPage(h * PageUnits, "heap") /\ i' = i + PageUnits /\ UNCHANGED <<paging, end>>
  BY <1>3 DEF MapHeap
<1>6. i' = (h + 1) * PageUnits /\ i' \in Nat
  BY <1>3, <1>5, NextPage
<1> DEFINE t == HeapTables(h)
           u == HeapTables(h + 1)
<1>7. /\ h + 1 \in HeapStart .. HeapMax
      /\ t \in 0 .. LastTable - FirstTable + 1
      /\ u \in 1 .. LastTable - FirstTable + 1
      /\ h \div TableSpan = FirstTable + u - 1
      /\ u = t \/ u = t + 1
  BY <1>4, HeapTablesStep
<1>8. tables = {0} \cup (FirstTable .. FirstTable + t - 1) /\ placement = PlacementAfter(t)
  BY <1>3
<1> HIDE DEF t, u
<1>9. /\ Identity(LowEnd)'
      /\ frames' \subseteq 0 .. NFrames - 1
      /\ page' \in [Pages -> [present : BOOLEAN, frame : 0 .. NFrames - 1]]
      /\ pc' = "heap" \/ (pc' = "panic" /\ FreeFrames = {} /\ FreeFrames' = {})
      /\ placement' = PlacementAfter(u)
      /\ tables' = {0} \cup (FirstTable .. FirstTable + u - 1)
      /\ tables' \subseteq tables \cup {h \div TableSpan}
  <2>1. CASE u = t
    <3>1. h \div TableSpan \in tables
      BY <1>7, <1>8, <2>1, HeapTableFacts
    <3> QED
      BY <1>1, <1>3, <1>4, <1>5, <1>8, <2>1, <3>1, MapHeapPage
  <2>2. CASE u = t + 1
    <3>1. h \div TableSpan \notin tables /\ t \in 0 .. LastTable - FirstTable
      BY <1>7, <1>8, <2>2, HeapTableFacts
    <3>2. /\ Identity(LowEnd)'
          /\ frames' \subseteq 0 .. NFrames - 1
          /\ page' \in [Pages -> [present : BOOLEAN, frame : 0 .. NFrames - 1]]
          /\ pc' = "heap" \/ (pc' = "panic" /\ FreeFrames = {} /\ FreeFrames' = {})
          /\ placement' = PlacementAfter(t + 1)
          /\ tables' = tables \cup {h \div TableSpan}
      BY <1>1, <1>3, <1>4, <1>5, <1>8, <3>1, MapHeapTable
    <3>3. tables \cup {h \div TableSpan} = {0} \cup (FirstTable .. FirstTable + u - 1)
      BY <1>7, <1>8, <2>2, HeapTableFacts
    <3> QED
      BY <2>2, <3>2, <3>3
  <2> QED
    BY <1>7, <2>1, <2>2
<1>10. placement' \in Nat /\ placement' <= PlacementAfter(HeapTables(HeapMax)) + PageUnits + 1
  <2>1. u \in 0 .. LastTable - FirstTable + 1
    BY <1>7, HeapTableFacts
  <2> QED
    BY <1>9, <2>1, PlacementOrder
<1>11. pgTypeOK'
  <2>1. tables' \subseteq {p \div TableSpan : p \in Pages}
    BY <1>1, <1>4, <1>9, TablesTyped DEF pgTypeOK
  <2> QED
    BY <1>1, <1>5, <1>6, <1>9, <1>10, <2>1 DEF pgTypeOK, Pages
<1>12. CASE pc' = "heap"
  <2>1. AtHeap(h + 1)'
    <3>1. placement' = PlacementAfter(HeapTables(h + 1))
      BY <1>9 DEF u
    <3>2. tables' = {0} \cup (FirstTable .. FirstTable + HeapTables(h + 1) - 1)
      BY <1>9 DEF u
    <3> QED
      BY <1>3, <1>5, <1>6, <1>7, <1>9, <3>1, <3>2
         DEF AtHeap, PlacementAfter, HeapTables, FirstTable
  <2>2. h + 1 \in 0 .. HeapMax
    BY <1>7, LayoutFacts
  <2> QED
    BY <1>11, <1>12, <2>1, <2>2 DEF layInv
<1>13. CASE pc' = "panic"
  <2>1. FreeFrames' = {}
    BY <1>9, <1>13
  <2>2. AtWork'
    BY <1>3, <1>5, <1>9, <1>10, <1>13, <2>1
       DEF AtWork, PlacementAfter, HeapTables, FirstTable
  <2> QED
    BY <1>11, <1>13, <2>2 DEF layInv
<1> QED
  BY <1>9, <1>12, <1>13

\* create_heap writes its heap_t to the margin, too.
LEMMA CreateHeapLays ==
  ASSUME layInv, CreateHeap
  PROVE  layInv'
<1>1. pgTypeOK
  BY DEF layInv
<1>2. PICK h \in 0 .. HeapMax : AtHeap(h)
  BY DEF layInv, CreateHeap
<1>3. /\ h \in Nat /\ i = h * PageUnits /\ paging /\ h \in HeapStart .. HeapMax
      /\ tables = {0} \cup (FirstTable .. FirstTable + HeapTables(h) - 1)
      /\ placement = PlacementAfter(HeapTables(h))
      /\ Identity(LowEnd)
  BY <1>2 DEF AtHeap
<1>4. h = HeapMax
  BY <1>3, PageOrder, LayoutFacts DEF CreateHeap
<1> DEFINE a == Base + 5 + 2 * (LastTable - FirstTable + 1)
<1>5. a \in Nat /\ a >= 1 /\ a + 1 < LowEnd /\ a + 1 \in Nat
  BY LayoutFacts, HeapTableFacts, LayoutAssumption DEF LayoutAssumption
<1>6. placement = a * PageUnits /\ PlacementAfter(HeapTables(HeapMax)) = a * PageUnits
  BY <1>3, <1>4, AllHeapTables DEF PlacementAfter
<1>7. tables = {0} \cup (FirstTable .. LastTable)
  <2>1. FirstTable + (LastTable - FirstTable + 1) - 1 = LastTable
    BY HeapTableFacts
  <2> QED
    BY <1>3, <1>4, <2>1, AllHeapTables
<1> HIDE DEF a
<1>8. Align(placement) = (a + 1) * PageUnits /\ PageOf(Align(placement)) = a + 1
  BY <1>5, <1>6, AlignBoundary
<1>9. Touchable(PageOf(Align(placement)))
  <2>1. a + 1 \in Pages
    BY <1>5, LayoutFacts DEF Pages
  <2>2. page[a + 1] = [present |-> TRUE, frame |-> a + 1]
    BY <1>3, <1>5, <2>1 DEF Identity
  <2> QED
    BY <1>8, <2>1, <2>2 DEF Touchable, Present
<1>10. /\ pc' = "run" /\ placement' = Align(placement) + HeapUnits
       /\ UNCHANGED <<i, frames, tables, page, paging, end>>
  BY <1>9 DEF CreateHeap
<1>11. placement' = a * PageUnits + PageUnits + 1 /\ placement' \in Nat
  <2>1. (a + 1) * PageUnits = a * PageUnits + PageUnits /\ a * PageUnits \in Nat
    BY <1>5, NextPage
  <2> QED
    BY <1>8, <1>10, <2>1, LayoutFacts DEF HeapUnits
<1>12. Identity(LowEnd)'
  BY <1>3, <1>10 DEF Identity, Pages, NoEntry, LowEnd
<1>13. placement' <= PlacementAfter(HeapTables(HeapMax)) + PageUnits + 1
  BY <1>6, <1>11
<1>14. AtWork'
  BY <1>3, <1>7, <1>10, <1>12, <1>13
     DEF AtWork, PlacementAfter, HeapTables, FirstTable, LastTable
<1>15. pgTypeOK'
  BY <1>1, <1>10, <1>11 DEF pgTypeOK, Pages
<1> QED
  BY <1>10, <1>14, <1>15 DEF layInv

\* expand finds the page table of the page it maps.
LEMMA ExpandPageLays ==
  ASSUME layInv, ExpandPage
  PROVE  layInv'
<1>1. pgTypeOK /\ AtWork
  BY DEF layInv, ExpandPage
<1>2. /\ paging /\ Identity(LowEnd) /\ tables = {0} \cup (FirstTable .. LastTable)
      /\ placement <= PlacementAfter(HeapTables(HeapMax)) + PageUnits + 1
  BY <1>1 DEF AtWork, ExpandPage
<1>3. end \in Nat /\ end \in HeapStart .. HeapMax - 1 /\ end + 1 \in HeapStart .. HeapMax
  BY <1>1, LayoutFacts DEF pgTypeOK, ExpandPage
<1>4. end \div TableSpan \in tables
  <2>1. end \div TableSpan \in FirstTable .. LastTable
    BY <1>3, LayoutFacts, TableOrder, TableOfPage, HeapTableFacts DEF FirstTable, LastTable
  <2> QED
    BY <1>2, <2>1
<1>5. MapPage(end * PageUnits, "run") /\ end' = end + 1 /\ UNCHANGED <<i, paging>>
  BY DEF ExpandPage
<1>6. /\ Identity(LowEnd)'
      /\ frames' \subseteq 0 .. NFrames - 1
      /\ page' \in [Pages -> [present : BOOLEAN, frame : 0 .. NFrames - 1]]
      /\ pc' = "run" \/ (pc' = "panic" /\ FreeFrames = {} /\ FreeFrames' = {})
      /\ UNCHANGED <<placement, tables>>
  BY <1>1, <1>2, <1>3, <1>4, <1>5, MapHeapPage
<1>7. AtWork'
  BY <1>2, <1>5, <1>6 DEF AtWork, PlacementAfter, HeapTables, FirstTable, LastTable
<1>8. pgTypeOK'
  BY <1>1, <1>3, <1>5, <1>6 DEF pgTypeOK, Pages
<1> QED
  BY <1>6, <1>7, <1>8 DEF layInv

\* contract changes entries of the heap area only.
LEMMA ContractLays ==
  ASSUME layInv, NEW e, Contract(e)
  PROVE  layInv'
<1>1. pgTypeOK /\ AtWork
  BY DEF layInv, Contract
<1> DEFINE P == e + 1 .. end - 1
<1>2. /\ P \subseteq Pages /\ end' \in HeapStart .. HeapMax
      /\ \A p \in P : p >= HeapStart
  BY <1>1, LayoutFacts, PagingAssumption DEF Contract, pgTypeOK, Pages, PagingAssumption
<1>3. free_frame(P) /\ pc = "run" /\ UNCHANGED <<pc, i, placement, tables, paging>>
  BY DEF Contract
<1> HIDE DEF P
<1>4. /\ frames' \subseteq 0 .. NFrames - 1
      /\ page' \in [Pages -> [present : BOOLEAN, frame : 0 .. NFrames - 1]]
      /\ \A q \in Pages : q < HeapStart => page'[q] = page[q]
  <2>1. /\ page' \in [Pages -> [present : BOOLEAN, frame : 0 .. NFrames - 1]]
        /\ \A q \in Pages : q \notin P => page'[q] = page[q]
        /\ frames' \subseteq frames
    BY <1>1, <1>2, <1>3, FreeFrameEffect DEF pgTypeOK
  <2>2. \A q \in Pages : q < HeapStart => q \notin P
    BY <1>2, LayoutFacts DEF Pages
  <2>3. frames \subseteq 0 .. NFrames - 1
    BY <1>1 DEF pgTypeOK
  <2> QED
    BY <2>1, <2>2, <2>3
<1>5. Identity(LowEnd)'
  <2> SUFFICES ASSUME NEW q \in Pages
               PROVE  /\ q < LowEnd => page'[q] = [present |-> TRUE, frame |-> q]
                      /\ q \in LowEnd .. HeapStart - 1 => page'[q] = NoEntry
    BY DEF Identity, Pages, NoEntry, LowEnd
  <2>1. (q < LowEnd \/ q \in LowEnd .. HeapStart - 1) => q < HeapStart
    BY LayoutFacts DEF Pages
  <2> QED
    BY <1>1, <1>4, <2>1 DEF AtWork, Identity
<1>6. AtWork'
  BY <1>1, <1>3, <1>5 DEF AtWork, PlacementAfter, HeapTables, FirstTable, LastTable
<1>7. pgTypeOK'
  BY <1>1, <1>2, <1>3, <1>4 DEF pgTypeOK, Pages
<1> QED
  BY <1>3, <1>6, <1>7 DEF layInv

-----------------------------------------------------------------------------
(* The layout of boot: the theorems.                                       *)

\* layInv holds in every reachable state: boot maps page after page as if the
\* loops counted them.
THEOREM LayoutInvariant == pgSpec => []layInv
<1>1. pgInit => layInv
  <2> SUFFICES ASSUME pgInit
               PROVE  layInv
    OBVIOUS
  <2>1. NoEntry \in [present : BOOLEAN, frame : 0 .. NFrames - 1]
    BY LayoutFacts DEF NoEntry
  <2>2. page \in [Pages -> [present : BOOLEAN, frame : 0 .. NFrames - 1]]
    BY <2>1 DEF pgInit
  <2>3. Base * PageUnits \in Nat
    BY LayoutFacts
  <2>4. HeapStart + InitialPages \in HeapStart .. HeapMax
    BY PagingAssumption DEF PagingAssumption
  <2>5. frames \subseteq 0 .. NFrames - 1
    BY LayoutFacts DEF pgInit
  <2>6. pgTypeOK
    BY <2>2, <2>3, <2>4, <2>5 DEF pgInit, pgTypeOK
  <2>7. Identity(0)
    BY LayoutFacts DEF pgInit, Identity, Pages
  <2>8. BitsUpTo(0)
    BY LayoutFacts DEF pgInit, BitsUpTo
  <2>9. AtStart
    BY <2>7, <2>8 DEF pgInit, AtStart
  <2> QED
    BY <2>6, <2>9 DEF pgInit, layInv
<1>2. layInv /\ [pgNext]_pgVars => layInv'
  <2> SUFFICES ASSUME layInv, [pgNext]_pgVars
               PROVE  layInv'
    OBVIOUS
  <2>1. CASE MakeDirectory
    BY <2>1, MakeDirectoryLays
  <2>2. CASE IdentityMap
    BY <2>2, IdentityMapLays
  <2>3. CASE EnablePaging
    BY <2>3, EnablePagingLays
  <2>4. CASE MapMargin
    BY <2>4, MapMarginLays
  <2>5. CASE MarginDone
    BY <2>5, MarginDoneLays
  <2>6. CASE MapHeap
    BY <2>6, MapHeapLays
  <2>7. CASE CreateHeap
    BY <2>7, CreateHeapLays
  <2>8. CASE ExpandPage
    BY <2>8, ExpandPageLays
  <2>9. ASSUME NEW e \in HeapStart .. HeapMax, Contract(e)
        PROVE  layInv'
    BY <2>9, ContractLays
  <2>10. CASE UNCHANGED pgVars
    BY <2>10
       DEF pgVars, layInv, pgTypeOK, AtStart, AtIdentity, AtMargin, AtHeap, AtWork, Identity,
           BitsUpTo, HeapTables, PlacementAfter, FreeFrames, Pages, NoEntry, LowEnd,
           FirstTable, LastTable
  <2> QED
    BY <2>1, <2>2, <2>3, <2>4, <2>5, <2>6, <2>7, <2>8, <2>9, <2>10 DEF pgNext, Boot
<1> QED
  BY <1>1, <1>2, PTL DEF pgSpec

\* The types of paging's state.
THEOREM PagingTypes == pgSpec => []pgTypeOK
<1>1. layInv => pgTypeOK
  BY DEF layInv
<1> QED
  BY <1>1, LayoutInvariant, PTL

\* IdentityMapped: once paging is on (paging.c:65-79), what the placement
\* allocator has handed out is mapped to itself, page tables made since included.
THEOREM PlacementIsMapped == pgSpec => []IdentityMapped
<1>1. layInv => IdentityMapped
  <2> SUFFICES ASSUME layInv, paging, NEW p \in Pages, p * PageUnits < placement
               PROVE  page[p] = [present |-> TRUE, frame |-> p]
    BY DEF IdentityMapped
  <2>1. p \in Nat
    BY DEF Pages
  <2>2. pc # "start" /\ pc # "identity"
    BY DEF layInv, AtStart, AtIdentity
  <2>3. CASE pc = "margin"
    <3>1. PICK n \in 0 .. HeapMax : AtMargin(n)
      BY <2>3 DEF layInv
    <3>2. placement = (Base + 5) * PageUnits
      <4>1. Base + 5 + 2 * 0 = Base + 5
        BY LayoutFacts
      <4> QED
        BY <3>1, <4>1 DEF AtMargin, PlacementAfter
    <3>3. p < Base + 5
      BY <2>1, <3>2, PageOrder, LayoutFacts
    <3>4. p < n
      BY <2>1, <3>1, <3>3, LayoutFacts DEF AtMargin
    <3> QED
      BY <3>1, <3>4 DEF AtMargin, Identity
  <2> DEFINE b == Base + 6 + 2 * (LastTable - FirstTable + 1)
  <2>4. b \in Nat /\ b < LowEnd
    BY LayoutFacts, HeapTableFacts, LayoutAssumption DEF LayoutAssumption
  <2>5. PlacementAfter(HeapTables(HeapMax)) + PageUnits + 1 = b * PageUnits + 1
    BY AllHeapTables, LayoutFacts, HeapTableFacts DEF PlacementAfter
  <2>6. ASSUME placement <= b * PageUnits + 1, Identity(LowEnd)
        PROVE  page[p] = [present |-> TRUE, frame |-> p]
    <3> HIDE DEF b
    <3>1. b * PageUnits \in Nat /\ p * PageUnits \in Nat /\ placement \in Nat
      BY <2>1, <2>4, NextPage DEF layInv, pgTypeOK
    <3>2. p * PageUnits < b * PageUnits + 1
      BY <2>6, <3>1
    <3>3. p < LowEnd
      BY <2>1, <2>4, <3>2, PageOrder, LayoutFacts
    <3> QED
      BY <2>6, <3>3 DEF Identity
  <2>7. CASE pc = "heap"
    <3>1. PICK h \in 0 .. HeapMax : AtHeap(h)
      BY <2>7 DEF layInv
    <3>2. h \in HeapStart .. HeapMax /\ placement = PlacementAfter(HeapTables(h)) /\ Identity(LowEnd)
      BY <3>1 DEF AtHeap
    <3>3. HeapTables(h) \in 0 .. LastTable - FirstTable + 1
      <4>1. CASE h = HeapMax
        BY <4>1, AllHeapTables, HeapTableFacts
      <4>2. CASE h # HeapMax
        BY <3>2, <4>2, HeapTablesStep, LayoutFacts
      <4> QED
        BY <4>1, <4>2
    <3>4. placement <= b * PageUnits + 1
      BY <2>5, <3>2, <3>3, PlacementOrder
    <3> QED
      BY <2>6, <3>2, <3>4
  <2>8. CASE pc \in {"run", "panic"}
    <3>1. AtWork
      BY <2>8 DEF layInv
    <3> QED
      BY <2>5, <2>6, <3>1 DEF AtWork
  <2>9. pc \in {"start", "identity", "margin", "heap", "run", "panic", "undefined"} /\ pc # "undefined"
    BY DEF layInv, pgTypeOK
  <2> QED
    BY <2>2, <2>3, <2>7, <2>8, <2>9
<1> QED
  BY <1>1, LayoutInvariant, PTL

\* ExhaustionPanics: the write of set_frame(ULONG_MAX) behind the bitmap
\* (paging.c:265-270) always faults.
THEOREM NoWildWrite == pgSpec => []ExhaustionPanics
<1>1. layInv => ExhaustionPanics
  BY DEF layInv, ExhaustionPanics
<1> QED
  BY <1>1, LayoutInvariant, PTL

\* FaultsOnlyWhenExhausted: the page tables and the heap_t that heap_install
\* takes fit in the margin it maps first (kheap.c:17-28).
THEOREM MarginIsEnough == pgSpec => []FaultsOnlyWhenExhausted
<1>1. layInv => FaultsOnlyWhenExhausted
  BY DEF layInv, AtWork, FaultsOnlyWhenExhausted
<1> QED
  BY <1>1, LayoutInvariant, PTL
=============================================================================
