# A TLA+ model of the GekonOS kernel

GekonOS is a 32-bit x86 kernel of about 4000 lines: it boots from GRUB, sets up
segments, interrupts, paging and a heap, and then runs a shell that reads the
keyboard. There is one CPU and no scheduler. All concurrency is between the one
thread of `kmain`, which ends in the shell's loop, and interrupt handlers; all
failure is devices that do not answer, memory that runs out, and state that one
part leaves behind for another.

This directory models those parts in TLA+, checks them with TLC and proves the
core of them with TLAPS. Line references are to files of `src/`; `kernel/` is
`src/kernel/`.

## 1. Inventory

| Part | Code | State | Operations | Hard because | Correct when |
|---|---|---|---|---|---|
| Keyboard buffer | `kernel/include/queue.h`, `kernel/keyboard.c:236-262` | ring, `in_ptr`, `out_ptr` | `fifo_insert`, `fifo_get`, `fifo_empty`, `kbd_keys_available`, `kbd_get_key` | the handler runs between any two instructions of the reader | a bounded FIFO; interrupts masked exactly in the critical sections; it drains |
| Keyboard driver | `kernel/keyboard.c:15-194` | `kbd_status`, LEDs in the device | `keyboard_callback`, `write_kbd` | any order of make, break, repeat and prefix bytes; time-outs | bits have a key behind them; LEDs follow locks; keys are translated by the tables |
| Shell | `kernel/shell.c` | `cli[256]`, `cli_len` | `lsh_loop`, `parse_cli`, `show_cmdline` | keys arrive at any time; fixed-size line | the line run is the line typed; no cell beyond `cli[]` is written |
| Interrupts and boot | `kernel/isr.c`, `idt.c`, `pic.c`, `interrupt.asm`, `kernel.c` | IDT, `interrupt_handlers[]`, IF; PIC registers | `IDT_Init`, `irq_remap`, `irq_handler`, `isr_handler`, `register_interrupt_handler`, `kmain` | devices interrupt during boot; EOI before the handler; spurious interrupts | no nesting; no line left blocked; every request taken; every byte read |
| Timer | `kernel/timer.c` | `ticks` | `timer_init`, `timer_callback` | registered after `sti` | ticks are counted once registered |
| Placement allocator and paging | `kernel/mm.c`, `paging.c`, `kheap.c:13-59` | `placement_address`, `frames`, page tables | `kmalloc_int`, `paging_init`, `get_page`, `set_page`, `alloc_frame`, `free_frame`, `heap_install` | a loop that moves its own end; a bitmap only partly cleared; exhaustion | allocated memory mapped to itself; no frame used twice |
| Kernel heap | `kernel/kheap.c` | headers, footers, index | `alloc`, `free`, `expand`, `contract` | splitting, unifying, page alignment, unsigned arithmetic | blocks disjoint; holes all indexed and coalesced |
| Ordered array | `kernel/ordered_array.c` | array, size | `insert`, `lookup`, `remove` | items change order after insertion | sorted; same bag of items |
| Text console | `kernel/video.c`, `common.c` | cells, cursor, CRT registers | `kprintf`, `ScrollScreen`, `MoveCursor`, `kpanic`, `panic_assert` | the handler prints into the same cursor, without a lock; bounds are tested after whole items and whole calls | the cursor is on the page between calls; the page shows what was printed; a stopped kernel prints no more |
| Framebuffer, GUI | `kernel/vbe.c`, `gui.c` | frame buffer, window table | `VBE_DrawPixel`, `VBE_DrawRect`, `VBE_DrawLine`, `GUI_CreateWindow`, `GUI_Draw*` | an error term in integers; half-open and closed rectangles drawn over each other | lines straight and complete; each turn leaves the picture of overlapping windows |
| libc | `libc/*.c` | none | `itoa`, `toupper`, `abs`, `strcmp`, `strcpy`, ... | numeric edges, fixed buffers | results as a reader of the output expects |
| Segments, entry, ports | `gdt.c`, `kentry.asm`, `x86.asm` | descriptors | set-up only | | |
| Mouse driver | `kernel/mouse.c` | | | not built: absent from the Makefile | |

Interactions: `keyboard_callback` (interrupt) and the shell share the ring and
IF. `irq_handler` calls whatever `register_interrupt_handler` stored. The shell
calls `GUI_Init`, which ends in a page fault and so in `kpanic`, since paging
maps no frame buffer. `paging_init`
and `heap_install` allocate through `kmalloc`, which they are in the course of
mapping; after `create_heap`, `kmalloc` goes to the heap, which maps and unmaps
pages through `alloc_frame` and `free_frame`. Everybody prints: `kmain` and the
shell, the exception handlers, and `keyboard_callback` from its interrupt.

## 2. Modules

    BoundedQueue <--- KbdBuffer ---> Keyboard (with KeyMaps)
                          |
    Terminal <----------- Shell         Interrupts         Paging

    Allocator <--- KHeap (with OrderedArray)

    Itoa ---> Teletype ---> Console         Line ---> Gui

An arrow to the left reads "implements"; one to the right, or down, "is extended
by".

**`BoundedQueue`** is the abstract queue: keys arrive, are queued if there is
room and dropped if there is none, and leave oldest first, or the reader is told
there is none. Every arrival is a step that can be seen (`arrival`), so a ring
that drops a key for which there is room does not implement it.

**`KbdBuffer`** is the ring, and the reader's instructions cut where they leave
it half updated: lock, test, unlock; lock, take (`out_ptr++`), wrap, unlock. A
handler run is one step, because every gate is an interrupt gate (`0x8E`,
`kernel/idt.c:37-86`); `Interrupts` shows that this holds (`NeverNested`). The
refinement maps the ring to the sequence between the indices; `arrival`, a history
variable, holds the key `fifo_insert` was called with last and a bit that turns at
each call.

**`KeyMaps`** holds the two tables of `kernel/keyboard.c:15-37` entry by entry.

**`Keyboard`** extends `KbdBuffer` with the driver. The keyboard is external:
keys go down, repeat and come up; bytes wait on `wire`. Each branch of
`keyboard_callback` is an action: `BreakCode`, `ModifierMake`, `LockMake`,
`KeyMake`. `LockMake` contains both `write_kbd` calls and whether each timed
out; the device is modelled as far as knowing whether it expects an LED byte.
That CapsLock's result is computed and not used is in `KeyMake`.

**`Terminal`** is what keyboard and shell promise together: keys typed, waiting,
edited into a line, a line run. **`Shell`** extends `KbdBuffer`, replacing its
`Consume` by the `switch` of `lsh_loop`; the refinement maps the queue and the
key in hand to the waiting keys and `cli[0..cli_len-1]` to the line. `halt` and
`gui` are the two commands that stop; of the others nothing but the screen
changes, so a line is either one of those two or not. A write beyond `cli[]`
leads to `mode = "undefined"`, after which nothing is claimed.

**`Interrupts`** has the calls of `kmain` in order, the two controllers with
requested and in-service lines, and one interrupt in its steps: entry, slave
EOI, master EOI, dispatch, `iret`. Devices raise edges between all of them. The
CPU executes `kmain` only when it has no interrupt to take, as the hardware
does. The shell is its masked and unmasked halves.

**`Paging`** follows memory from the first `kmalloc` to the heap at work. Page
size, table span, margin and heap area are constants. A touch of an unmapped
page with paging on ends in `panic`. The bits of the bitmap beyond those that
`memset` clears are arbitrary at the start. `free_frame` clears the bit of
`frame / 4096`, because `clear_frame` takes the frame's number for an address and
divides once more (`ClearedBit`, `FrameDivisor`); the frames whose bit it may
clear so are `LowFrames`, of the code's 2^20 at most the first 256. `Contract(e)`
unmaps the pages behind the one at the new end `e`, which stays mapped, as the loop
of `kernel/kheap.c:75-81` ends before it.

**`Allocator`** is what a heap promises: blocks inside the heap, apart from each
other, staying where they are until they are freed. **`OrderedArray`** has the
index's `insert`, `remove` and search as operators on sequences. **`KHeap`** is
`kernel/kheap.c` on memory words, so that stale and overlapping headers and
footers are read as the code would read them; a word of 32 bits is one unit, so
a header takes 3, a footer 2, and addresses and sizes wrap at `2^Bits`. Two words
stand for data: `MAGIC` and `DATA` (anything a client wrote). The clients are
external: they ask for plain or page-aligned blocks (`Call`), write to what they
own, and free in any order.

The code gets four situations wrong, each a few lines to recognise. The history
variable `defect` keeps the name of the first that arose; no action reads it, and
the model goes on as the code does:

- `cramped`: for an aligned block a hole is split so that fewer words than a
  header and footer take are left in front or behind (`kernel/kheap.c:239-284`);
- `expand`: the words of an expansion go to the hole with the highest address,
  which does not lie at the end of the heap, so it grows over live blocks
  (`kernel/kheap.c:184-221`). It takes no exotic client: an aligned block, as
  `kmain` asks for, leaves a hole in front, and then the rest is used up;
- `footer`: a hole that ends in front of a freed block has an old footer, which
  names a header that has vanished (`kernel/kheap.c:309-318`, `326-328`);
- `contract`: the new end leaves the hole at the end no room
  (`kernel/kheap.c:66-73`).

The properties say that the heap is a heap until the first of them (`Sound`), and
the proofs that there is no fifth. After it they say nothing: the next call may
read any word as a header.

- `alloc` is two actions, because it calls itself: `AllocBlock` when a hole fits,
  `AllocExpand` when none does; `request` holds the call in progress. What
  `AllocBlock` does is a chain of operators named for the parts of the code
  (`TakeHole`, `SplitFront`, `WriteBlock`, `SplitRest`), with every word touched.
- `Free` is one action, likewise a chain: `MakeHole`, `UnifyLeft`, `UnifyRight`,
  `Contract`, `AddToIndex`. A failed assertion stops the chain (`panic`); a word
  of client data read as a header stops it too (`undefined`).
- The branches that follow, as in the code: a hole's `is_hole` field that holds
  a pointer counts as set (its low byte is taken as not zero); pages given back
  by `contract` read as 0.

**`Itoa`** is `itoa` and `toupper` on sequences of characters, the digits
collected from the last to the first and reversed as in the code, next to
positional notation as the reference (`Numeral`). **`Teletype`** is what a
console promises: a page on which each item of a message appears where the one
before it ended, and which moves up when a line begins below the last; `Plain`
names the messages for which `kprintf` can keep that promise.

**`Console`** is `kernel/video.c` cut at its accesses to the shared cursor and to
the CRT controller. Two threads call `kprintf`: main, and the keyboard handler,
which prints on Ctrl+Alt+Del between any two of main's steps. `frame[t]` is the
call a thread is in: the items left, the copy of the cursor the compiler may
still hold (`Copies` lets it reread or keep it), the stores of a line start in
either order. Main's jobs are `Output`, `Exception` (`kpanic`), `AssertionFails`
(`panic_assert`) and `Halt`, each a script of calls, `cli` and `hlt`. An argument
that `buffer[20]` cannot hold ends in `mode = "undefined"`.

**`Line`** is `VBE_DrawLine`, a turn of its loop a step, with all its locals; and
what a line is without them. **`Gui`** adds the window table and the drawing of
`GUI_Init` in the order of the code, each line run by `Line`. `ClientLine` draws
one line between any two points instead: it is a client the repository does not
have, whose own lines are all level or upright, and shows what `VBE_DrawLine` does
for the slopes that no window has.

The `MC*` modules give the constants their small values. Operators called
"Fault variant of ..." are never part of a specification: each is a plausible
bug, there to see that a property notices it.

## 3. Runs

| Run | cfg | What it shows |
|---|---|---|
| `kbd_buffer` | `MCKbdBuffer` | the ring implements `BoundedQueue`: keys in order, none twice, none dropped but by a full ring; masking is balanced; the reader never gets 0; a full ring drains |
| `keyboard` | `MCKeyboard` | no stuck modifier; LEDs follow the lock bits after every update that got through; the handler does to the buffer what `KbdBuffer` assumes |
| `shell` | `MCShell` | the shell implements `Terminal`; Enter is acted on |
| `interrupts` | `MCInterrupts` | EOIs, nesting, stranded bytes, every request taken |
| `paging` | `MCPaging` | identity mapping; only low frames are ever shared, and only by a heap that has shrunk; no fault and no write behind the bitmap unless memory is exhausted; boot ends |
| `kheap` | `MCKHeap` | up to the first defect, with any clients: holes and blocks tile the heap, clients' data stays, the heap implements `Allocator`, one expansion is enough |
| `console` | `MCConsole` | the cursor is on the page whenever nobody prints; undisturbed messages come out as `Teletype` has them; the hardware cursor is the software's; after `kpanic` and `halt` the page stands; `itoa` against its reference |
| `gui` | `MCGui` | lines are straight and complete; every turn leaves the right picture for 25 pairs of windows |

Four runs end in a counterexample, each a disagreement between the code and
what it says of itself (the `findings` of `PROJECT.json`):

| Run | cfg | What the code does |
|---|---|---|
| `early_key` | `MCEarlyKey` | a key typed before `keyboard_init` silences the keyboard for good |
| `free_frame` | `MCFreeFrame` | unmapping clears the bit of `frame / 4096`, here frame 0, so frame 0 is handed out again and the page's own frame leaks; the heap has to shrink by two pages at least |
| `heap_asserts` | `MCHeapAsserts` | `free` reads a stale header or footer behind the end of the heap and fails its own assertion, with no other defect before |
| `heap_contract` | `MCHeapContract` | `contract` ends the heap below a block in use, or `free` inserts a hole beyond the end into the index again |

Seen while modelling, and part of the model without a run of its own:

- Both Shift keys share one bit, so releasing one un-shifts the other. CapsLock
  lights its LED and changes no letter. With Shift, the cursor keys are shifted
  by one entry, since `shift_map` is one short.
- A long line is written beyond `cli[256]`.
- The page-fault handler is registered and never reached, because `isr_handler`
  panics first. Unmapped pages leak their frames.
- `kprintf` scrolls only when a message ends: text after a newline in the last
  row goes to video memory below the page and is lost (the list of the command
  `help`, when it starts there). It looks for the margin after whole items, so a
  string that crosses it continues on the next row's cells and the cursor starts
  a row too early. `Plain` excludes both; `CursorOnScreen` does not.
- `%x` of a value with the top bit set prints `0x` and no digits; `%08X`, which
  the command `dump` uses, prints `08X`; `'\b'` prints a glyph.
- The texts and file names of the assertions and eight names of exceptions are
  longer than `buffer[20]`, into which `%s` copies them.
- `panic_assert` loops with interrupts on: Ctrl+Alt+Del prints over its message.
- If the handler prints inside main's `MoveCursor`, the hardware cursor can end
  anywhere until the next call. `torn` records this interleaving and
  `HardwareCursorFollows` excuses it, since nothing in the code says that the
  hardware cursor is right then: the property is about every other one.
- Spaces of the mouse's bitmap do not advance the column, so its rows are not
  indented. The borders of a window end one row below its body.

### Bounds

- Ring of 3 slots (`kbd_buffer`): full, empty, wrapped and half-wrapped all
  occur, and the theorem of section 5 holds for every size. Two slots
  elsewhere, where the ring is only a channel.
- `MaxWire = 2` bytes of key events, so that the handler runs behind the keys;
  LED answers come on top. The theorems of section 5 hold for every bound.
- Keys of the keyboard run: left Shift, right Shift, CapsLock and the grey Del:
  two keys of one modifier, a lock with its LED, a key in the extended block that
  only one table has.
- `CliSize = 3`: empty, partly filled, full and overlong lines.
- `MaxEvents = 4` device events (2 in the counterexample run): it bounds the
  edges of all devices together, so a timer cannot starve the rest; the real
  timer ticks every 20 ms against handlers of microseconds. Lines 0, 1, 4, 8
  and 14: both controllers, above and below the cascade. The safety part is
  proved for every set of lines and every number of events.
- `EarlyKeys = FALSE` in the passing run is the assumption that nobody types
  during boot; `early_key` is what happens otherwise.
- `Paging`: 7 pages are mapped by the identity loop, 7 by the margin, 7 by the
  heap, in three page tables; 25 frames of which 8 have arbitrary bits, so that
  some boots have memory enough and some run out at every possible point. The
  17 cleared bits cover the identity and margin pages, as they do on any machine
  with more than about 8.5 MB; with less, paging is lost before it starts.
  `FrameDivisor = 16` makes frames 0 and 1 the low ones, and the heap has frames of
  both kinds, below 16 and from 16 on. In `free_frame` all bits are cleared: the
  sharing does not need a bad bitmap.
- `KHeap`: pages of 8 words; the heap has three at first, two at least, four at
  most, so it expands and contracts and runs out; 8-bit addresses against 40
  words, so a size that went negative shows as a large one. Requests of 4 and 6
  words (9 and 11 with header and footer, both more than a page) and of 1 word
  page-aligned: rests too small, just large enough, and larger. Five blocks at a
  time are as many as the heap holds, for a block takes at least six words of
  its 32; so all four defects come up, each as the first. `MCKHeap.cfg` has the
  `CONSTRAINT Sound`: states behind a defect or a panic are reached and checked, but
  not left, since no property says anything of what follows. The counterexample
  runs have no constraint.

- `Console`: a page of 2 rows of 6, so that every second line scrolls, the margin
  is reached by one item and by several, and tabs end at it. Bytes of 4 values
  make the location of the cursor need both registers. `BufLen = 4`: one name
  fits `buffer`, one does not. Each message is one kind of text. Two jobs of main
  and two runs of the handler: a call that finds what a disturbed one left, and
  a handler in each of them. `itoa` is compared for -300 to 5000. The two proved
  properties hold for every page, all messages and any number of jobs and runs.
- `Gui`: a screen of 9 by 8, two windows out of five (apart, overlapping, one in
  the other, at the edges, as small as a title), a table of 3. Lines between all
  pairs of 35 points: every octant, axis-parallel, diagonal, a single point.

### Fairness

`bufFairSpec` and `shFairSpec` assume weak fairness of the shell's own next step:
it polls and never blocks, and the handler's runs are finite between two of its
instructions. `intFairSpec` assumes that the CPU executes (weak fairness of
`Kernel`) until it is halted; devices need not ever do anything. `pgFairSpec`
assumes the same of the boot code. `KHeap` needs none: that `alloc` does not
recurse for ever is the action property `ExpandsOnce`. (An aligned request in a heap
without a hole is left out of it: the new hole starts at a page boundary, the
aligned words only a page further on, so `alloc` may expand twice.) `Console` and `Gui` claim
nothing that must happen.

Deadlock is not checked where the system really stops: after `halt`, a panic, or
when the bounded events are used up.

## 4. What is not modelled

- Colours of the text console and the wording of messages; `SetCursor` and
  `SetAttribute`, which nobody calls. The two loads of `cursor_x` and `cursor_y`
  for one address are one step. Cells below the page are not kept: the code
  writes there and never reads them.
- `VBE_SetVideoMode`: it writes device registers that nothing reads back. That
  the frame buffer is not mapped is part of `Shell`; `Gui` is what the drawing
  does where it is.
- `itoa` of `INT_MIN`, whose negation is undefined, and of base 2, which divides
  by 10 and has no caller. `append` and `memcpy` have no callers either.
- The divisor of the PIT: how fast the timer ticks is not observable in the model.
- The mouse driver: it is not in the Makefile and includes headers that the
  repository does not have. `gdt.c`, `kentry.asm`, `x86.asm`: straight-line set-up
  of registers and descriptors.
- The TLB: `free_frame` does not invalidate entries. The `rw` and `user` bits:
  CR0.WP stays clear and no code leaves ring 0.
- The `E0 2A`/`E0 AA` bytes a keyboard adds around some keys of the extended
  block when NumLock or Shift is on.
- The capacity of the ordered array (131072 items), which `insert` does not test.
- Where `KHeap` and `Paging` meet: each page the heap gains or gives back is a
  step of `Paging`; `KHeap` takes the whole heap area as mapped, as
  `heap_install` leaves it, except that pages given back lose their contents.
- What follows undefined behaviour: a behaviour ends there.
- The parts marked `not_modelled` in `PROJECT.json`, for the reasons given there.

## 5. Proofs

`KbdBufferProofs` (for every ring size from 2 and every set of keys):

- `BufferInvariant`: `bufInv` is inductive. Types and masking alone are not:
  that `out_ptr` is never seen unwrapped needs to know where the reader is
  whenever it equals the size, and that the reader is never handed 0 needs to
  know that a key it saw stays in the ring and that every slot in use holds a key.
- `MaskingIsBalanced`, `ShellGetsKeys` follow.
- `RingRefinesQueue`: initial states map to initial states; a handler run maps
  to `Put` (`InterruptIsPut`), `GetTake` to `Get` (`GetTakeIsGet`), wrapping to a
  stutter (`GetWrapIsStutter`), the rest changes nothing mapped. `InterruptIsPut`
  needs that `fifo_full` holds exactly when Size - 1 keys are in use.

`KeyboardProofs` (for every set of keys and every bound of the wire):

- `KeyboardInvariant`: `kbdInv` is inductive. `NoStuckModifier` speaks of an
  empty wire only; the strengthening says what the wire must hold meanwhile:
  while no key of a modifier is down, every make code of it on the wire has a
  break code behind it, and so has the bit. Three lemmas on sequences
  (`TailKeepsReleases`, `AppendKeepsReleases`, `AppendReleases`) carry it.
- `ModifiersAreReleased`, `LedsShowLocks`.
- `DriverFeedsBuffer`: every step of the driver is a step of `KbdBuffer` or a
  stutter, so with `RingRefinesQueue`, `DriverRefinesQueue`.

`InterruptsProofs` (for every set of lines with a device and every number of
events):

- `InterruptInvariant`: `intInv` is inductive. `ServiceEndsBeforeHandler` says
  nothing of the state between the two EOIs; `OneMasterLine` does: one line of the
  master at most, the slave's being cleared. `EOIClears` is the lemma about the
  non-specific command. `NeverNested` needs that the shell's critical section
  keeps IF clear. That `ticks` stays within the events needs `TicksStem`: ticks
  counted and pending are never more than the events, and only the timer's vector
  leads to `timer_callback`.
- `EOIsEndService`, `GatesNeverNest`, `InterruptTypes` follow.
- `NoByteStranded`, assuming `~EarlyKeys`: `keyInv` adds that a byte comes only
  when the shell runs, and that `keyboard_callback` is registered by then. Without
  the assumption it is false, which `early_key` shows.

`ShellProofs` (for every size of the buffer and of `cli[]`):

- `ShellInvariant`: `shInv` is the ring's invariant, taken over from
  `KbdBufferProofs` for every step that is one of the ring's, and what connects
  it to the line: the cells below `cli_len` hold keys that are neither Enter, Tab nor
  Backspace, and a stopped shell has interrupts off. `ShellTypes` follows.
- `ShellRefinesTerminal`: a handler run maps to a key typed and `GetTake` to the
  queue's `Get`, by the lemmas of the ring's refinement; the `switch` of
  `lsh_loop` maps to the terminal's editing, one case per kind of key; the step
  that makes the run undefined is the one where the claim ends.

`ConsoleProofs` (for every page, all messages and names, any number of jobs and
interrupts):

- `CursorStaysOnScreen`: nothing keeps the cursor on the page while calls are
  interleaved. `conInv` says who will bring it back: if `cursor_x` is past the
  margin, a thread that stored it still compares its own copy of exactly that
  value, or has the 0 to store (`Owes`); if the row is below the last, a thread is
  before its scroll test (`BeforeScroll`). An interrupted thread that owes a column pays
  after the handler, whatever it did.
- `HaltingIsFinal`: `haltInv` says that a job whose script still has a `hlt` has
  its `cli` in front of it or IF clear already (`ClearsFirst`), so no handler can
  be running when it executes, nor come later.
- `ConsoleTypes`: `typeInv` adds that each frame holds well-typed items and is in
  the middle of one where its step needs one. Its only hard part is that the
  digits of `itoa` are characters: the loop is a recursive function over the
  naturals, and that one exists has to be proved before anything about it
  (`TableExists`, `TableUnique`, `DigitsDefined`). The library's induction takes
  an operator, so the induction is stated for sets (`Complete`).
- `CursorFollows`: `moveInv` says for each of the four port writes of `MoveCursor`
  which byte the controller has, of the location of the shared cursor; this holds
  until main is interrupted between them (`torn`), which the property excuses.
- `ItoaWritesNumerals`: `itoa` writes every integer as `Numeral` has it, in decimal
  with its sign and, unless negative, in hexadecimal. By complete induction over
  the value the `i`-th digit that the loop stores is that of `base^(i-1)` and
  there are as many as `Width` says (`DigitPlaces`); reversing puts the prefix in
  front (`ReverseAppend`). Powers are a recursive function of `Itoa`, since
  the provers have no theory of `^`.
- `TextIsShown`: the message and the call meet in the middle. `textInv` says at each
  step of `kprintf` that the rest of the message, printed by a teletype on the page
  as it is seen now, ends as expected (`Ends`). A cursor in the row below the last
  is seen as a page that has scrolled already (`Now`), since `ScrollScreen` runs
  only at the end; within a text the cells written so far are those of the text
  (`InText`), and a line half begun is seen as begun (`InLine`). `Struck` and `Printed`
  are tables of the pages after each character and item, so that a message can be
  taken apart at its head (`PrintedTail`). One lemma per step of `kprintf`
  (`LoadText` to `LastDoes`) says what it does to the rest. It needs that a tab does
  not wrap the byte `cursor_x`: `COLS + TabStop <= 256`, in the code 80 and 8.

`GuiProofs` (for every resolution, all windows that fit the screen, all end
points, every bitmap of the mouse):

- `LinesAreStraight`: `lineInv` gives the error term its meaning: after `d` turns
  of which `c` were diagonal, `k = d * n - c * m` and `0 <= k < m` (`OnCourse`).
  Then the pixel is `d` along the longer side and `c` along the shorter, its
  distance from the ideal line is `k` in units of `m`, and at the last turn
  `d = m` leaves only `c = n`: the end point. The arithmetic is in lemmas over
  plain integers; the steps cite them for each octant.
- `PictureInvariant`: `picInv` says for every step of `GUI_Init` what every pixel
  shows: the windows of the slots below `i` as they lie over each other (`Under`),
  then what of window `i` is drawn (`Body`, `Titled`, `LeftDone`, `RightDone`), and
  of the border in progress the pixels up to where `VBE_DrawLine` is (`Stroke`).
  The borders are upright or level, for which the line invariant leaves one
  coordinate fixed. `GuiTypes` and `PictureRight` follow.

`PagingProofs` (for every layout of memory, number of frames and content of the
bitmap):

- `FramesAreApart`, for every divisor: `pgInv` says that a frame which an entry
  names and which is not low has its bit set (`NamedIsMarked`), and a low one too
  until `free_frame` clears something (`MappedIsMarked`, `Growing`). So
  `first_free_frame`, which exists because a set of numbers has a least element
  (`LeastExists`), is nobody's, unless it is a low frame and the heap has shrunk.
- `LayoutInvariant`: the three properties about boot are not true of every value
  of the constants, only where the margin is large enough; `LayoutAssumption` says
  how large, and the code's numbers satisfy it: one page table spans everything
  mapped to itself; each table made later takes two pages of the margin (the
  alignment wastes up to one), the `heap_t` two more, and there are 16 for four
  tables; the wild write lands behind the identity map and before the heap.
  `layInv` then gives the state in each loop as a function of its counter
  (`AtIdentity`, `AtMargin`, `AtHeap`): the frames are handed out in the order of
  the pages, so page `n` gets frame `n` up to `LowEnd`, and `placement` after `k`
  tables is below `PlacementAfter(k)`. `PagingTypes`, `PlacementIsMapped`,
  `NoWildWrite` and `MarginIsEnough` follow.

`KHeapProofs` (for every page size, heap area, set of requests and number of
blocks, and for clients that align and free as they like): each theorem holds up to
the first of the four defects.

- `HeapLayout`: `heapInv` is inductive. `HeapIsTiled` and `DataIsKept` say nothing of
  the words the next call reads. The strengthening says that holes and blocks lie
  side by side from `Start` to `end` (`Tiles`), every one with a right header
  (`HoleAt`, `BlockAt`), a block with a right footer as well; that no hole is in the
  index twice; that the end is a page boundary; and that the word before the heap is
  no footer. A hole's footer need not be right, since `alloc` and `free` both leave
  old ones, and what lies behind the end is anything, which is why `free` may still
  panic (`heap_asserts`); then only the types are claimed.
- The steps all have one form. A call takes the chunks of a stretch of the heap
  away, puts others there, and writes nowhere else; `Rebuild` says that this keeps
  the layout, and `ReplaceHole` is its case for a hole of the index. What is left to
  show for a call is arithmetic within the stretch: that `alloc` cuts a hole
  into pieces that fill it (where `cramped` is excluded), that `expand` lengthens a
  hole that ends at the end, that the words on either side which `free` reads as a
  footer and a header are those of a neighbour, or of a block (where `footer` is
  excluded), and that `contract` cuts behind the header (where `contract` is).
- `HeapTypes`, `HeapTiled`, `DataKept` and `OneExpansion` follow, and
  `HeapAllocates`: `AllocBlock` maps to the allocator's `Take`, `Free` to its `Give`,
  everything else to a stutter. That `HeapIsTiled` counts chunks and not only covers
  words needs the cardinality of the index (`ChunksCounted`).

Three theorems there are about the index alone, whatever was done to the heap
before. `InsertKeepsOrder`: `insert_ordered_array` keeps an array in
order that is in order by the sizes as they are at the call. `RemoveUndoesInsert`:
in order or not, `insert` neither loses nor duplicates an item. `FoundIsSmallest`:
while the index is in order, the first hole that fits, which `find_smallest_hole`
returns, is a smallest one. The order is a premise and not an invariant of the
heap: `alloc` and `free` also enlarge holes where they are in the index
(`kheap.c:216`, `316`), after which the name `find_smallest_hole` promises more than
the code does.

The assumptions are the named `ASSUME`s of the modules. Only model-checked are:
liveness (`FullBufferDrains`, `EnterIsRun`, `RequestsAreTaken`, `BootEnds`), since
fairness and ENABLED are out of the prover's reach. The four findings are
counterexamples of TLC.

## 6. Plan

Done: `BoundedQueue`, `KbdBuffer`, `KeyMaps`, `Keyboard`, `Terminal`, `Shell`,
`Interrupts`, `Paging`, `OrderedArray`, `Allocator`, `KHeap`, `Itoa`, `Teletype`,
`Console`, `Line`, `Gui`, and the proofs of section 5. Left:

- `KHeap` after a defect: which of them lead to overlapping blocks and which only
  lose words, each as a run of its own.
