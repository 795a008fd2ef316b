------------------------------ MODULE Console -------------------------------
(***************************************************************************)
(* The text console: kprintf (kernel/video.c:92-204) with ScrollScreen and *)
(* MoveCursor, and the three ways to stop that print before they do:       *)
(* kpanic, panic_assert and the command halt.                              *)
(*                                                                         *)
(* The cursor is shared without a lock between the thread of kmain and the *)
(* keyboard handler, which prints on Ctrl+Alt+Del and may come between any *)
(* two instructions.  A call is cut at its accesses to the cursor and the  *)
(* CRT controller.  Where the compiler may reread the cursor or use the    *)
(* copy it has in a register, the model takes either.  Only the cells on   *)
(* the page are kept: those below it are in video memory and never read.   *)
(* Colours are left out.                                                   *)
(***************************************************************************)
EXTENDS Teletype

CONSTANTS
  BufLen,         \* sizeof buffer in kprintf
  ByteSize,       \* values of a byte of the cursor's location, 256
  Messages,       \* what main prints
  Names,          \* exception names and assertion texts, printed with %s
  Rebooting,      \* what the handler prints
  MaxCalls,       \* jobs of main
  MaxInterrupts   \* runs of the handler

ASSUME ConsoleAssumption ==
  /\ BufLen \in Nat \ {0}
  /\ ByteSize \in Nat /\ ROWS * COLS <= ByteSize * ByteSize
  /\ MaxCalls \in Nat /\ MaxInterrupts \in Nat

\* What the callers of kprintf pass: every conversion has an argument of its
\* type.
WellTyped(item) ==
  /\ item.kind \in {"nl", "tab", "none", "char", "s", "d", "x", "X"}
  /\ item.kind = "s" => item.s \in Seq(STRING)
  /\ item.kind \in {"d", "x", "X"} => item.v \in Int

ASSUME MessageAssumption ==
  /\ \A m \in Messages \cup {Rebooting} :
       m \in Seq(Range(m)) /\ \A item \in Range(m) : WellTyped(item)
  /\ Names \subseteq Seq(STRING)

Threads == {"main", "handler"}

VARIABLES
  vid,                  \* the cells of the page
  cursor_x, cursor_y,
  crtc,                 \* the CRT controller: selected index, cursor bytes
  iflag,
  cpu,                  \* who executes
  frame,                \* the call of kprintf each thread is in
  script,               \* what main does next in its job
  mode,                 \* "running", "halted", "spinning" or "undefined"
  jobs, interrupts,     \* counters
  expected,             \* the page that the latest call should leave
  plain,                \* was it one that kprintf can print, undisturbed?
  torn                  \* did the handler run inside main's MoveCursor?

cursor == <<cursor_x, cursor_y>>
history == <<expected, plain, torn>>
conVars == <<vid, cursor, crtc, iflag, cpu, frame, script, mode, jobs,
             interrupts, history>>

Returned == [pc |-> "idle", todo |-> <<>>, x |-> 0, y |-> 0, n |-> 0,
             owed |-> {}, then |-> "item", loc |-> 0]

Idle(t) == frame[t].pc = "idle"
AllIdle == \A t \in Threads : Idle(t)

-----------------------------------------------------------------------------
(* One call of kprintf in thread t.                                        *)

At(t, pc) ==
  /\ cpu = t
  /\ mode # "undefined"
  /\ frame[t].pc = pc

Go(t, pc) == frame' = [frame EXCEPT ![t].pc = pc]

\* A value the compiler may reread or keep in a register of the call.
Copies(t) == {<<frame[t].x, frame[t].y>>, cursor}

Item(t) == Head(frame[t].todo)
More(t) == frame[t].todo # <<>>

Upper(s) == [i \in DOMAIN s |-> IF i > 2 THEN toupper(s[i]) ELSE s[i]]

\* What a conversion leaves in buffer, and the character of a plain one.
Text(item) ==
  CASE item.kind = "char" -> <<item.c>>
    [] item.kind = "s" -> item.s
    [] item.kind = "d" -> itoa(item.v, 10)
    [] item.kind = "x" -> itoa(item.v, 16)
    [] item.kind = "X" -> Upper(itoa(item.v, 16))

Printable(item) == item.kind \notin {"nl", "tab", "none"}

machine == <<iflag, cpu, script, jobs, interrupts, history>>

\* strcpy of an argument that buffer cannot hold.
Overflows(item) == item.kind = "s" /\ Len(item.s) >= BufLen

Overrun(t) ==
  /\ At(t, "item") /\ More(t)
  /\ Overflows(Item(t))
  /\ mode' = "undefined"
  /\ UNCHANGED <<vid, cursor, crtc, frame, machine>>

\* The cursor is loaded for an item.
Load(t) ==
  /\ At(t, "item") /\ More(t)
  /\ Item(t).kind # "nl" /\ ~Overflows(Item(t))
  /\ frame' = [frame EXCEPT
       ![t].x = cursor_x, ![t].y = cursor_y, ![t].n = 0,
       ![t].pc = CASE Item(t).kind = "tab" -> "tab"
                   [] Item(t).kind = "none" -> "margin"
                   [] OTHER -> IF Text(Item(t)) = <<>> THEN "advance" ELSE "put"]
  /\ UNCHANGED <<vid, cursor, crtc, mode, machine>>

Put(t) ==
  /\ At(t, "put")
  /\ LET n == frame[t].n
         text == Text(Item(t))
     IN /\ \E p \in Copies(t) :
             LET pos == p[2] * COLS + p[1] + n
             IN vid' = IF pos \in Cells THEN [vid EXCEPT ![pos] = text[n + 1]]
                                        ELSE vid
        /\ frame' = [frame EXCEPT ![t].n = n + 1,
                       ![t].pc = IF n + 1 < Len(text) THEN "put" ELSE "advance"]
  /\ UNCHANGED <<cursor, crtc, mode, machine>>

MoveRight(t, x) ==
  /\ cursor_x' = x
  /\ frame' = [frame EXCEPT ![t].x = x, ![t].pc = "margin"]
  /\ UNCHANGED <<vid, cursor_y, crtc, mode, machine>>

Advance(t) ==
  /\ At(t, "advance")
  /\ \E p \in Copies(t) : MoveRight(t, (p[1] + Len(Text(Item(t)))) % 256)

TabStore(t) ==
  /\ At(t, "tab")
  /\ MoveRight(t, (((frame[t].x \div TabStop) + 1) * TabStop) % 256)

\* cursor_x = 0 and cursor_y++, in the order the compiler gives them.
LineStarts(t, then) ==
  frame' = [frame EXCEPT ![t].pc = "line", ![t].then = then,
                         ![t].x = 0, ![t].owed = {"x", "y"}]

LineStore(t) ==
  /\ At(t, "line")
  /\ \E o \in frame[t].owed :
       LET left == frame[t].owed \ {o}
       IN /\ cursor_x' = IF o = "x" THEN 0 ELSE cursor_x
          /\ cursor_y' = IF o = "y" THEN (cursor_y + 1) % 256 ELSE cursor_y
          /\ frame' = [frame EXCEPT ![t].owed = left,
                         ![t].pc = IF left = {} THEN frame[t].then ELSE "line"]
  /\ UNCHANGED <<vid, crtc, mode, machine>>

Newline(t) ==
  /\ At(t, "item") /\ More(t)
  /\ Item(t).kind = "nl"
  /\ LineStarts(t, "margin")
  /\ UNCHANGED <<vid, cursor, crtc, mode, machine>>

\* Fault variant of PastMargin: one column too many.
PastMargin_late(x) == x > COLS

PastMargin(x) == x >= COLS

\* The end of an item: the test of the margin, and i++.
Margin(t) ==
  /\ At(t, "margin")
  /\ \E p \in Copies(t) :
       frame' = [frame EXCEPT
         ![t].todo = Tail(@),
         ![t].pc = IF PastMargin(p[1]) THEN "line" ELSE "item",
         ![t].owed = IF PastMargin(p[1]) THEN {"x", "y"} ELSE {},
         ![t].then = "item"]
  /\ UNCHANGED <<vid, cursor, crtc, mode, machine>>

-----------------------------------------------------------------------------
(* ScrollScreen and MoveCursor, and the return.                            *)

ScrollTest(t) ==
  /\ At(t, "item") /\ ~More(t)
  /\ Go(t, IF cursor_y >= ROWS THEN "shift" ELSE "move")
  /\ UNCHANGED <<vid, cursor, crtc, mode, machine>>

\* Fault variant of Scrolled: the last row is not cleared.
Scrolled_not_cleared(v) ==
  [i \in Cells |-> IF i + COLS \in Cells THEN v[i + COLS] ELSE v[i]]

Scrolled(v) ==
  [i \in Cells |-> IF i + COLS \in Cells THEN v[i + COLS] ELSE Blank]

Shift(t) ==
  /\ At(t, "shift")
  /\ vid' = Scrolled(vid)
  /\ Go(t, "last")
  /\ UNCHANGED <<cursor, crtc, mode, machine>>

LastRow(t) ==
  /\ At(t, "last")
  /\ cursor_y' = ROWS - 1
  /\ Go(t, "move")
  /\ UNCHANGED <<vid, cursor_x, crtc, mode, machine>>

HIGH == 14   \* FB_HIGH_BYTE_COMMAND
LOW == 15    \* FB_LOW_BYTE_COMMAND

Location(t) ==
  /\ At(t, "move")
  /\ frame' = [frame EXCEPT ![t].loc = cursor_y * COLS + cursor_x,
                            ![t].pc = "high index"]
  /\ UNCHANGED <<vid, cursor, crtc, mode, machine>>

\* outportb to the command port selects the register the data port writes.
Select(t, pc, index, then) ==
  /\ At(t, pc)
  /\ crtc' = [crtc EXCEPT !.index = index]
  /\ Go(t, then)
  /\ UNCHANGED <<vid, cursor, mode, machine>>

\* Fault variant of HighByte: the shift is missing.
HighByte_unshifted(loc) == loc % ByteSize

HighByte(loc) == (loc \div ByteSize) % ByteSize

\* Fault variant of LowByte: the location is sent unmasked.
LowByte_unmasked(loc) == loc

LowByte(loc) == loc % ByteSize

HighData(t) ==
  /\ At(t, "high data")
  /\ crtc' = [crtc EXCEPT !.reg[crtc.index] = HighByte(frame[t].loc)]
  /\ Go(t, "low index")
  /\ UNCHANGED <<vid, cursor, mode, machine>>

\* The last byte, and the return to the caller.
LowData(t) ==
  /\ At(t, "low data")
  /\ crtc' = [crtc EXCEPT !.reg[crtc.index] = LowByte(frame[t].loc)]
  /\ frame' = [frame EXCEPT ![t] = Returned]
  /\ cpu' = "main"
  /\ UNCHANGED <<vid, cursor, iflag, script, mode, jobs, interrupts, history>>

kprintf(t) ==
  \/ Overrun(t) \/ Load(t) \/ Put(t) \/ Advance(t) \/ TabStore(t)
  \/ Newline(t) \/ LineStore(t) \/ Margin(t)
  \/ ScrollTest(t) \/ Shift(t) \/ LastRow(t)
  \/ Location(t)
  \/ Select(t, "high index", HIGH, "high data") \/ HighData(t)
  \/ Select(t, "low index", LOW, "low data") \/ LowData(t)

-----------------------------------------------------------------------------
(* Calls.                                                                  *)

InMoveCursor(t) ==
  frame[t].pc \in {"high index", "high data", "low index", "low data"}

\* kprintf(m) is called in thread t.
Call(t, m) ==
  /\ frame' = [frame EXCEPT ![t] = [Returned EXCEPT !.pc = "item", !.todo = m]]
  /\ IF AllIdle
     THEN LET page == Page(vid, cursor_x, cursor_y)
          IN /\ plain' = Plain(page, m)
             /\ expected' = IF plain' THEN Printed(page, m)[Len(m)] ELSE page
             /\ torn' = FALSE
     ELSE /\ plain' = FALSE
          /\ torn' = (torn \/ InMoveCursor("main"))
          /\ UNCHANGED expected

\* keyboard_callback on Ctrl+Alt+Del, through an interrupt gate.
Interrupt ==
  /\ iflag /\ cpu = "main"
  /\ mode # "undefined"
  /\ interrupts < MaxInterrupts
  /\ interrupts' = interrupts + 1
  /\ cpu' = "handler"
  /\ Call("handler", Rebooting)
  /\ UNCHANGED <<vid, cursor, crtc, iflag, script, mode, jobs>>

Say(m) == [op |-> "print", text |-> m]
Do(op) == [op |-> op, text |-> <<>>]

\* The two lines of kpanic and the name of the exception.
kpanic(name) ==
  <<Say(<<Char("A")>> \o Lines(1)), Say(<<Char("t")>> \o Lines(1)),
    Say(<<Str(name), Char("E")>>), Do("cli"), Do("hlt")>>

\* The seven calls of panic_assert; line stands for the number of a line.
panic_assert(desc, file, line) ==
  <<Say(<<Char("(")>>), Say(<<Str(desc)>>), Say(<<Char(")")>>),
    Say(<<Str(file)>>), Say(<<Char(":")>>), Say(<<Num("d", line)>>),
    Say(<<Char("O")>> \o Lines(1)), Do("spin")>>

\* Fault variant of halt: the interrupts stay on.
halt_no_cli ==
  <<Say(<<Char("s")>>), Say(<<Char("k")>> \o Lines(1)),
    Say(<<Char("h")>> \o Lines(1)), Do("hlt")>>

\* The command halt of the shell.
halt ==
  <<Say(<<Char("s")>>), Do("cli"), Say(<<Char("k")>> \o Lines(1)),
    Say(<<Char("h")>> \o Lines(1)), Do("hlt")>>

MainFree == cpu = "main" /\ Idle("main") /\ mode = "running"

Begin(s) ==
  /\ MainFree /\ script = <<>>
  /\ jobs < MaxCalls
  /\ jobs' = jobs + 1
  /\ script' = s
  /\ UNCHANGED <<vid, cursor, crtc, cpu, frame, mode, interrupts, history>>

Output == \E m \in Messages : Begin(<<Say(m)>>) /\ UNCHANGED iflag

\* Any exception: isr_handler is entered through an interrupt gate.
Exception == \E name \in Names : Begin(kpanic(name)) /\ iflag' = FALSE

AssertionFails ==
  \E desc, file \in Names, line \in {7, 36} :
    Begin(panic_assert(desc, file, line)) /\ UNCHANGED iflag

Halt == iflag /\ Begin(halt) /\ UNCHANGED iflag

\* kmain enables interrupts.
Sti ==
  /\ MainFree /\ script = <<>> /\ ~iflag
  /\ iflag' = TRUE
  /\ UNCHANGED <<vid, cursor, crtc, cpu, frame, script, mode, jobs, interrupts,
                 history>>

\* The next part of main's job.
Continue ==
  /\ MainFree /\ script # <<>>
  /\ script' = Tail(script)
  /\ LET next == Head(script)
     IN \/ /\ next.op = "print"
           /\ Call("main", next.text)
           /\ UNCHANGED <<iflag, mode>>
        \/ /\ next.op = "cli"
           /\ iflag' = FALSE
           /\ UNCHANGED <<frame, mode, history>>
        \/ /\ next.op \in {"hlt", "spin"}
           /\ mode' = IF next.op = "hlt" THEN "halted" ELSE "spinning"
           /\ UNCHANGED <<frame, iflag, history>>
  /\ UNCHANGED <<vid, cursor, crtc, cpu, jobs, interrupts>>

-----------------------------------------------------------------------------
\* What ClearScreen leaves.
conInit ==
  /\ vid = [i \in Cells |-> Blank]
  /\ cursor_x = 0 /\ cursor_y = 0
  /\ crtc = [index |-> LOW, reg |-> [i \in {HIGH, LOW} |-> 0]]
  /\ iflag = FALSE
  /\ cpu = "main"
  /\ frame = [t \in Threads |-> Returned]
  /\ script = <<>>
  /\ mode = "running"
  /\ jobs = 0 /\ interrupts = 0
  /\ expected = Page(vid, 0, 0)
  /\ plain = TRUE
  /\ torn = FALSE

conNext ==
  \/ \E t \in Threads : kprintf(t)
  \/ Interrupt
  \/ Output \/ Exception \/ AssertionFails \/ Halt \/ Sti \/ Continue

conSpec == conInit /\ [][conNext]_conVars

-----------------------------------------------------------------------------
(* Properties.                                                             *)

Phases == {"idle", "item", "put", "advance", "tab", "line", "margin", "shift",
           "last", "move", "high index", "high data", "low index", "low data"}

conTypeOK ==
  /\ DOMAIN vid = Cells
  /\ cursor_x \in 0 .. 255 /\ cursor_y \in 0 .. 255
  /\ crtc \in [index : {HIGH, LOW}, reg : [{HIGH, LOW} -> 0 .. ByteSize - 1]]
  /\ iflag \in BOOLEAN
  /\ cpu \in Threads
  /\ \A t \in Threads : frame[t].pc \in Phases
  /\ mode \in {"running", "halted", "spinning", "undefined"}

\* Whatever the handler prints between two instructions of main's kprintf, the
\* cursor is on the page when both have returned: neither leaves a column past
\* the margin nor a row below the last for the next call to write at.
CursorOnScreen == AllIdle => ~(cursor_x >= COLS \/ cursor_y >= ROWS)

\* The inductive strengthening of CursorOnScreen: whoever stored a column past
\* the margin still compares that copy of it or has the 0 to store, and a row
\* below the last is left only before the scroll test of the call.
Owes(f, x) ==
  \/ f.pc = "margin" /\ f.x = x
  \/ f.pc = "line" /\ "x" \in f.owed

OwesColumn(t) == Owes(frame[t], cursor_x)

BeforeScroll == {"item", "put", "advance", "tab", "line", "margin", "shift", "last"}

conInv ==
  /\ DOMAIN frame = Threads
  /\ \A t \in Threads : /\ DOMAIN frame[t] = DOMAIN Returned
                        /\ frame[t].then \in {"item", "margin"}
  /\ cpu \in Threads
  /\ cpu = "main" => Idle("handler")
  /\ cursor_x >= COLS => \E t \in Threads : OwesColumn(t)
  /\ cursor_y >= ROWS => \E t \in Threads : frame[t].pc \in BeforeScroll

\* A call that was not disturbed leaves the page that a teletype prints, the
\* numbers as they are written, and the cursor where the next call goes on; so
\* does every call after one that was disturbed or did not fit.
ShowsText ==
  AllIdle /\ plain /\ mode # "undefined" =>
    /\ vid = expected.cells
    /\ cursor = <<expected.x, expected.y>>

\* The blinking cursor is where text appears next, unless the latest call of
\* main was interrupted inside MoveCursor, between its index and data writes.
HardwareCursorFollows ==
  AllIdle /\ ~torn =>
    crtc.reg[HIGH] * ByteSize + crtc.reg[LOW] = cursor_y * COLS + cursor_x

\* After kpanic or the command halt, nothing is printed over the message.
HaltIsFinal ==
  [][mode = "halted" => UNCHANGED <<vid, cursor, crtc>>]_conVars

\* Its inductive strengthening: a job that executes hlt has cleared IF or will
\* before it.
ClearsFirst(s, i) ==
  \A j \in 1 .. Len(s) :
    s[j].op = "hlt" => ~i \/ \E k \in 1 .. j - 1 : s[k].op = "cli"

haltInv ==
  /\ mode = "halted" => ~iflag /\ cpu = "main" /\ AllIdle
  /\ ClearsFirst(script, iflag)
=============================================================================
