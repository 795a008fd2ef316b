--------------------------- MODULE ConsoleProofs ----------------------------
(***************************************************************************)
(* The console for every page, all messages and any number of interrupts.  *)
(*                                                                         *)
(* CursorOnScreen: conInv names the thread that will bring back a cursor   *)
(* which has left the page.                                                *)
(*                                                                         *)
(* HaltIsFinal: haltInv puts a cli in front of every hlt.                  *)
(*                                                                         *)
(* conTypeOK: typeInv types the frames, the digits that itoa makes too.    *)
(* The function of itoa's loop exists because there is a table of the      *)
(* values up to each value (complete induction, stated with sets).         *)
(*                                                                         *)
(* HardwareCursorFollows: moveInv says which bytes MoveCursor has sent,    *)
(* and of which location, at each of its steps.                            *)
(*                                                                         *)
(* ItoaWritesNumerals: the i-th digit that the loop stores is that of      *)
(* base^(i-1), by complete induction over the value (DigitPlaces).         *)
(*                                                                         *)
(* ShowsText: textInv says at each step of kprintf that the rest of the    *)
(* message, printed on the page as it is seen now, ends as expected.       *)
(***************************************************************************)
EXTENDS Console, NaturalsInduction, WellFoundedInduction, TLAPS

\* Thread t replaces its frame by f.
Reframes(t, f) ==
  /\ DOMAIN frame' = Threads
  /\ frame'[t] = f
  /\ \A u \in Threads \ {t} : frame'[u] = frame[u]
  /\ DOMAIN f = DOMAIN Returned
  /\ f.then \in {"item", "margin"}

\* What a step of the thread that executes must do for the cursor.
LEMMA StepOf ==
  ASSUME conInv, NEW t \in Threads, cpu = t, NEW f, Reframes(t, f),
         cpu' \in Threads, cpu' = "main" /\ t = "handler" => f.pc = "idle",
         \/ cursor_x' = cursor_x /\ (Owes(frame[t], cursor_x) => Owes(f, cursor_x))
         \/ ~(cursor_x' >= COLS)
         \/ Owes(f, cursor_x'),
         \/ cursor_y' = cursor_y /\ (frame[t].pc \in BeforeScroll => f.pc \in BeforeScroll)
         \/ ~(cursor_y' >= ROWS)
         \/ f.pc \in BeforeScroll
  PROVE  conInv'
<1>1. /\ DOMAIN frame' = Threads
      /\ \A u \in Threads : /\ DOMAIN frame'[u] = DOMAIN Returned
                            /\ frame'[u].then \in {"item", "margin"}
  BY DEF Reframes, conInv
<1>2. cpu' = "main" => frame'["handler"].pc = "idle"
  BY DEF Reframes, conInv, Threads, Idle
<1>3. ASSUME cursor_x' >= COLS  PROVE \E u \in Threads : Owes(frame'[u], cursor_x')
  <2>1. CASE cursor_x' = cursor_x /\ (Owes(frame[t], cursor_x) => Owes(f, cursor_x))
    <3>1. PICK u \in Threads : Owes(frame[u], cursor_x)
      <4>1. cursor_x >= COLS
        BY <1>3, <2>1
      <4>2. \E v \in Threads : OwesColumn(v)
        BY <4>1 DEF conInv
      <4> QED  BY <4>2 DEF OwesColumn, Owes
    <3>2. CASE u = t
      BY <2>1, <3>1, <3>2 DEF Reframes
    <3>3. CASE u # t
      BY <2>1, <3>1, <3>3 DEF Reframes
    <3> QED  BY <3>2, <3>3
  <2>2. CASE Owes(f, cursor_x')
    BY <2>2 DEF Reframes
  <2> QED  BY <1>3, <2>1, <2>2
<1>4. ASSUME cursor_y' >= ROWS  PROVE \E u \in Threads : frame'[u].pc \in BeforeScroll
  <2>1. CASE cursor_y' = cursor_y
              /\ (frame[t].pc \in BeforeScroll => f.pc \in BeforeScroll)
    <3>1. PICK u \in Threads : frame[u].pc \in BeforeScroll
      BY <1>4, <2>1 DEF conInv
    <3>2. CASE u = t
      BY <2>1, <3>1, <3>2 DEF Reframes
    <3>3. CASE u # t
      BY <2>1, <3>1, <3>3 DEF Reframes
    <3> QED  BY <3>2, <3>3
  <2>2. CASE f.pc \in BeforeScroll
    BY <2>2 DEF Reframes
  <2> QED  BY <1>4, <2>1, <2>2
<1> QED  BY <1>1, <1>2, <1>3, <1>4 DEF conInv, OwesColumn, Owes, Idle

\* Within an item the cursor is stored only with the margin still to look at.
LEMMA ItemSteps ==
  ASSUME conInv, NEW t \in Threads,
         Load(t) \/ Put(t) \/ Advance(t) \/ TabStore(t) \/ Newline(t)
  PROVE  conInv'
<1> DEFINE f == frame'[t]
<1>1. /\ DOMAIN frame[t] = DOMAIN Returned /\ DOMAIN frame = Threads
      /\ frame[t].then \in {"item", "margin"}
  BY DEF conInv
<1>2. CASE Load(t)
  <2>1. /\ Reframes(t, f)
        /\ f.pc \in BeforeScroll /\ frame[t].pc = "item"
    BY <1>1, <1>2 DEF Load, At, Reframes, Returned, BeforeScroll
  <2> QED  BY <1>2, <2>1, StepOf DEF Load, At, Owes, cursor, machine
<1>3. CASE Put(t)
  <2>1. /\ Reframes(t, f)
        /\ f.pc \in BeforeScroll /\ frame[t].pc = "put"
    BY <1>1, <1>3 DEF Put, At, Reframes, Returned, BeforeScroll
  <2> QED  BY <1>3, <2>1, StepOf DEF Put, At, Owes, cursor, machine
<1>4. ASSUME NEW x, MoveRight(t, x), cpu = t  PROVE conInv'
  <2>1. /\ Reframes(t, f)
        /\ f.pc = "margin" /\ f.x = cursor_x'
    BY <1>1, <1>4 DEF MoveRight, Reframes, Returned
  <2>2. f.pc \in BeforeScroll /\ Owes(f, cursor_x') /\ cpu' = cpu
    BY <1>4, <2>1 DEF MoveRight, Owes, BeforeScroll, machine
  <2>3. cpu' \in Threads /\ ~(cpu' = "main" /\ t = "handler")
    BY <1>4, <2>2 DEF Threads
  <2> QED  BY <1>4, <2>1, <2>2, <2>3, StepOf
<1>5. CASE Advance(t) \/ TabStore(t)
  BY <1>4, <1>5 DEF Advance, TabStore, At
<1>6. CASE Newline(t)
  <2>1. /\ Reframes(t, f)
        /\ f.pc = "line" /\ "x" \in f.owed
    BY <1>1, <1>6 DEF Newline, LineStarts, Reframes, Returned
  <2> QED  BY <1>6, <2>1, StepOf DEF Newline, At, Owes, BeforeScroll, cursor, machine
<1> QED  BY <1>2, <1>3, <1>5, <1>6

\* The columns and rows at which a line starts are on the page.
LEMMA OnPage == ~(0 >= COLS) /\ ~(ROWS - 1 >= ROWS)
BY ScreenAssumption

\* The margin test sees the stored column, and a line starts at column 0.
LEMMA LineSteps ==
  ASSUME conInv, NEW t \in Threads, LineStore(t) \/ Margin(t)
  PROVE  conInv'
<1> DEFINE f == frame'[t]
<1>1. /\ DOMAIN frame[t] = DOMAIN Returned /\ DOMAIN frame = Threads
      /\ frame[t].then \in {"item", "margin"}
  BY DEF conInv
<1>2. CASE LineStore(t)
  <2>1. PICK o \in frame[t].owed :
          LET left == frame[t].owed \ {o}
          IN /\ cursor_x' = IF o = "x" THEN 0 ELSE cursor_x
             /\ frame' = [frame EXCEPT ![t].owed = left,
                            ![t].pc = IF left = {} THEN frame[t].then ELSE "line"]
    BY <1>2 DEF LineStore
  <2>2. /\ Reframes(t, f)
        /\ f.owed = frame[t].owed \ {o}
        /\ f.pc = IF f.owed = {} THEN frame[t].then ELSE "line"
    BY <1>1, <2>1 DEF Reframes, Returned
  <2>3. f.pc \in BeforeScroll
    BY <1>1, <2>2 DEF BeforeScroll
  <2>4. frame[t].pc = "line"
    BY <1>2 DEF LineStore, At
  <2>5. \/ cursor_x' = cursor_x /\ (Owes(frame[t], cursor_x) => Owes(f, cursor_x))
        \/ ~(cursor_x' >= COLS)
    <3>1. CASE o = "x"
      BY <2>1, <3>1, OnPage
    <3>2. CASE o # "x"
      <4>1. "x" \in frame[t].owed => "x" \in f.owed /\ f.pc = "line"
        BY <2>2, <3>2
      <4> QED  BY <2>1, <2>4, <3>2, <4>1 DEF Owes
    <3> QED  BY <3>1, <3>2
  <2> QED  BY <1>2, <2>2, <2>3, <2>5, StepOf DEF LineStore, At, machine
<1>3. CASE Margin(t)
  <2>1. PICK p \in Copies(t) :
          frame' = [frame EXCEPT
            ![t].todo = Tail(@),
            ![t].pc = IF PastMargin(p[1]) THEN "line" ELSE "item",
            ![t].owed = IF PastMargin(p[1]) THEN {"x", "y"} ELSE {},
            ![t].then = "item"]
    BY <1>3 DEF Margin
  <2>2. /\ Reframes(t, f)
        /\ f.pc = IF PastMargin(p[1]) THEN "line" ELSE "item"
        /\ f.owed = IF PastMargin(p[1]) THEN {"x", "y"} ELSE {}
    BY <1>1, <2>1 DEF Reframes, Returned
  <2>3. frame[t].pc = "margin" /\ cpu = t
        /\ cursor_x' = cursor_x /\ cursor_y' = cursor_y /\ cpu' = cpu
    BY <1>3 DEF Margin, At, cursor, machine
  <2>4. f.pc \in BeforeScroll
    BY <2>2 DEF BeforeScroll
  <2>5. \/ Owes(frame[t], cursor_x) => Owes(f, cursor_x)
        \/ ~(cursor_x >= COLS)
    <3>1. frame[t].x = cursor_x => p[1] = cursor_x
      BY DEF Copies, cursor
    <3> QED  BY <2>2, <2>3, <3>1 DEF Owes, PastMargin
  <2> QED  BY <2>2, <2>3, <2>4, <2>5, StepOf
<1> QED  BY <1>2, <1>3

\* ScrollScreen brings the row back.
LEMMA ScrollSteps ==
  ASSUME conInv, NEW t \in Threads,
         ScrollTest(t) \/ Shift(t) \/ LastRow(t)
  PROVE  conInv'
<1> DEFINE f == frame'[t]
<1>1. /\ DOMAIN frame[t] = DOMAIN Returned /\ DOMAIN frame = Threads
      /\ frame[t].then \in {"item", "margin"}
  BY DEF conInv
<1>2. CASE ScrollTest(t)
  <2>1. /\ Reframes(t, f)
        /\ f.pc = IF cursor_y >= ROWS THEN "shift" ELSE "move"
        /\ frame[t].pc = "item" /\ cpu = t
        /\ cursor_x' = cursor_x /\ cursor_y' = cursor_y /\ cpu' = cpu
    BY <1>1, <1>2 DEF ScrollTest, Go, At, Reframes, Returned, cursor, machine
  <2> QED  BY <2>1, StepOf DEF Owes, BeforeScroll
<1>3. CASE Shift(t)
  <2>1. /\ Reframes(t, f)
        /\ f.pc = "last"
        /\ frame[t].pc = "shift" /\ cpu = t
        /\ cursor_x' = cursor_x /\ cursor_y' = cursor_y /\ cpu' = cpu
    BY <1>1, <1>3 DEF Shift, Go, At, Reframes, Returned, cursor, machine
  <2> QED  BY <2>1, StepOf DEF Owes, BeforeScroll
<1>4. CASE LastRow(t)
  <2>1. /\ Reframes(t, f)
        /\ frame[t].pc = "last" /\ cpu = t
        /\ cursor_x' = cursor_x /\ ~(cursor_y' >= ROWS) /\ cpu' = cpu
    BY <1>1, <1>4, OnPage DEF LastRow, Go, At, Reframes, Returned, machine
  <2> QED  BY <2>1, StepOf DEF Owes
<1> QED  BY <1>2, <1>3, <1>4

\* MoveCursor leaves the cursor alone.
LEMMA CursorSteps ==
  ASSUME conInv, NEW t \in Threads,
         \/ Overrun(t) \/ Location(t)
         \/ Select(t, "high index", HIGH, "high data") \/ HighData(t)
         \/ Select(t, "low index", LOW, "low data") \/ LowData(t)
  PROVE  conInv'
<1> DEFINE f == frame'[t]
           Moves == {"move", "high index", "high data", "low index", "low data"}
<1>1. /\ DOMAIN frame[t] = DOMAIN Returned /\ DOMAIN frame = Threads
      /\ frame[t].then \in {"item", "margin"}
  BY DEF conInv
<1>2. CASE Overrun(t)
  <2>1. cursor_x' = cursor_x /\ cursor_y' = cursor_y /\ cpu' = cpu /\ frame' = frame
    BY <1>2 DEF Overrun, cursor, machine
  <2> QED  BY <2>1 DEF conInv, Idle, OwesColumn
<1>3. CASE ~Overrun(t)
  <2>1. /\ Reframes(t, f)
        /\ frame[t].pc \in Moves /\ cpu = t
        /\ cursor_x' = cursor_x /\ cursor_y' = cursor_y
        /\ \/ cpu' = cpu
           \/ cpu' = "main" /\ f.pc = "idle"
    <3>1. CASE Location(t)
      <4>1. /\ frame[t].pc = "move" /\ cpu = t /\ cpu' = cpu
            /\ cursor_x' = cursor_x /\ cursor_y' = cursor_y
        BY <3>1 DEF Location, At, cursor, machine
      <4>2. Reframes(t, f)
        BY <1>1, <3>1 DEF Location, Reframes, Returned
      <4> QED  BY <4>1, <4>2
    <3>2. ASSUME NEW pc \in Moves, NEW index, NEW then, Select(t, pc, index, then)
          PROVE  <2>1!:
      <4>1. /\ frame[t].pc = pc /\ cpu = t /\ cpu' = cpu
            /\ cursor_x' = cursor_x /\ cursor_y' = cursor_y
        BY <3>2 DEF Select, At, cursor, machine
      <4>2. Reframes(t, f)
        BY <1>1, <3>2 DEF Select, Go, Reframes, Returned
      <4> QED  BY <3>2, <4>1, <4>2
    <3>3. CASE HighData(t)
      <4>1. /\ frame[t].pc = "high data" /\ cpu = t /\ cpu' = cpu
            /\ cursor_x' = cursor_x /\ cursor_y' = cursor_y
        BY <3>3 DEF HighData, At, cursor, machine
      <4>2. Reframes(t, f)
        BY <1>1, <3>3 DEF HighData, Go, Reframes, Returned
      <4> QED  BY <4>1, <4>2
    <3>4. CASE LowData(t)
      <4>1. /\ frame[t].pc = "low data" /\ cpu = t /\ cpu' = "main"
            /\ cursor_x' = cursor_x /\ cursor_y' = cursor_y
        BY <3>4 DEF LowData, At, cursor
      <4>2. Reframes(t, f) /\ f.pc = "idle"
        BY <1>1, <3>4 DEF LowData, Reframes, Returned
      <4> QED  BY <4>1, <4>2
    <3> QED  BY <1>3, <3>1, <3>2, <3>3, <3>4
  <2>2. frame[t].pc \notin BeforeScroll /\ ~Owes(frame[t], cursor_x)
    BY <2>1 DEF BeforeScroll, Owes
  <2>3. cpu' \in Threads
    BY <2>1 DEF conInv, Threads
  <2> QED  BY <2>1, <2>2, <2>3, StepOf
<1> QED  BY <1>2, <1>3

\* Calls and interrupts start before the scroll test.
LEMMA CallSteps ==
  ASSUME conInv, Interrupt \/ Continue \/ Output \/ Exception \/ AssertionFails \/ Halt \/ Sti
  PROVE  conInv'
<1>1. ASSUME UNCHANGED <<frame, cursor_x, cursor_y, cpu>>  PROVE conInv'
  BY <1>1 DEF conInv, Idle, OwesColumn
<1>2. ASSUME NEW s, Begin(s)  PROVE conInv'
  BY <1>1, <1>2 DEF Begin, cursor
<1>3. ASSUME NEW t \in Threads, NEW m, Call(t, m), cpu = "main", Idle(t),
             cursor_x' = cursor_x, cursor_y' = cursor_y, cpu' = t
      PROVE  conInv'
  <2> DEFINE f == frame'[t]
  <2>1. /\ DOMAIN frame' = Threads
        /\ \A u \in Threads \ {t} : frame'[u] = frame[u]
        /\ f.pc = "item" /\ f.then = "item" /\ DOMAIN f = DOMAIN Returned
    BY <1>3 DEF Call, conInv, Returned
  <2>2. ~OwesColumn(t) /\ frame[t].pc \notin BeforeScroll
    BY <1>3 DEF Idle, OwesColumn, Owes, BeforeScroll
  <2>3. /\ \A u \in Threads : /\ DOMAIN frame'[u] = DOMAIN Returned
                              /\ frame'[u].then \in {"item", "margin"}
    BY <2>1 DEF conInv
  <2>4. ASSUME cursor_x' >= COLS  PROVE \E u \in Threads : OwesColumn(u)'
    <3>1. cursor_x >= COLS
      BY <1>3, <2>4
    <3>2. PICK u \in Threads : OwesColumn(u)
      BY <3>1 DEF conInv
    <3>3. u # t
      BY <2>2, <3>2
    <3>4. OwesColumn(u)'
      BY <1>3, <2>1, <3>2, <3>3 DEF OwesColumn
    <3> QED  BY <3>4
  <2>5. \E u \in Threads : frame'[u].pc \in BeforeScroll
    BY <2>1 DEF BeforeScroll
  <2>6. cpu' = "main" => Idle("handler")'
    <3>1. CASE t = "main"
      BY <1>3, <2>1, <3>1 DEF conInv, Idle, Threads
    <3>2. CASE t # "main"
      BY <1>3, <3>2
    <3> QED  BY <3>1, <3>2
  <2> QED  BY <1>3, <2>1, <2>3, <2>4, <2>5, <2>6 DEF conInv
<1>4. CASE Interrupt
  <2>1. /\ Call("handler", Rebooting) /\ cpu = "main" /\ cpu' = "handler"
        /\ cursor_x' = cursor_x /\ cursor_y' = cursor_y
    BY <1>4 DEF Interrupt, cursor
  <2>2. Idle("handler") /\ "handler" \in Threads
    BY <2>1 DEF conInv, Threads
  <2> QED  BY <1>3, <2>1, <2>2
<1>5. CASE Continue
  <2>1. /\ cpu = "main" /\ cpu' = cpu /\ Idle("main")
        /\ cursor_x' = cursor_x /\ cursor_y' = cursor_y /\ "main" \in Threads
    BY <1>5 DEF Continue, MainFree, cursor, Threads
  <2>2. frame' = frame \/ \E m : Call("main", m)
    BY <1>5 DEF Continue
  <2> QED  BY <1>1, <1>3, <2>1, <2>2
<1>6. CASE Output \/ Exception \/ AssertionFails \/ Halt
  BY <1>2, <1>6 DEF Output, Exception, AssertionFails, Halt
<1>7. CASE Sti
  BY <1>1, <1>7 DEF Sti, cursor
<1> QED  BY <1>4, <1>5, <1>6, <1>7

\* ClearScreen leaves the cursor at the top left.
LEMMA ConInit == conInit => conInv
BY ScreenAssumption DEF conInit, conInv, Threads, Idle, Returned

\* One step of either thread.
LEMMA ConStep == conInv /\ [conNext]_conVars => conInv'
<1> SUFFICES ASSUME conInv, [conNext]_conVars  PROVE conInv'
  OBVIOUS
<1>1. ASSUME NEW t \in Threads, kprintf(t)  PROVE conInv'
  BY <1>1, ItemSteps, LineSteps, ScrollSteps, CursorSteps DEF kprintf
<1>2. CASE UNCHANGED conVars
  BY <1>2 DEF conVars, cursor, conInv, Idle, OwesColumn
<1> QED  BY <1>1, <1>2, CallSteps DEF conNext

\* Whatever is printed and whenever Ctrl+Alt+Del comes, the cursor is on the
\* page when nobody prints (kprintf, ScrollScreen).
THEOREM CursorStaysOnScreen == conSpec => []CursorOnScreen
<1>1. conInv => CursorOnScreen
  <2> SUFFICES ASSUME conInv, AllIdle  PROVE ~(cursor_x >= COLS) /\ ~(cursor_y >= ROWS)
    BY DEF CursorOnScreen
  <2>1. \A t \in Threads : ~OwesColumn(t) /\ frame[t].pc \notin BeforeScroll
    BY DEF AllIdle, Idle, OwesColumn, Owes, BeforeScroll
  <2> QED  BY <2>1 DEF conInv
<1> QED  BY <1>1, ConInit, ConStep, PTL DEF conSpec

-----------------------------------------------------------------------------
(* HaltIsFinal.                                                            *)

\* The script is a sequence, so that Tail takes off its first part.
IsScript(s) == \E S : s \in Seq(S)

finalInv == conInv /\ haltInv /\ IsScript(script)

\* The jobs that halt clear IF first.
Halts(s, i) == IsScript(s) /\ ClearsFirst(s, i)

\* The jobs of main as the code writes them.
LEMMA ScriptsHalt ==
  /\ Halts(<<>>, iflag) /\ Halts(<<>>, TRUE)
  /\ \A m : Halts(<<Say(m)>>, iflag)
  /\ \A name : Halts(kpanic(name), FALSE)
  /\ \A desc, file, line : Halts(panic_assert(desc, file, line), iflag)
  /\ Halts(halt, iflag)
<1>1. Halts(<<>>, iflag) /\ Halts(<<>>, TRUE)
  <2>1. <<>> \in Seq({})
    OBVIOUS
  <2> QED  BY <2>1 DEF Halts, ClearsFirst, IsScript
<1>2. ASSUME NEW m  PROVE Halts(<<Say(m)>>, iflag)
  <2> DEFINE s == <<Say(m)>>
  <2>1. s \in Seq({s[1]}) /\ Len(s) = 1
    OBVIOUS
  <2>2. s[1].op # "hlt"
    BY DEF Say
  <2> HIDE DEF s
  <2>3. IsScript(s)
    BY <2>1 DEF IsScript
  <2> QED  BY <2>1, <2>2, <2>3 DEF Halts, ClearsFirst, s
<1>3. ASSUME NEW name  PROVE Halts(kpanic(name), FALSE)
  <2> DEFINE s == kpanic(name)
  <2>1. s \in Seq({s[1], s[2], s[3], s[4], s[5]})
    BY DEF kpanic
  <2> QED  BY <2>1 DEF Halts, ClearsFirst, IsScript
<1>4. ASSUME NEW desc, NEW file, NEW line
      PROVE  Halts(panic_assert(desc, file, line), iflag)
  <2> DEFINE s == panic_assert(desc, file, line)
  <2>1. /\ s \in Seq({s[1], s[2], s[3], s[4], s[5], s[6], s[7], s[8]})
        /\ Len(s) = 8
    BY DEF panic_assert
  <2>2. \A j \in 1 .. 8 : s[j].op # "hlt"
    BY DEF panic_assert, Say, Do
  <2> QED  BY <2>1, <2>2 DEF Halts, ClearsFirst, IsScript
<1>5. Halts(halt, iflag)
  <2>1. halt \in Seq({halt[1], halt[2], halt[3], halt[4], halt[5]}) /\ Len(halt) = 5
    BY DEF halt
  <2>2. halt[2].op = "cli" /\ halt[1].op # "hlt"
    BY DEF halt, Say, Do
  <2>3. halt[2].op # "hlt"
    BY <2>2
  <2> QED  BY <2>1, <2>2, <2>3 DEF Halts, ClearsFirst, IsScript
<1> QED  BY <1>1, <1>2, <1>3, <1>4, <1>5

\* Nothing runs in a halted machine.
LEMMA HaltedStays ==
  ASSUME conInv, haltInv, mode = "halted", conNext
  PROVE  FALSE
<1>1. ~iflag /\ cpu = "main" /\ AllIdle
  BY DEF haltInv
<1>2. ASSUME NEW t \in Threads, kprintf(t)  PROVE FALSE
  <2>1. frame[t].pc = "idle"
    BY <1>1 DEF AllIdle, Idle
  <2>2. frame[t].pc \in {"item", "put", "advance", "tab", "line", "margin", "shift",
                         "last", "move", "high index", "high data", "low index",
                         "low data"}
    BY <1>2 DEF kprintf, Overrun, Load, Put, Advance, TabStore, Newline, LineStore,
                Margin, ScrollTest, Shift, LastRow, Location, Select, HighData,
                LowData, At
  <2> QED  BY <2>1, <2>2
<1>3. CASE Interrupt
  BY <1>1, <1>3 DEF Interrupt
<1>4. CASE Output \/ Exception \/ AssertionFails \/ Halt \/ Sti \/ Continue
  BY <1>4 DEF Output, Exception, AssertionFails, Halt, Sti, Continue, Begin, MainFree
<1> QED  BY <1>2, <1>3, <1>4 DEF conNext

\* The parts of a script that are left still clear IF in time.
LEMMA RestHalts ==
  ASSUME Halts(script, iflag), script # <<>>, script' = Tail(script),
         iflag' = iflag \/ (script[1].op = "cli" /\ ~iflag'),
         script[1].op = "cli" => ~iflag'
  PROVE  Halts(script', iflag')
<1>1. PICK S : script \in Seq(S)
  BY DEF Halts, ClearsFirst, IsScript
<1>2. /\ script' \in Seq(S) /\ Len(script') = Len(script) - 1 /\ Len(script) \in Nat
      /\ \A j \in 1 .. Len(script') : script'[j] = script[j + 1]
  BY <1>1
<1>3. ASSUME NEW j \in 1 .. Len(script'), script'[j].op = "hlt", iflag'
      PROVE  \E k \in 1 .. j - 1 : script'[k].op = "cli"
  <2>1. iflag /\ script[1].op # "cli"
    BY <1>3
  <2>2. PICK k \in 1 .. j : script[k].op = "cli"
    <3>1. j + 1 \in 1 .. Len(script) /\ script[j + 1].op = "hlt" /\ (j + 1) - 1 = j
      BY <1>2, <1>3
    <3> QED  BY <2>1, <3>1 DEF Halts, ClearsFirst
  <2>3. k # 1
    BY <2>1, <2>2
  <2>4. k - 1 \in 1 .. j - 1 /\ k - 1 \in 1 .. Len(script') /\ (k - 1) + 1 = k
    BY <1>2, <2>2, <2>3
  <2>5. script'[k - 1].op = "cli"
    BY <1>2, <2>2, <2>4
  <2> QED  BY <2>4, <2>5
<1> QED  BY <1>2, <1>3 DEF Halts, ClearsFirst, IsScript

\* A script that is stopped at hlt has cleared IF.
LEMMA FirstHlt ==
  ASSUME Halts(script, iflag), script # <<>>, script[1].op = "hlt"
  PROVE  ~iflag
<1>1. PICK S : script \in Seq(S)
  BY DEF Halts, ClearsFirst, IsScript
<1>2. 1 \in 1 .. Len(script) /\ 1 .. 1 - 1 = {}
  BY <1>1
<1> QED  BY <1>2 DEF Halts, ClearsFirst

\* One step of either thread, for HaltIsFinal.
LEMMA FinalStep == finalInv /\ [conNext]_conVars => finalInv'
<1> SUFFICES ASSUME finalInv, [conNext]_conVars  PROVE finalInv'
  OBVIOUS
<1>1. conInv'
  BY ConStep DEF finalInv
<1>2. Halts(script, iflag)
  BY DEF finalInv, haltInv, Halts
<1>3. ASSUME Halts(script', iflag'), mode' = "halted" => mode = "halted" /\ ~conNext
      PROVE  finalInv'
  <2>1. mode' = "halted" => ~iflag' /\ cpu' = "main" /\ AllIdle'
    BY <1>3 DEF finalInv, haltInv, conVars, AllIdle, Idle
  <2> QED  BY <1>1, <1>3, <2>1 DEF finalInv, haltInv, Halts
<1>4. ASSUME conNext, mode' = mode  PROVE mode' = "halted" => mode = "halted" /\ ~conNext
  BY <1>4, HaltedStays DEF finalInv
<1>5. ASSUME NEW t \in Threads, kprintf(t)  PROVE finalInv'
  <2>1. UNCHANGED <<iflag, script>> /\ (mode' = mode \/ mode' = "undefined")
    BY <1>5 DEF kprintf, Overrun, Load, Put, Advance, TabStore, MoveRight, Newline,
                LineStore, Margin, ScrollTest, Shift, LastRow, Location, Select,
                HighData, LowData, machine
  <2>2. conNext
    BY <1>5 DEF conNext
  <2> QED  BY <1>2, <1>3, <1>4, <2>1, <2>2
<1>6. CASE Interrupt
  <2>1. UNCHANGED <<iflag, script, mode>> /\ conNext
    BY <1>6 DEF Interrupt, conNext
  <2> QED  BY <1>2, <1>3, <1>4, <2>1
<1>7. CASE Output \/ Exception \/ AssertionFails \/ Halt \/ Sti
  <2>1. conNext /\ mode' = mode
    BY <1>7 DEF Output, Exception, AssertionFails, Halt, Sti, Begin, conNext
  <2>2. Halts(script', iflag')
    <3>1. CASE Output
      BY <3>1, ScriptsHalt DEF Output, Begin
    <3>2. CASE Exception
      BY <3>2, ScriptsHalt DEF Exception, Begin
    <3>3. CASE AssertionFails
      BY <3>3, ScriptsHalt DEF AssertionFails, Begin
    <3>4. CASE Halt
      BY <3>4, ScriptsHalt DEF Halt, Begin
    <3>5. CASE Sti
      BY <3>5, ScriptsHalt DEF Sti
    <3> QED  BY <1>7, <3>1, <3>2, <3>3, <3>4, <3>5
  <2> QED  BY <1>3, <1>4, <2>1, <2>2
<1>8. CASE Continue
  <2>1. /\ script # <<>> /\ script' = Tail(script)
        /\ script[1] = Head(script)
    <3>1. PICK S : script \in Seq(S)
      BY <1>2 DEF Halts, ClearsFirst, IsScript
    <3> QED  BY <1>8, <3>1 DEF Continue
  <2>2. /\ iflag' = iflag \/ (script[1].op = "cli" /\ ~iflag')
        /\ script[1].op = "cli" => ~iflag'
    BY <1>8, <2>1 DEF Continue
  <2>3. Halts(script', iflag')
    BY <1>2, <2>1, <2>2, RestHalts
  <2>4. conNext
    BY <1>8 DEF conNext
  <2>5. CASE Head(script).op = "hlt"
    <3>1. ~iflag
      BY <1>2, <2>1, <2>5, FirstHlt
    <3>2. /\ cpu' = "main" /\ frame' = frame /\ iflag' = iflag
          /\ Idle("main") /\ cpu = "main"
      BY <1>8, <2>5 DEF Continue, MainFree
    <3>3. AllIdle'
      BY <3>2 DEF finalInv, conInv, AllIdle, Idle, Threads
    <3> QED  BY <1>1, <2>3, <3>1, <3>2, <3>3 DEF finalInv, haltInv, Halts
  <2>6. CASE Head(script).op # "hlt"
    <3>1. mode' = mode \/ mode' = "spinning"
      BY <1>8, <2>6 DEF Continue
    <3> QED  BY <1>3, <1>4, <2>3, <2>4, <3>1
  <2> QED  BY <2>5, <2>6
<1>9. CASE UNCHANGED conVars
  <2>1. UNCHANGED <<iflag, script, mode, cpu, frame>>
    BY <1>9 DEF conVars
  <2> QED  BY <1>1, <2>1 DEF finalInv, haltInv, AllIdle, Idle
<1> QED  BY <1>5, <1>6, <1>7, <1>8, <1>9 DEF conNext

\* Nothing is halted at the start.
LEMMA FinalInit == conInit => finalInv
<1> SUFFICES ASSUME conInit  PROVE finalInv
  OBVIOUS
<1>1. script = <<>> /\ mode # "halted"
  BY DEF conInit
<1> QED  BY <1>1, ConInit, ScriptsHalt DEF finalInv, haltInv, Halts

\* After kpanic or the command halt nothing is printed over the message, for
\* all messages and any number of interrupts.
THEOREM HaltingIsFinal == conSpec => HaltIsFinal
<1>1. finalInv /\ [conNext]_conVars
        => [mode = "halted" => UNCHANGED <<vid, cursor, crtc>>]_conVars
  BY HaltedStays DEF finalInv, conVars
<1> QED  BY <1>1, FinalInit, FinalStep, PTL DEF conSpec, HaltIsFinal

-----------------------------------------------------------------------------
(* Induction over the numbers.                                             *)

\* A set of numbers that is not empty has a least element.
LEMMA LeastExists ==
  ASSUME NEW S, S \subseteq Nat, S # {}
  PROVE  \E f \in S : \A g \in S : f <= g
<1>1. \E f \in S : \A g \in S : ~ (<<g, f>> \in OpToRel(<, Nat))
  BY WFMin, NatLessThanWellFounded, Zenon
<1>2. PICK f \in S : \A g \in S : ~ (<<g, f>> \in OpToRel(<, Nat))
  BY <1>1, Zenon
<1>3. ASSUME NEW g \in S
      PROVE  f <= g
  <2>1. f \in Nat /\ g \in Nat
    BY Zenon
  <2>2. ~ (g < f)
    BY <1>2, <2>1, Zenon DEF OpToRel
  <2> QED
    BY <2>1, <2>2
<1> QED
  BY <1>3, Zenon

\* Complete induction: a set of numbers that has every number whose smaller
\* numbers it has is all of them.
LEMMA Complete ==
  ASSUME NEW S, \A v \in Nat : (\A u \in Nat : u < v => u \in S) => v \in S
  PROVE  Nat \subseteq S
<1> SUFFICES ASSUME Nat \ S # {}  PROVE FALSE
  OBVIOUS
<1>1. PICK v \in Nat \ S : \A u \in Nat \ S : v <= u
  BY LeastExists
<1>2. ASSUME NEW u \in Nat, u < v  PROVE u \in S
  BY <1>1, <1>2
<1> QED  BY <1>1, <1>2

-----------------------------------------------------------------------------
(* What itoa returns.  Its loop is a recursive function, so that there is  *)
(* one has to be proved: the tables of the digits up to n agree.           *)

\* The characters of a number.
Letters == {"0", "-", "x"} \cup {Glyph[k] : k \in Nat}

\* A turn of the loop of itoa.
DigitStep(d, f, v) == IF v = 0 THEN <<>> ELSE <<Glyph[(v % d) + 1]>> \o f[v \div d]

\* The digits of the numbers up to n.
IsTable(d, n, f) == \A v \in 0 .. n : f[v] \in Seq(Letters) /\ f[v] = DigitStep(d, f, v)

\* Dividing makes a number smaller.
LEMMA Smaller ==
  ASSUME NEW d \in {10, 16}, NEW v \in Nat, v # 0
  PROVE  (v \div d) \in Nat /\ (v \div d) < v /\ (v % d) \in Nat
<1>1. CASE d = 10
  BY <1>1
<1>2. CASE d = 16
  BY <1>2
<1> QED  BY <1>1, <1>2

\* One more digit.
LEMMA StepTyped ==
  ASSUME NEW d \in {10, 16}, NEW v \in Nat, NEW f, v # 0 => f[v \div d] \in Seq(Letters)
  PROVE  DigitStep(d, f, v) \in Seq(Letters)
<1>1. CASE v = 0
  BY <1>1 DEF DigitStep
<1>2. CASE v # 0
  <2>1. Glyph[(v % d) + 1] \in Letters
    BY <1>2, Smaller DEF Letters
  <2>2. DigitStep(d, f, v) = <<Glyph[(v % d) + 1]>> \o f[v \div d]
    BY <1>2 DEF DigitStep
  <2> QED  BY <1>2, <2>1, <2>2
<1> QED  BY <1>1, <1>2

\* There is a table up to every n.
LEMMA TableExists ==
  ASSUME NEW d \in {10, 16}
  PROVE  \A n \in Nat : \E f : IsTable(d, n, f)
<1> DEFINE S == {n \in Nat : \E f : IsTable(d, n, f)}
<1>1. ASSUME NEW n \in Nat, \A u \in Nat : u < n => u \in S  PROVE n \in S
  <2>1. CASE n = 0
    <3> DEFINE f == [v \in 0 .. 0 |-> <<>>]
    <3>1. f[0] = <<>> /\ <<>> \in Seq(Letters) /\ DigitStep(d, f, 0) = <<>>
      BY DEF DigitStep
    <3> HIDE DEF f
    <3>2. IsTable(d, 0, f)
      <4>1. \A v \in 0 .. 0 : v = 0
        OBVIOUS
      <4> QED  BY <3>1, <4>1 DEF IsTable
    <3> QED  BY <2>1, <3>2
  <2>2. CASE n # 0
    <3>1. n - 1 \in Nat /\ n - 1 < n
      BY <2>2
    <3>2. PICK g : IsTable(d, n - 1, g)
      BY <1>1, <3>1
    <3> DEFINE f == [v \in 0 .. n |-> IF v = n THEN DigitStep(d, g, n) ELSE g[v]]
    <3>3. ASSUME NEW v \in 0 .. n  PROVE f[v] \in Seq(Letters) /\ f[v] = DigitStep(d, f, v)
      <4>1. v \in Nat /\ n \in 0 .. n
        OBVIOUS
      <4>2. v # 0 => (v \div d) \in 0 .. n - 1 /\ (v \div d) \in 0 .. n /\ (v \div d) # n
        BY <4>1, Smaller
      <4>3. v # 0 => f[v \div d] = g[v \div d] /\ g[v \div d] \in Seq(Letters)
        BY <3>2, <4>2 DEF IsTable
      <4>4. DigitStep(d, f, v) = DigitStep(d, g, v)
        BY <4>3 DEF DigitStep
      <4>5. f[v] = DigitStep(d, g, v)
        <5>1. CASE v = n
          BY <5>1
        <5>2. CASE v # n
          <6>1. f[v] = g[v] /\ v \in 0 .. n - 1
            BY <5>2
          <6> QED  BY <3>2, <6>1 DEF IsTable
        <5> QED  BY <5>1, <5>2
      <4>6. DigitStep(d, g, v) \in Seq(Letters)
        BY <4>1, <4>3, StepTyped
      <4> QED  BY <4>4, <4>5, <4>6
    <3> HIDE DEF f
    <3>4. IsTable(d, n, f)
      BY <3>3 DEF IsTable
    <3> QED  BY <3>4
  <2> QED  BY <2>1, <2>2
<1>2. Nat \subseteq S
  <2> HIDE DEF S
  <2> QED  BY <1>1, Complete
<1> QED  BY <1>2

\* Two tables agree on the numbers that both have.
LEMMA TableUnique ==
  ASSUME NEW d \in {10, 16}, NEW n \in Nat, NEW m \in Nat, NEW f, NEW g,
         IsTable(d, n, f), IsTable(d, m, g)
  PROVE  \A v \in Nat : v <= n /\ v <= m => f[v] = g[v]
<1> DEFINE S == {v \in Nat : v <= n /\ v <= m => f[v] = g[v]}
<1>1. ASSUME NEW v \in Nat, \A u \in Nat : u < v => u \in S  PROVE v \in S
  <2> SUFFICES ASSUME v <= n, v <= m  PROVE f[v] = g[v]
    OBVIOUS
  <2>1. f[v] = DigitStep(d, f, v) /\ g[v] = DigitStep(d, g, v)
    BY DEF IsTable
  <2>2. v # 0 => f[v \div d] = g[v \div d]
    <3> SUFFICES ASSUME v # 0  PROVE f[v \div d] = g[v \div d]
      OBVIOUS
    <3> DEFINE u == v \div d
    <3>1. u \in Nat /\ u < v
      BY Smaller
    <3> HIDE DEF u
    <3>2. u <= n /\ u <= m
      BY <3>1
    <3>3. f[u] = g[u]
      BY <1>1, <3>1, <3>2
    <3> QED  BY <3>3 DEF u
  <2> QED  BY <2>1, <2>2 DEF DigitStep
<1>2. Nat \subseteq S
  <2> HIDE DEF S
  <2> QED  BY <1>1, Complete
<1> QED  BY <1>2

\* The loop of itoa computes what its turns say.
LEMMA DigitsDefined ==
  ASSUME NEW base \in {10, 16}
  PROVE  Digits(base) = [v \in Nat |-> DigitStep(base, Digits(base), v)]
<1> DEFINE A(v) == CHOOSE f : IsTable(base, v, f)
           F == [v \in Nat |-> A(v)[v]]
<1>1. ASSUME NEW v \in Nat  PROVE IsTable(base, v, A(v))
  BY TableExists
<1>2. ASSUME NEW v \in Nat  PROVE F[v] = DigitStep(base, F, v)
  <2>1. F[v] = A(v)[v]
    OBVIOUS
  <2>2. A(v)[v] = DigitStep(base, A(v), v)
    BY <1>1 DEF IsTable
  <2>3. v # 0 => A(v)[v \div base] = F[v \div base]
    <3> SUFFICES ASSUME v # 0  PROVE A(v)[v \div base] = F[v \div base]
      OBVIOUS
    <3> DEFINE u == v \div base
    <3>1. u \in Nat /\ u < v
      BY Smaller
    <3> HIDE DEF u
    <3>2. F[u] = A(u)[u]
      BY <3>1
    <3>3. IsTable(base, v, A(v)) /\ IsTable(base, u, A(u))
      BY <1>1, <3>1
    <3> HIDE DEF A, F
    <3>4. u <= v /\ u <= u
      BY <3>1
    <3>5. A(v)[u] = A(u)[u]
      BY <3>1, <3>3, <3>4, TableUnique
    <3> QED  BY <3>2, <3>5 DEF u
  <2> HIDE DEF F, A
  <2> QED  BY <2>1, <2>2, <2>3 DEF DigitStep
<1> HIDE DEF A
<1>3. F = [v \in Nat |-> DigitStep(base, F, v)]
  BY <1>2
<1> HIDE DEF F
<1>4. Divisor(base) = base
  BY DEF Divisor
<1>5. Digits(base) = CHOOSE f : f = [v \in Nat |-> DigitStep(base, f, v)]
  BY <1>4 DEF Digits, DigitStep
<1>6. \E f : f = [v \in Nat |-> DigitStep(base, f, v)]
  BY <1>3
<1> QED  BY <1>5, <1>6

\* It stores characters.
LEMMA DigitsTyped ==
  ASSUME NEW base \in {10, 16}
  PROVE  \A v \in Nat : Digits(base)[v] \in Seq(Letters)
<1> DEFINE D == Digits(base)
           S == {v \in Nat : D[v] \in Seq(Letters)}
<1>1. D = [v \in Nat |-> DigitStep(base, D, v)]
  BY DigitsDefined
<1> HIDE DEF D
<1>2. ASSUME NEW v \in Nat, \A u \in Nat : u < v => u \in S  PROVE v \in S
  <2>1. v # 0 => D[v \div base] \in Seq(Letters)
    BY <1>2, Smaller
  <2>2. DigitStep(base, D, v) \in Seq(Letters)
    BY <2>1, StepTyped
  <2>3. D[v] = DigitStep(base, D, v)
    BY <1>1
  <2> QED  BY <2>2, <2>3
<1>3. Nat \subseteq S
  <2> HIDE DEF S
  <2> QED  BY <1>2, Complete
<1> QED  BY <1>3 DEF D

\* itoa returns a string.
LEMMA ItoaTyped ==
  ASSUME NEW value \in Int, NEW base \in {10, 16}
  PROVE  itoa(value, base) \in Seq(Letters)
<1> DEFINE zero == IF value = 0 THEN <<"0">> ELSE <<>>
           negative == base = 10 /\ value < 0
           left == IF negative THEN -value ELSE value
           digits == IF left > 0 THEN Digits(base)[left] ELSE <<>>
           sign == IF negative THEN <<"-">> ELSE <<>>
           prefix == IF base = 16 THEN <<"x", "0">> ELSE <<>>
           s == zero \o digits \o sign \o prefix
<1>1. zero \in Seq(Letters) /\ sign \in Seq(Letters) /\ prefix \in Seq(Letters)
  <2>1. "0" \in Letters /\ "-" \in Letters /\ "x" \in Letters
    BY DEF Letters
  <2>2. <<"0">> \in Seq(Letters) /\ <<"-">> \in Seq(Letters) /\ <<"x", "0">> \in Seq(Letters)
        /\ <<>> \in Seq(Letters)
    BY <2>1
  <2> QED  BY <2>2
<1>2. digits \in Seq(Letters)
  <2>1. CASE left > 0
    <3>1. left \in Nat
      BY <2>1
    <3> HIDE DEF left
    <3> QED  BY <2>1, <3>1, DigitsTyped
  <2>2. CASE ~(left > 0)
    BY <2>2
  <2> QED  BY <2>1, <2>2
<1>3. itoa(value, base) = Reverse(s)
  BY DEF itoa
<1> HIDE DEF zero, digits, sign, prefix, negative, left
<1>4. s \in Seq(Letters)
  BY <1>1, <1>2
<1> HIDE DEF s
<1>5. Reverse(s) \in Seq(Letters)
  BY <1>4 DEF Reverse
<1> QED  BY <1>3, <1>5

-----------------------------------------------------------------------------
(* What the digits are.  The reference is positional notation: the i-th    *)
(* character from the right is the digit of base^(i-1).                    *)

\* f starts at a and goes on by the table step.
Iterates(T, a, step, f) ==
  /\ f \in [Nat -> T] /\ f[0] = a
  /\ \A k \in Nat : f[k + 1] = step[f[k]]

\* There is such a function.
LEMMA IterationExists ==
  ASSUME NEW T, NEW a \in T, NEW step \in [T -> T]
  PROVE  \E f : Iterates(T, a, step, f)
<1> DEFINE Upto(n, f) == /\ f \in [0 .. n -> T] /\ f[0] = a
                         /\ \A k \in 0 .. n - 1 : f[k + 1] = step[f[k]]
           S == {n \in Nat : \E f : Upto(n, f)}
<1>1. ASSUME NEW n \in Nat, \A u \in Nat : u < n => u \in S  PROVE n \in S
  <2>1. CASE n = 0
    <3> DEFINE f == [k \in 0 .. 0 |-> a]
    <3>1. Upto(0, f)
      OBVIOUS
    <3> QED  BY <2>1, <3>1
  <2>2. CASE n # 0
    <3>1. n - 1 \in Nat /\ n - 1 < n
      BY <2>2
    <3>2. PICK g : Upto(n - 1, g)
      BY <1>1, <3>1
    <3> DEFINE f == [k \in 0 .. n |-> IF k = n THEN step[g[n - 1]] ELSE g[k]]
    <3>3. f \in [0 .. n -> T]
      <4>1. g[n - 1] \in T
        BY <3>1, <3>2
      <4>2. step[g[n - 1]] \in T
        BY <4>1
      <4> QED  BY <3>2, <4>2
    <3>4. f[0] = a
      BY <2>2, <3>2
    <3>5. ASSUME NEW k \in 0 .. n - 1  PROVE f[k + 1] = step[f[k]]
      <4>1. f[k] = g[k]
        BY <3>1
      <4>2. CASE k = n - 1
        BY <4>1, <4>2, <3>1
      <4>3. CASE k # n - 1
        <5>1. f[k + 1] = g[k + 1] /\ k \in 0 .. (n - 1) - 1
          BY <4>3, <3>1
        <5> QED  BY <3>2, <4>1, <5>1
      <4> QED  BY <4>2, <4>3
    <3> HIDE DEF f
    <3>6. Upto(n, f)
      BY <3>3, <3>4, <3>5
    <3> QED  BY <3>6
  <2> QED  BY <2>1, <2>2
<1>2. ASSUME NEW n \in Nat  PROVE \E f : Upto(n, f)
  <2>1. Nat \subseteq S
    <3> HIDE DEF S
    <3> QED  BY <1>1, Complete
  <2> QED  BY <2>1
<1> DEFINE A(n) == CHOOSE f : Upto(n, f)
           F == [n \in Nat |-> A(n)[n]]
<1>3. ASSUME NEW n \in Nat  PROVE Upto(n, A(n))
  BY <1>2
<1>4. ASSUME NEW n \in Nat, NEW m \in Nat
      PROVE  \A k \in Nat : k <= n /\ k <= m => A(n)[k] = A(m)[k]
  <2> DEFINE R == {k \in Nat : k <= n /\ k <= m => A(n)[k] = A(m)[k]}
  <2>1. Upto(n, A(n)) /\ Upto(m, A(m))
    BY <1>3
  <2> HIDE DEF A
  <2>2. ASSUME NEW k \in Nat, \A u \in Nat : u < k => u \in R  PROVE k \in R
    <3> SUFFICES ASSUME k <= n, k <= m  PROVE A(n)[k] = A(m)[k]
      OBVIOUS
    <3>1. CASE k = 0
      BY <2>1, <3>1
    <3>2. CASE k # 0
      <4> DEFINE u == k - 1
      <4>1. u \in Nat /\ u < k /\ u + 1 = k /\ u <= n /\ u <= m
            /\ u \in 0 .. n - 1 /\ u \in 0 .. m - 1
        BY <3>2
      <4> HIDE DEF u
      <4>2. A(n)[u] = A(m)[u]
        BY <2>2, <4>1
      <4>3. A(n)[u + 1] = step[A(n)[u]] /\ A(m)[u + 1] = step[A(m)[u]]
        BY <2>1, <4>1
      <4> QED  BY <4>1, <4>2, <4>3
    <3> QED  BY <3>1, <3>2
  <2>3. Nat \subseteq R
    <3> HIDE DEF R
    <3> QED  BY <2>2, Complete
  <2> QED  BY <2>3
<1>5. F \in [Nat -> T]
  <2>1. ASSUME NEW n \in Nat  PROVE A(n)[n] \in T
    <3>1. n \in 0 .. n
      OBVIOUS
    <3> HIDE DEF A
    <3> QED  BY <1>3, <3>1
  <2> HIDE DEF A
  <2> QED  BY <2>1
<1>6. F[0] = a
  <2>1. Upto(0, A(0))
    BY <1>3
  <2> HIDE DEF A
  <2> QED  BY <2>1
<1>7. ASSUME NEW k \in Nat  PROVE F[k + 1] = step[F[k]]
  <2>1. k + 1 \in Nat /\ k <= k + 1 /\ k <= k /\ k \in 0 .. (k + 1) - 1
    OBVIOUS
  <2>2. Upto(k + 1, A(k + 1))
    BY <1>3, <2>1
  <2>3. A(k + 1)[k] = A(k)[k]
    <3> HIDE DEF A
    <3> QED  BY <1>4, <2>1
  <2> HIDE DEF A
  <2>4. A(k + 1)[k + 1] = step[A(k + 1)[k]]
    BY <2>1, <2>2
  <2> QED  BY <2>1, <2>3, <2>4
<1> HIDE DEF F
<1> QED  BY <1>5, <1>6, <1>7 DEF Iterates

\* The powers of the base.
LEMMA PowerDefined ==
  ASSUME NEW b \in Nat
  PROVE  /\ Power(b) \in [Nat -> Nat]
         /\ Power(b)[0] = 1
         /\ \A k \in Nat : Power(b)[k + 1] = b * Power(b)[k]
<1> DEFINE step == [x \in Nat |-> b * x]
           P == Power(b)
<1>1. step \in [Nat -> Nat] /\ 1 \in Nat
  OBVIOUS
<1>2. PICK f \in [Nat -> Nat] : f[0] = 1 /\ \A k \in Nat : f[k + 1] = step[f[k]]
  <2> HIDE DEF step
  <2>1. \E f : Iterates(Nat, 1, step, f)
    BY <1>1, IterationExists
  <2> QED  BY <2>1 DEF Iterates
<1>3. ASSUME NEW k \in Nat  PROVE f[k] = IF k = 0 THEN 1 ELSE b * f[k - 1]
  <2>1. CASE k = 0
    BY <1>2, <2>1
  <2>2. CASE k # 0
    <3>1. k - 1 \in Nat /\ (k - 1) + 1 = k
      BY <2>2
    <3>2. f[(k - 1) + 1] = step[f[k - 1]]
      BY <1>2, <3>1
    <3>3. f[k - 1] \in Nat
      BY <1>2, <3>1
    <3>4. step[f[k - 1]] = b * f[k - 1]
      BY <3>3
    <3> HIDE DEF step
    <3>5. f[k] = b * f[k - 1]
      BY <3>1, <3>2, <3>4
    <3> QED  BY <2>2, <3>5
  <2> QED  BY <2>1, <2>2
<1>4. f = [k \in Nat |-> IF k = 0 THEN 1 ELSE b * f[k - 1]]
  BY <1>2, <1>3
<1>5. P = CHOOSE g : g = [k \in Nat |-> IF k = 0 THEN 1 ELSE b * g[k - 1]]
  BY DEF Power
<1>6. P = [k \in Nat |-> IF k = 0 THEN 1 ELSE b * P[k - 1]]
  BY <1>4, <1>5
<1> HIDE DEF P
<1>7. P[0] = 1
  BY <1>6
<1>8. ASSUME NEW k \in Nat  PROVE P[k + 1] = b * P[k]
  <2>1. k + 1 \in Nat /\ k + 1 # 0 /\ (k + 1) - 1 = k
    OBVIOUS
  <2>2. P[k + 1] = IF k + 1 = 0 THEN 1 ELSE b * P[(k + 1) - 1]
    BY <1>6, <2>1
  <2> QED  BY <2>1, <2>2
<1>9. \A k \in Nat : P[k] \in Nat
  <2> DEFINE S == {k \in Nat : P[k] \in Nat}
  <2>1. ASSUME NEW k \in Nat, \A u \in Nat : u < k => u \in S  PROVE k \in S
    <3>1. CASE k = 0
      BY <1>7, <3>1
    <3>2. CASE k # 0
      <4> DEFINE u == k - 1
      <4>1. u \in Nat /\ u < k /\ u + 1 = k
        BY <3>2
      <4> HIDE DEF u
      <4>2. P[u] \in Nat /\ P[u + 1] = b * P[u]
        BY <1>8, <2>1, <4>1
      <4>3. b * P[u] \in Nat
        BY <4>2
      <4> QED  BY <4>1, <4>2, <4>3
    <3> QED  BY <3>1, <3>2
  <2>2. Nat \subseteq S
    <3> HIDE DEF S
    <3> QED  BY <2>1, Complete
  <2> QED  BY <2>2
<1>10. P \in [Nat -> Nat]
  BY <1>6, <1>9
<1> QED  BY <1>7, <1>8, <1>10 DEF P

\* The powers grow, faster than their exponents.
LEMMA PowerGrows ==
  ASSUME NEW b \in {10, 16}
  PROVE  /\ \A k \in Nat : Power(b)[k] > k
         /\ \A k \in Nat : \A j \in Nat : j <= k => Power(b)[j] <= Power(b)[k]
<1> DEFINE P == Power(b)
           S == {k \in Nat : P[k] > k /\ \A j \in Nat : j <= k => P[j] <= P[k]}
<1>1. /\ P \in [Nat -> Nat] /\ P[0] = 1
      /\ \A k \in Nat : P[k + 1] = b * P[k]
  <2>1. b \in Nat
    OBVIOUS
  <2> QED  BY <2>1, PowerDefined
<1> HIDE DEF P
<1>2. ASSUME NEW k \in Nat, \A u \in Nat : u < k => u \in S  PROVE k \in S
  <2>1. CASE k = 0
    BY <1>1, <2>1
  <2>2. CASE k # 0
    <3> DEFINE u == k - 1
    <3>1. u \in Nat /\ u < k /\ u + 1 = k
      BY <2>2
    <3> HIDE DEF u
    <3>2. P[u] > u /\ P[u] \in Nat /\ P[u + 1] = b * P[u]
          /\ \A j \in Nat : j <= u => P[j] <= P[u]
      BY <1>1, <1>2, <3>1
    <3>3. P[k] = b * P[u] /\ P[k] \in Nat
      BY <1>1, <3>1, <3>2
    <3>4. P[k] > P[u] /\ P[k] > k
      <4>1. CASE b = 10
        BY <3>1, <3>2, <3>3, <4>1
      <4>2. CASE b = 16
        BY <3>1, <3>2, <3>3, <4>2
      <4> QED  BY <4>1, <4>2
    <3>5. ASSUME NEW j \in Nat, j <= k  PROVE P[j] <= P[k]
      <4>1. CASE j = k
        BY <3>3, <4>1
      <4>2. CASE j # k
        <5>1. j <= u
          BY <3>1, <3>5, <4>2
        <5>2. P[j] \in Nat
          BY <1>1
        <5> QED  BY <3>2, <3>3, <3>4, <5>1, <5>2
      <4> QED  BY <4>1, <4>2
    <3> QED  BY <3>4, <3>5
  <2> QED  BY <2>1, <2>2
<1>3. Nat \subseteq S
  <2> HIDE DEF S
  <2> QED  BY <1>2, Complete
<1> QED  BY <1>3 DEF P

\* Division has one answer.
LEMMA Quotient ==
  ASSUME NEW a \in Nat, NEW p \in Nat, p > 0, NEW q \in Nat,
         p * q <= a, a < p * (q + 1)
  PROVE  a \div p = q
<1> DEFINE e == a \div p
<1>1. e \in Int /\ p * e <= a /\ a < p * (e + 1)
  OBVIOUS
<1> HIDE DEF e
<1>2. CASE e < q
  <2>1. e + 1 <= q
    BY <1>1, <1>2
  <2>2. p * (e + 1) <= p * q
    BY <1>1, <2>1
  <2> QED  BY <1>1, <2>2
<1>3. CASE q < e
  <2>1. q + 1 <= e
    BY <1>1, <1>3
  <2>2. p * (q + 1) <= p * e
    BY <1>1, <2>1
  <2> QED  BY <1>1, <2>2
<1> QED  BY <1>1, <1>2, <1>3 DEF e

\* Dividing twice is dividing by the product.
LEMMA DivTwice ==
  ASSUME NEW b \in {10, 16}, NEW v \in Nat, NEW p \in Nat, p > 0
  PROVE  (v \div b) \div p = v \div (b * p)
<1> DEFINE w == v \div b
           q == w \div p
<1>1. w \in Nat /\ b * w <= v /\ v < b * (w + 1) /\ b > 0
  <2>1. CASE b = 10
    BY <2>1
  <2>2. CASE b = 16
    BY <2>2
  <2> QED  BY <2>1, <2>2
<1> HIDE DEF w
<1>2. q \in Nat /\ p * q <= w /\ w < p * (q + 1)
  BY <1>1
<1> HIDE DEF q
<1> DEFINE x == p * q
           y == p * (q + 1)
<1>3. x \in Nat /\ y \in Nat /\ x <= w /\ w + 1 <= y
  BY <1>1, <1>2
<1>4. (b * p) * q = b * x /\ (b * p) * (q + 1) = b * y
  BY <1>2
<1>5. b * p \in Nat /\ b * p > 0
  <2>1. CASE b = 10
    BY <2>1
  <2>2. CASE b = 16
    BY <2>2
  <2> QED  BY <2>1, <2>2
<1> HIDE DEF x, y
<1>6. b * x <= v /\ v < b * y
  <2>1. CASE b = 10
    BY <1>1, <1>3, <2>1
  <2>2. CASE b = 16
    BY <1>1, <1>3, <2>2
  <2> QED  BY <2>1, <2>2
<1> DEFINE r == b * p
<1> HIDE DEF r
<1>7. r \in Nat /\ r > 0 /\ r * q <= v /\ v < r * (q + 1)
  BY <1>4, <1>5, <1>6 DEF r
<1>8. v \div r = q
  BY <1>2, <1>7, Quotient
<1> QED  BY <1>8 DEF r, q, w

\* The digits that the loop stores: the i-th is that of base^(i-1), and there
\* are as many as v needs.
LEMMA DigitPlaces ==
  ASSUME NEW b \in {10, 16}, NEW v \in Nat, v # 0
  PROVE  LET D == Digits(b)[v]
             P == Power(b)
         IN /\ D \in Seq(Letters) /\ Len(D) >= 1
            /\ P[Len(D) - 1] <= v /\ v < P[Len(D)]
            /\ \A i \in 1 .. Len(D) : D[i] = Glyph[((v \div P[i - 1]) % b) + 1]
<1> DEFINE E == Digits(b)
           P == Power(b)
           Right(u) == /\ Len(E[u]) >= 1
                       /\ P[Len(E[u]) - 1] <= u /\ u < P[Len(E[u])]
                       /\ \A i \in 1 .. Len(E[u]) :
                            E[u][i] = Glyph[((u \div P[i - 1]) % b) + 1]
           S == {u \in Nat : u # 0 => Right(u)}
<1>1. E = [u \in Nat |-> DigitStep(b, E, u)]
  BY DigitsDefined
<1>2. \A u \in Nat : E[u] \in Seq(Letters)
  BY DigitsTyped
<1>3. /\ P \in [Nat -> Nat] /\ P[0] = 1
      /\ \A k \in Nat : P[k + 1] = b * P[k]
  <2>1. b \in Nat
    OBVIOUS
  <2> QED  BY <2>1, PowerDefined
<1>4. \A k \in Nat : P[k] > k
  BY PowerGrows
<1> HIDE DEF E, P
<1>5. ASSUME NEW u \in Nat, \A t \in Nat : t < u => t \in S  PROVE u \in S
  <2> SUFFICES ASSUME u # 0  PROVE Right(u)
    OBVIOUS
  <2> DEFINE w == u \div b
             last == Glyph[(u % b) + 1]
  <2>1. w \in Nat /\ w < u /\ b * w <= u /\ u < b * (w + 1)
    <3>1. CASE b = 10
      BY <3>1
    <3>2. CASE b = 16
      BY <3>2
    <3> QED  BY <3>1, <3>2
  <2>2. E[u] = <<last>> \o E[w]
    BY <1>1 DEF DigitStep
  <2>3. u \div P[0] = u
    BY <1>3
  <2>4. w # 0 => Right(w)
    <3> HIDE DEF Right, w
    <3> QED  BY <1>5, <2>1
  <2>5. P[1] = b
    <3>1. 0 \in Nat /\ 0 + 1 = 1
      OBVIOUS
    <3>2. P[0 + 1] = b * P[0]
      BY <1>3, <3>1
    <3> QED  BY <1>3, <3>1, <3>2
  <2> HIDE DEF last
  <2>6. CASE w = 0
    <3>1. E[w] = <<>>
      <4>1. DigitStep(b, E, 0) = <<>>
        BY DEF DigitStep
      <4> QED  BY <1>1, <2>6, <4>1
    <3>2. E[u] = <<last>>
      <4> HIDE DEF w
      <4> QED  BY <2>2, <3>1
    <3>3. u < b
      <4>1. CASE b = 10
        BY <2>1, <2>6, <4>1
      <4>2. CASE b = 16
        BY <2>1, <2>6, <4>2
      <4> QED  BY <4>1, <4>2
    <3>4. Len(E[u]) = 1 /\ E[u][1] = last
      BY <3>2
    <3>5. Len(E[u]) - 1 = 0 /\ P[0] <= u /\ u < P[1]
      BY <1>3, <2>5, <3>3, <3>4
    <3>6. ASSUME NEW i \in 1 .. 1  PROVE E[u][i] = Glyph[((u \div P[i - 1]) % b) + 1]
      <4>1. i = 1 /\ i - 1 = 0
        OBVIOUS
      <4> QED  BY <2>3, <3>4, <4>1 DEF last
    <3> QED  BY <3>4, <3>5, <3>6
  <2>7. CASE w # 0
    <3> DEFINE k == Len(E[w])
    <3>1. Right(w) /\ E[w] \in Seq(Letters)
      BY <1>2, <2>1, <2>4, <2>7
    <3>2. k \in Nat /\ k >= 1 /\ k - 1 \in Nat /\ (k - 1) + 1 = k
      BY <3>1
    <3>3. P[k - 1] <= w /\ w < P[k] /\ P[k - 1] \in Nat /\ P[k] \in Nat
      BY <1>3, <3>1, <3>2
    <3>4. P[k] = b * P[k - 1] /\ P[k + 1] = b * P[k] /\ P[k + 1] \in Nat
      <4> HIDE DEF k
      <4>1. P[(k - 1) + 1] = b * P[k - 1] /\ P[k + 1] = b * P[k]
        BY <1>3, <3>2
      <4> QED  BY <1>3, <3>2, <4>1
    <3>5. Len(E[u]) = k + 1 /\ E[u][1] = last
          /\ \A i \in 2 .. k + 1 : E[u][i] = E[w][i - 1]
      <4> HIDE DEF w
      <4> QED  BY <2>2, <3>1, <3>2
    <3>6. P[k] <= u /\ u < P[k + 1]
      <4> HIDE DEF k, w
      <4> DEFINE x == P[k - 1]
                 y == P[k]
      <4> HIDE DEF x, y
      <4>1. x \in Nat /\ y \in Nat /\ x <= w /\ w + 1 <= y /\ y = b * x /\ P[k + 1] = b * y
        BY <2>1, <3>3, <3>4 DEF x, y
      <4>2. y <= u /\ u < b * y
        <5>1. CASE b = 10
          BY <2>1, <4>1, <5>1
        <5>2. CASE b = 16
          BY <2>1, <4>1, <5>2
        <5> QED  BY <5>1, <5>2
      <4> QED  BY <4>1, <4>2 DEF y
    <3>7. ASSUME NEW i \in 1 .. k + 1
          PROVE  E[u][i] = Glyph[((u \div P[i - 1]) % b) + 1]
      <4>1. CASE i = 1
        <5>1. i - 1 = 0
          BY <4>1
        <5> QED  BY <2>3, <3>5, <4>1, <5>1 DEF last
      <4>2. CASE i # 1
        <5> DEFINE j == i - 1
        <5>1. j \in 1 .. k /\ j - 1 \in Nat /\ (j - 1) + 1 = j /\ i \in 2 .. k + 1
          BY <3>2, <4>2
        <5>2. E[u][i] = E[w][j]
          BY <3>5, <5>1
        <5> HIDE DEF j, k
        <5>3. E[w][j] = Glyph[((w \div P[j - 1]) % b) + 1]
          <6> HIDE DEF w
          <6> QED  BY <3>1, <5>1 DEF k
        <5>4. P[(j - 1) + 1] = b * P[j - 1] /\ P[j - 1] \in Nat /\ P[j - 1] > 0
          BY <1>3, <1>4, <5>1
        <5>5. w \div P[j - 1] = u \div (b * P[j - 1])
          BY <5>4, DivTwice
        <5>6. u \div P[j] = w \div P[j - 1]
          BY <5>1, <5>4, <5>5
        <5> HIDE DEF w
        <5> QED  BY <5>2, <5>3, <5>6 DEF j
      <4> QED  BY <4>1, <4>2
    <3> HIDE DEF k
    <3>8. (k + 1) - 1 = k /\ k + 1 >= 1
      BY <3>2
    <3> QED  BY <3>5, <3>6, <3>7, <3>8
  <2> QED  BY <2>6, <2>7
<1>6. v \in S
  <2>1. Nat \subseteq S
    <3> HIDE DEF S
    <3> QED  BY <1>5, Complete
  <2> QED  BY <2>1
<1>7. Right(v) /\ E[v] \in Seq(Letters)
  BY <1>2, <1>6
<1> QED  BY <1>7 DEF E, P

\* The width of a number is the number of its digits.
LEMMA WidthIs ==
  ASSUME NEW b \in {10, 16}, NEW v \in Nat, NEW k \in Nat, k >= 1,
         v < Power(b)[k], k > 1 => Power(b)[k - 1] <= v
  PROVE  Width(v, b) = k
<1> DEFINE P == Power(b)
           Is(j) == v < P[j] /\ (j > 1 => P[j - 1] <= v)
           j == CHOOSE n \in 1 .. v + 1 : Is(n)
<1>1. /\ P \in [Nat -> Nat]
      /\ \A n \in Nat : P[n] > n
      /\ \A n \in Nat : \A m \in Nat : m <= n => P[m] <= P[n]
  <2>1. b \in Nat
    OBVIOUS
  <2> QED  BY <2>1, PowerDefined, PowerGrows
<1>2. v < P[k] /\ (k > 1 => P[k - 1] <= v)
  OBVIOUS
<1> HIDE DEF P
<1>3. k \in 1 .. v + 1
  <2>1. CASE k = 1
    BY <2>1
  <2>2. CASE k # 1
    <3>1. k - 1 \in Nat /\ k > 1
      BY <2>2
    <3>2. P[k - 1] > k - 1 /\ P[k - 1] \in Nat
      BY <1>1, <3>1
    <3> QED  BY <1>2, <3>1, <3>2
  <2> QED  BY <2>1, <2>2
<1>4. j \in 1 .. v + 1 /\ Is(j)
  BY <1>2, <1>3
<1> HIDE DEF j
<1>5. j = k
  <2>1. j \in Nat /\ j >= 1 /\ P[j] \in Nat /\ P[k] \in Nat
    BY <1>1, <1>4
  <2>2. CASE j < k
    <3>1. k - 1 \in Nat /\ k > 1 /\ j <= k - 1
      BY <2>1, <2>2
    <3>2. P[j] <= P[k - 1] /\ P[k - 1] \in Nat
      BY <1>1, <2>1, <3>1
    <3>3. P[k - 1] <= v /\ v < P[j]
      BY <1>2, <1>4, <3>1
    <3> QED  BY <2>1, <3>2, <3>3
  <2>3. CASE k < j
    <3>1. j - 1 \in Nat /\ j > 1 /\ k <= j - 1
      BY <2>1, <2>3
    <3>2. P[k] <= P[j - 1] /\ P[j - 1] \in Nat
      BY <1>1, <3>1
    <3>3. P[j - 1] <= v /\ v < P[k]
      BY <1>2, <1>4, <3>1
    <3> QED  BY <2>1, <3>2, <3>3
  <2> QED  BY <2>1, <2>2, <2>3
<1> QED  BY <1>5 DEF Width, j, P

\* The loop stores the numeral backwards.
LEMMA NumeralIs ==
  ASSUME NEW b \in {10, 16}, NEW v \in Nat, v # 0
  PROVE  Numeral(v, b) = Reverse(Digits(b)[v])
<1> DEFINE D == Digits(b)[v]
           P == Power(b)
           k == Len(D)
<1>1. /\ D \in Seq(Letters) /\ k >= 1 /\ k \in Nat
      /\ P[k - 1] <= v /\ v < P[k]
      /\ \A i \in 1 .. k : D[i] = Glyph[((v \div P[i - 1]) % b) + 1]
  BY DigitPlaces
<1>2. Width(v, b) = k
  <2> HIDE DEF D
  <2> QED  BY <1>1, WidthIs
<1>3. Numeral(v, b) = [i \in 1 .. k |-> Glyph[((v \div P[k - i]) % b) + 1]]
  <2> HIDE DEF D, k
  <2> QED  BY <1>2 DEF Numeral
<1>4. Reverse(D) = [i \in 1 .. k |-> D[(k - i) + 1]]
  BY DEF Reverse
<1> HIDE DEF k, D, P
<1>5. ASSUME NEW i \in 1 .. k
      PROVE  D[(k - i) + 1] = Glyph[((v \div P[k - i]) % b) + 1]
  <2>1. (k - i) + 1 \in 1 .. k /\ ((k - i) + 1) - 1 = k - i
    BY <1>1
  <2> QED  BY <1>1, <2>1
<1>6. Numeral(v, b) = Reverse(D)
  BY <1>3, <1>4, <1>5
<1> QED  BY <1>6 DEF D

\* Zero has one digit.
LEMMA NumeralZero ==
  ASSUME NEW b \in {10, 16}
  PROVE  Numeral(0, b) = <<"0">>
<1> DEFINE P == Power(b)
<1>1. P \in [Nat -> Nat] /\ P[0] = 1 /\ P[1] > 1
  <2>1. b \in Nat
    OBVIOUS
  <2> QED  BY <2>1, PowerDefined, PowerGrows
<1>2. Width(0, b) = 1
  <2>1. P[1] \in Nat /\ 0 < P[1]
    BY <1>1
  <2> HIDE DEF P
  <2> QED  BY <2>1, WidthIs DEF P
<1>3. Numeral(0, b) = [i \in 1 .. 1 |-> Glyph[((0 \div P[1 - i]) % b) + 1]]
  <2> HIDE DEF P
  <2> QED  BY <1>2 DEF Numeral, P
<1> HIDE DEF P
<1>4. ASSUME NEW i \in 1 .. 1  PROVE Glyph[((0 \div P[1 - i]) % b) + 1] = "0"
  <2>1. P[1 - i] = 1
    BY <1>1
  <2>2. 0 \div P[1 - i] = 0
    BY <2>1
  <2>3. 0 % b = 0
    <3>1. CASE b = 10
      BY <3>1
    <3>2. CASE b = 16
      BY <3>2
    <3> QED  BY <3>1, <3>2
  <2>4. Glyph[1] = "0"
    BY DEF Glyph
  <2> QED  BY <2>2, <2>3, <2>4
<1>5. Numeral(0, b) = [i \in 1 .. 1 |-> "0"]
  BY <1>3, <1>4
<1> QED  BY <1>5

\* Reversing puts the sign or the prefix in front.
LEMMA ReverseAppend ==
  ASSUME NEW T, NEW s \in Seq(T), NEW x \in T
  PROVE  Reverse(s \o <<x>>) = <<x>> \o Reverse(s)
<1> DEFINE r == s \o <<x>>
           n == Len(s)
<1>1. r \in Seq(T) /\ Len(r) = n + 1 /\ r[n + 1] = x /\ n \in Nat
      /\ \A i \in 1 .. n : r[i] = s[i]
  OBVIOUS
<1>2. Reverse(r) = [i \in 1 .. n + 1 |-> r[((n + 1) - i) + 1]]
  <2> HIDE DEF r, n
  <2> QED  BY <1>1 DEF Reverse
<1>3. Reverse(s) = [i \in 1 .. n |-> s[(n - i) + 1]]
  BY DEF Reverse
<1>4. Reverse(s) \in Seq(T) /\ Len(Reverse(s)) = n
  <2>1. ASSUME NEW i \in 1 .. n  PROVE s[(n - i) + 1] \in T
    BY <1>1
  <2> HIDE DEF n
  <2>2. [i \in 1 .. n |-> s[(n - i) + 1]] \in Seq(T)
    BY <1>1, <2>1
  <2> QED  BY <1>1, <1>3, <2>2
<1> DEFINE q == <<x>> \o Reverse(s)
<1>5. q \in Seq(T) /\ Len(q) = n + 1 /\ q[1] = x
      /\ \A i \in 2 .. n + 1 : q[i] = Reverse(s)[i - 1]
  <2> HIDE DEF n
  <2> QED  BY <1>1, <1>4
<1> HIDE DEF q, r, n
<1>6. ASSUME NEW i \in 1 .. n + 1  PROVE r[((n + 1) - i) + 1] = q[i]
  <2>1. CASE i = 1
    <3>1. ((n + 1) - i) + 1 = n + 1
      BY <1>1, <2>1
    <3> QED  BY <1>1, <1>5, <2>1, <3>1
  <2>2. CASE i # 1
    <3>1. i \in 2 .. n + 1 /\ i - 1 \in 1 .. n /\ (n - (i - 1)) + 1 \in 1 .. n
          /\ ((n + 1) - i) + 1 = (n - (i - 1)) + 1
      BY <1>1, <2>2
    <3>2. q[i] = s[(n - (i - 1)) + 1]
      BY <1>3, <1>5, <3>1
    <3> QED  BY <1>1, <3>1, <3>2
  <2> QED  BY <2>1, <2>2
<1>7. q = [i \in 1 .. n + 1 |-> q[i]]
  BY <1>1, <1>5
<1>8. Reverse(r) = q
  BY <1>2, <1>6, <1>7
<1> QED  BY <1>8 DEF r, q

\* What itoa reverses: the parts for which the code has an if each.
LEMMA ItoaIs ==
  ASSUME NEW v \in Int, NEW b \in {10, 16}, NEW u \in Int,
         u = IF b = 10 /\ v < 0 THEN -v ELSE v
  PROVE  itoa(v, b) =
           Reverse((((IF v = 0 THEN <<"0">> ELSE <<>>)
                      \o (IF u > 0 THEN Digits(b)[u] ELSE <<>>))
                      \o (IF b = 10 /\ v < 0 THEN <<"-">> ELSE <<>>))
                      \o (IF b = 16 THEN <<"x", "0">> ELSE <<>>))
<1> DEFINE zero == IF v = 0 THEN <<"0">> ELSE <<>>
           negative == b = 10 /\ v < 0
           left == IF negative THEN -v ELSE v
           digits(w) == IF w > 0 THEN Digits(b)[w] ELSE <<>>
           sign == IF negative THEN <<"-">> ELSE <<>>
           prefix == IF b = 16 THEN <<"x", "0">> ELSE <<>>
<1>1. itoa(v, b) = Reverse(((zero \o digits(left)) \o sign) \o prefix)
  BY DEF itoa
<1>2. left = u
  OBVIOUS
<1> HIDE DEF left
<1>3. digits(left) = digits(u)
  BY <1>2
<1> HIDE DEF zero, negative, digits, sign, prefix
<1>4. itoa(v, b) = Reverse(((zero \o digits(u)) \o sign) \o prefix)
  BY <1>1, <1>3
<1> QED  BY <1>4 DEF zero, negative, digits, sign, prefix

\* itoa writes every number as a reader expects it, in decimal with its sign
\* and, unless it is negative, in hexadecimal (itoa, libc/stdlib.c:3-62).
THEOREM ItoaWritesNumerals ==
  \A v \in Int : /\ itoa(v, 10) = Decimal(v)
                 /\ v >= 0 => itoa(v, 16) = Hexadecimal(v)
<1> SUFFICES ASSUME NEW v \in Int
             PROVE  /\ itoa(v, 10) = Decimal(v)
                    /\ v >= 0 => itoa(v, 16) = Hexadecimal(v)
  OBVIOUS
<1> DEFINE D(b, u) == Digits(b)[u]
<1>1. ASSUME NEW b \in {10, 16}, NEW u \in Nat, u # 0
      PROVE  D(b, u) \in Seq(Letters) /\ Numeral(u, b) = Reverse(D(b, u))
  BY <1>1, DigitsTyped, NumeralIs
<1>2. \A b \in {10, 16} : Numeral(0, b) = <<"0">>
  BY NumeralZero
<1>3. "0" \in Letters /\ "-" \in Letters /\ "x" \in Letters
  BY DEF Letters
<1>4. \A s \in Seq(Letters) :
        /\ <<>> \o s = s /\ s \o <<>> = s
        /\ s \o <<"x", "0">> = (s \o <<"x">>) \o <<"0">>
  BY <1>3
<1>5. \A s \in Seq(Letters) :
        /\ Reverse(s \o <<"-">>) = <<"-">> \o Reverse(s)
        /\ Reverse(s \o <<"x", "0">>) = <<"0", "x">> \o Reverse(s)
  <2> SUFFICES ASSUME NEW s \in Seq(Letters)
               PROVE  /\ Reverse(s \o <<"-">>) = <<"-">> \o Reverse(s)
                      /\ Reverse(s \o <<"x", "0">>) = <<"0", "x">> \o Reverse(s)
    OBVIOUS
  <2>1. /\ Reverse(s \o <<"-">>) = <<"-">> \o Reverse(s)
        /\ Reverse(s \o <<"x">>) = <<"x">> \o Reverse(s)
    BY <1>3, ReverseAppend
  <2>2. s \o <<"x">> \in Seq(Letters)
    BY <1>3
  <2>3. Reverse((s \o <<"x">>) \o <<"0">>) = <<"0">> \o Reverse(s \o <<"x">>)
    BY <1>3, <2>2, ReverseAppend
  <2>4. Reverse(s) \in Seq(Letters)
    <3>1. Reverse(s) = [i \in 1 .. Len(s) |-> s[(Len(s) - i) + 1]]
      BY DEF Reverse
    <3>2. \A i \in 1 .. Len(s) : s[(Len(s) - i) + 1] \in Letters
      OBVIOUS
    <3> QED  BY <3>1, <3>2
  <2>5. <<"0">> \o (<<"x">> \o Reverse(s)) = <<"0", "x">> \o Reverse(s)
    BY <1>3, <2>4
  <2> QED  BY <1>4, <2>1, <2>3, <2>5
<1>6. Reverse(<<"0">>) = <<"0">>
  BY DEF Reverse
<1> HIDE DEF D
<1>7. CASE v = 0
  <2>1. itoa(v, 10) = Reverse(((<<"0">> \o <<>>) \o <<>>) \o <<>>)
    BY <1>7 DEF itoa
  <2>2. itoa(v, 16) = Reverse(((<<"0">> \o <<>>) \o <<>>) \o <<"x", "0">>)
    BY <1>7 DEF itoa
  <2>3. <<"0">> \in Seq(Letters)
    BY <1>3
  <2> DEFINE z == <<"0">>
  <2> HIDE DEF z
  <2>4. itoa(v, 10) = Reverse(z) /\ itoa(v, 16) = Reverse(z \o <<"x", "0">>)
    BY <1>4, <2>1, <2>2, <2>3 DEF z
  <2>5. itoa(v, 10) = z /\ itoa(v, 16) = <<"0", "x">> \o z
    BY <1>5, <1>6, <2>3, <2>4 DEF z
  <2>6. Decimal(v) = Numeral(0, 10) /\ Hexadecimal(v) = <<"0", "x">> \o Numeral(0, 16)
    BY <1>7 DEF Decimal, Hexadecimal
  <2> QED  BY <1>2, <2>5, <2>6 DEF z
<1>8. CASE v > 0
  <2>1. itoa(v, 10) = Reverse(((<<>> \o D(10, v)) \o <<>>) \o <<>>)
    <3>1. v \in Int /\ v # 0 /\ v > 0 /\ ~(v < 0)
      BY <1>8
    <3>2. v = IF 10 = 10 /\ v < 0 THEN -v ELSE v
      BY <3>1
    <3>3. itoa(v, 10) =
           Reverse((((IF v = 0 THEN <<"0">> ELSE <<>>)
                      \o (IF v > 0 THEN Digits(10)[v] ELSE <<>>))
                      \o (IF 10 = 10 /\ v < 0 THEN <<"-">> ELSE <<>>))
                      \o (IF 10 = 16 THEN <<"x", "0">> ELSE <<>>))
      BY <3>1, <3>2, ItoaIs
    <3> QED  BY <3>1, <3>3 DEF D
  <2>2. itoa(v, 16) = Reverse(((<<>> \o D(16, v)) \o <<>>) \o <<"x", "0">>)
    <3>1. v \in Int /\ v # 0 /\ v > 0 /\ ~(v < 0)
      BY <1>8
    <3> QED  BY <3>1, ItoaIs DEF D
  <2>3. v \in Nat /\ v # 0
    BY <1>8
  <2>4. D(10, v) \in Seq(Letters) /\ D(16, v) \in Seq(Letters)
        /\ Numeral(v, 10) = Reverse(D(10, v)) /\ Numeral(v, 16) = Reverse(D(16, v))
    BY <1>1, <2>3
  <2>5. itoa(v, 10) = Numeral(v, 10) /\ itoa(v, 16) = <<"0", "x">> \o Numeral(v, 16)
    BY <1>4, <1>5, <2>1, <2>2, <2>4
  <2>6. Decimal(v) = Numeral(v, 10) /\ Hexadecimal(v) = <<"0", "x">> \o Numeral(v, 16)
    BY <1>8 DEF Decimal, Hexadecimal
  <2> QED  BY <2>5, <2>6
<1>9. CASE v < 0
  <2>1. itoa(v, 10) = Reverse(((<<>> \o D(10, -v)) \o <<"-">>) \o <<>>)
    <3>1. -v \in Int /\ v # 0 /\ -v > 0 /\ v < 0
      BY <1>9
    <3>2. (-v) = IF 10 = 10 /\ v < 0 THEN -v ELSE v
      BY <3>1
    <3>3. itoa(v, 10) =
           Reverse((((IF v = 0 THEN <<"0">> ELSE <<>>)
                      \o (IF (-v) > 0 THEN Digits(10)[(-v)] ELSE <<>>))
                      \o (IF 10 = 10 /\ v < 0 THEN <<"-">> ELSE <<>>))
                      \o (IF 10 = 16 THEN <<"x", "0">> ELSE <<>>))
      BY <3>1, <3>2, ItoaIs
    <3> QED  BY <3>1, <3>3 DEF D
  <2>2. -v \in Nat /\ -v # 0
    BY <1>9
  <2>3. D(10, -v) \in Seq(Letters) /\ Numeral(-v, 10) = Reverse(D(10, -v))
    BY <1>1, <2>2
  <2>4. D(10, -v) \o <<"-">> \in Seq(Letters)
    BY <1>3, <2>3
  <2>5. itoa(v, 10) = <<"-">> \o Numeral(-v, 10)
    BY <1>4, <1>5, <2>1, <2>3, <2>4
  <2>6. Decimal(v) = <<"-">> \o Numeral(-v, 10)
    BY <1>9 DEF Decimal
  <2> QED  BY <1>9, <2>5, <2>6
<1> QED  BY <1>7, <1>8, <1>9

-----------------------------------------------------------------------------
(* Types.                                                                  *)

\* A message, and a job of main.
Todo(m) == \E S : m \in Seq(S) /\ \A item \in S : WellTyped(item)

Job(s) == \E S : s \in Seq(S) /\ \A part \in S : part.op = "print" => Todo(part.text)

\* A call of kprintf in the middle of an item has that item first.
FrameOK(f) ==
  /\ f.pc \in Phases
  /\ Todo(f.todo)
  /\ f.x \in 0 .. 255 /\ f.y \in 0 .. 255
  /\ f.loc \in Nat
  /\ f.pc \in {"put", "advance", "tab", "margin"} => f.todo # <<>>
  /\ f.pc = "line" /\ f.then = "margin" => f.todo # <<>>
  /\ f.pc \in {"put", "advance"} => Printable(Head(f.todo))

framesInv == \A t \in Threads : FrameOK(frame[t])

typeInv == conInv /\ conTypeOK /\ framesInv /\ Job(script)

Byte == 0 .. 255
Registers == [index : {HIGH, LOW}, reg : [{HIGH, LOW} -> 0 .. ByteSize - 1]]

\* The items of a message, one by one.
LEMMA TodoOf ==
  ASSUME NEW m, NEW S, m \in Seq(S), \A item \in S : WellTyped(item)
  PROVE  Todo(m)
BY Zenon DEF Todo

\* An empty message.
LEMMA TodoNone == Todo(<<>>)
<1> DEFINE S == {}
<1>1. <<>> \in Seq(S) /\ \A item \in S : WellTyped(item)
  OBVIOUS
<1> HIDE DEF S
<1> QED  BY <1>1, TodoOf

\* A thread that is not in kprintf.
LEMMA ReturnedTyped == FrameOK(Returned)
<1>1. /\ Returned.todo = <<>> /\ Returned.pc = "idle" /\ Returned.x = 0 /\ Returned.y = 0
      /\ Returned.loc = 0
  BY DEF Returned
<1>2. Todo(Returned.todo)
  BY <1>1, TodoNone
<1> HIDE DEF Returned
<1> QED  BY <1>1, <1>2 DEF FrameOK, Phases

\* Taking the first item off a message leaves a message.
LEMMA TodoTail ==
  ASSUME NEW m, Todo(m), m # <<>>
  PROVE  Todo(Tail(m)) /\ WellTyped(Head(m))
<1>1. PICK S : m \in Seq(S) /\ \A item \in S : WellTyped(item)
  BY DEF Todo
<1>2. Tail(m) \in Seq(S) /\ Head(m) \in S
  BY <1>1
<1> QED  BY <1>1, <1>2 DEF Todo

\* The text of a conversion has a length.
LEMMA TextLength ==
  ASSUME NEW item, WellTyped(item), Printable(item)
  PROVE  Len(Text(item)) \in Nat
<1>1. item.kind \in {"char", "s", "d", "x", "X"}
  BY DEF WellTyped, Printable
<1>2. CASE item.kind = "char"
  <2>1. Text(item) = <<item.c>>
    BY <1>2 DEF Text
  <2> QED  BY <2>1
<1>3. CASE item.kind = "s"
  <2>1. Text(item) = item.s /\ item.s \in Seq(STRING)
    BY <1>3 DEF Text, WellTyped
  <2> QED  BY <2>1
<1>4. CASE item.kind = "d"
  <2>1. Text(item) = itoa(item.v, 10) /\ item.v \in Int
    BY <1>4 DEF Text, WellTyped
  <2>2. itoa(item.v, 10) \in Seq(Letters)
    BY <2>1, ItoaTyped
  <2> QED  BY <2>1, <2>2
<1>5. CASE item.kind = "x"
  <2>1. Text(item) = itoa(item.v, 16) /\ item.v \in Int
    BY <1>5 DEF Text, WellTyped
  <2>2. itoa(item.v, 16) \in Seq(Letters)
    BY <2>1, ItoaTyped
  <2> QED  BY <2>1, <2>2
<1>6. CASE item.kind = "X"
  <2> DEFINE s == itoa(item.v, 16)
  <2>1. Text(item) = Upper(s) /\ item.v \in Int
    BY <1>6 DEF Text, WellTyped
  <2>2. s \in Seq(Letters)
    BY <2>1, ItoaTyped
  <2> HIDE DEF s
  <2>3. Upper(s) = [j \in 1 .. Len(s) |-> IF j > 2 THEN toupper(s[j]) ELSE s[j]]
    BY <2>2 DEF Upper
  <2>4. Len(Upper(s)) = Len(s)
    BY <2>2, <2>3
  <2> QED  BY <2>1, <2>2, <2>4
<1> QED  BY <1>1, <1>2, <1>3, <1>4, <1>5, <1>6

\* A step of thread t that leaves its frame, the cursor and the controller
\* well typed.
LEMMA TypedStep ==
  ASSUME typeInv, NEW t \in Threads, FrameOK(frame'[t]),
         \A u \in Threads \ {t} : frame'[u] = frame[u],
         DOMAIN vid' = Cells, cursor_x' \in Byte, cursor_y' \in Byte, crtc' \in Registers,
         iflag' = iflag \/ iflag' \in BOOLEAN, cpu' \in Threads,
         mode' = mode \/ mode' \in {"halted", "spinning", "undefined"}
  PROVE  conTypeOK' /\ framesInv'
<1>1. framesInv'
  BY DEF typeInv, framesInv
<1>2. \A u \in Threads : frame'[u].pc \in Phases
  BY <1>1 DEF framesInv, FrameOK
<1>3. DOMAIN vid' = 0 .. ROWS * COLS - 1
  BY DEF Cells
<1>4. iflag' \in BOOLEAN /\ mode' \in {"running", "halted", "spinning", "undefined"}
  BY DEF typeInv, conTypeOK
<1> QED  BY <1>1, <1>2, <1>3, <1>4 DEF conTypeOK, Byte, Registers, Cells

\* What a step within a call relies on.
LEMMA Before ==
  ASSUME typeInv, NEW t \in Threads
  PROVE  /\ DOMAIN frame[t] = DOMAIN Returned /\ DOMAIN frame = Threads
         /\ FrameOK(frame[t]) /\ frame[t].then \in {"item", "margin"}
         /\ DOMAIN vid = Cells /\ cursor_x \in Byte /\ cursor_y \in Byte
         /\ crtc \in Registers /\ cpu \in Threads
BY DEF typeInv, conInv, framesInv, conTypeOK, Byte, Registers

\* The copies of the cursor are bytes.
LEMMA CopiesTyped ==
  ASSUME typeInv, NEW t \in Threads, NEW p \in Copies(t)
  PROVE  p[1] \in Byte /\ p[2] \in Byte
<1>1. /\ frame[t].x \in Byte /\ frame[t].y \in Byte
      /\ cursor_x \in Byte /\ cursor_y \in Byte
  BY Before DEF FrameOK, Byte
<1> QED  BY <1>1 DEF Copies, cursor

\* Bytes wrap.
LEMMA Wraps ==
  ASSUME NEW n \in Int
  PROVE  (n % 256) \in Byte
BY DEF Byte

\* The steps of an item.
LEMMA TypesInItem ==
  ASSUME typeInv, NEW t \in Threads,
         Load(t) \/ Put(t) \/ Advance(t) \/ TabStore(t) \/ Newline(t)
  PROVE  conTypeOK' /\ framesInv'
<1> DEFINE f == frame[t]
           g == frame'[t]
<1>1. /\ DOMAIN f = DOMAIN Returned /\ DOMAIN frame = Threads
      /\ FrameOK(f) /\ f.then \in {"item", "margin"}
      /\ DOMAIN vid = Cells /\ cursor_x \in Byte /\ cursor_y \in Byte
      /\ crtc \in Registers /\ cpu \in Threads
  BY Before
<1>2. CASE Load(t)
  <2>1. /\ g.x = cursor_x /\ g.y = cursor_y /\ g.loc = f.loc /\ g.todo = f.todo
        /\ g.then = f.then /\ f.todo # <<>>
        /\ g.pc = CASE Head(f.todo).kind = "tab" -> "tab"
                   [] Head(f.todo).kind = "none" -> "margin"
                   [] OTHER -> IF Text(Head(f.todo)) = <<>> THEN "advance" ELSE "put"
        /\ Head(f.todo).kind # "nl"
        /\ \A u \in Threads \ {t} : frame'[u] = frame[u]
    BY <1>1, <1>2 DEF Load, At, More, Item, Returned
  <2>2. /\ g.pc \in {"tab", "margin", "advance", "put"}
        /\ g.pc \in {"put", "advance"} => Printable(Head(f.todo))
    BY <2>1 DEF Printable
  <2>3. FrameOK(g)
    BY <1>1, <2>1, <2>2 DEF FrameOK, Byte, Phases
  <2>4. UNCHANGED <<vid, cursor_x, cursor_y, crtc, iflag, cpu, mode>>
    BY <1>2 DEF Load, cursor, machine
  <2> QED  BY <1>1, <2>1, <2>3, <2>4, TypedStep
<1>3. CASE Put(t)
  <2>1. /\ g.x = f.x /\ g.y = f.y /\ g.loc = f.loc /\ g.todo = f.todo
        /\ g.then = f.then /\ f.pc = "put" /\ g.pc \in {"put", "advance"}
        /\ \A u \in Threads \ {t} : frame'[u] = frame[u]
    BY <1>1, <1>3 DEF Put, At, Returned
  <2>2. FrameOK(g)
    BY <1>1, <2>1 DEF FrameOK, Phases
  <2>3. UNCHANGED <<cursor_x, cursor_y, crtc, iflag, cpu, mode>>
    BY <1>3 DEF Put, cursor, machine
  <2>4. DOMAIN vid' = Cells
    BY <1>1, <1>3 DEF Put
  <2> QED  BY <1>1, <2>1, <2>2, <2>3, <2>4, TypedStep
<1>4. ASSUME NEW x \in Byte, MoveRight(t, x), f.todo # <<>>  PROVE conTypeOK' /\ framesInv'
  <2>1. /\ g.x = x /\ g.y = f.y /\ g.loc = f.loc /\ g.todo = f.todo
        /\ g.then = f.then /\ g.pc = "margin"
        /\ \A u \in Threads \ {t} : frame'[u] = frame[u]
    BY <1>1, <1>4 DEF MoveRight, Returned
  <2>2. FrameOK(g)
    BY <1>1, <1>4, <2>1 DEF FrameOK, Phases, Byte
  <2>3. UNCHANGED <<vid, cursor_y, crtc, iflag, cpu, mode>> /\ cursor_x' = x
    BY <1>4 DEF MoveRight, machine
  <2> QED  BY <1>1, <1>4, <2>1, <2>2, <2>3, TypedStep
<1>5. CASE Advance(t)
  <2>1. f.pc = "advance"
    BY <1>5 DEF Advance, At
  <2>2. f.todo # <<>> /\ Printable(Head(f.todo)) /\ Todo(f.todo)
    BY <1>1, <2>1 DEF FrameOK
  <2>3. Len(Text(Item(t))) \in Nat
    BY <2>2, TodoTail, TextLength DEF Item
  <2>4. PICK p \in Copies(t) : MoveRight(t, (p[1] + Len(Text(Item(t)))) % 256)
    BY <1>5 DEF Advance
  <2>5. p[1] \in Int
    BY CopiesTyped DEF Byte
  <2>6. (p[1] + Len(Text(Item(t)))) % 256 \in Byte
    BY <2>3, <2>5, Wraps
  <2> QED  BY <1>4, <2>2, <2>4, <2>6
<1>6. CASE TabStore(t)
  <2> DEFINE x == ((f.x \div TabStop) + 1) * TabStop
  <2>1. MoveRight(t, x % 256)
    BY <1>6 DEF TabStore
  <2>2. f.todo # <<>>
    <3>1. f.pc = "tab"
      BY <1>6 DEF TabStore, At
    <3> HIDE DEF f
    <3> QED  BY <1>1, <3>1, Zenon DEF FrameOK
  <2>3. f.x \in 0 .. 255
    <3> HIDE DEF f
    <3> QED  BY <1>1, Zenon DEF FrameOK
  <2>4. x \in Int
    BY <2>3, ScreenAssumption
  <2> HIDE DEF x
  <2>5. (x % 256) \in Byte
    BY <2>4, Wraps
  <2> QED  BY <1>4, <2>1, <2>2, <2>5
<1>7. CASE Newline(t)
  <2>1. /\ g.x = 0 /\ g.y = f.y /\ g.loc = f.loc /\ g.todo = f.todo
        /\ g.pc = "line" /\ f.todo # <<>>
        /\ \A u \in Threads \ {t} : frame'[u] = frame[u]
    BY <1>1, <1>7 DEF Newline, LineStarts, At, More, Returned
  <2>2. FrameOK(g)
    <3> HIDE DEF f, g
    <3>1. g.x \in 0 .. 255
      BY <2>1
    <3>2. g.pc \in Phases
      BY <2>1 DEF Phases
    <3>3. g.todo # <<>>
      BY <2>1, Zenon
    <3> QED  BY <1>1, <2>1, <3>1, <3>2, <3>3 DEF FrameOK
  <2>3. UNCHANGED <<vid, cursor_x, cursor_y, crtc, iflag, cpu, mode>>
    BY <1>7 DEF Newline, cursor, machine
  <2> QED  BY <1>1, <2>1, <2>2, <2>3, TypedStep
<1> QED  BY <1>2, <1>3, <1>5, <1>6, <1>7

\* The start of a line, the end of an item and the scroll.
LEMMA TypesInLine ==
  ASSUME typeInv, NEW t \in Threads,
         LineStore(t) \/ Margin(t) \/ ScrollTest(t) \/ Shift(t) \/ LastRow(t)
  PROVE  conTypeOK' /\ framesInv'
<1> DEFINE f == frame[t]
           g == frame'[t]
<1>1. /\ DOMAIN f = DOMAIN Returned /\ DOMAIN frame = Threads
      /\ FrameOK(f) /\ f.then \in {"item", "margin"}
      /\ DOMAIN vid = Cells /\ cursor_x \in Byte /\ cursor_y \in Byte
      /\ crtc \in Registers /\ cpu \in Threads
  BY Before
<1>2. CASE LineStore(t)
  <2>1. /\ g.x = f.x /\ g.y = f.y /\ g.loc = f.loc /\ g.todo = f.todo
        /\ g.then = f.then /\ f.pc = "line" /\ g.pc \in {f.then, "line"}
        /\ \A u \in Threads \ {t} : frame'[u] = frame[u]
    <3>1. PICK o \in f.owed :
            LET left == f.owed \ {o}
            IN frame' = [frame EXCEPT ![t].owed = left,
                           ![t].pc = IF left = {} THEN f.then ELSE "line"]
      BY <1>2 DEF LineStore
    <3>2. f.pc = "line"
      BY <1>2 DEF LineStore, At
    <3> QED  BY <1>1, <3>1, <3>2 DEF Returned
  <2>2. FrameOK(g)
    BY <1>1, <2>1 DEF FrameOK, Phases
  <2>3. UNCHANGED <<vid, crtc, iflag, cpu, mode>>
    BY <1>2 DEF LineStore, machine
  <2>4. /\ cursor_x' \in {0, cursor_x}
        /\ cursor_y' \in {cursor_y, (cursor_y + 1) % 256}
    BY <1>2 DEF LineStore
  <2>5. cursor_x' \in Byte /\ cursor_y' \in Byte
    BY <1>1, <2>4 DEF Byte
  <2> QED  BY <1>1, <2>1, <2>2, <2>3, <2>5, TypedStep
<1>3. CASE Margin(t)
  <2>1. /\ g.x = f.x /\ g.y = f.y /\ g.loc = f.loc /\ g.todo = Tail(f.todo)
        /\ g.then = "item" /\ f.pc = "margin" /\ g.pc \in {"line", "item"}
        /\ \A u \in Threads \ {t} : frame'[u] = frame[u]
    <3>1. PICK p \in Copies(t) :
            frame' = [frame EXCEPT
              ![t].todo = Tail(@),
              ![t].pc = IF PastMargin(p[1]) THEN "line" ELSE "item",
              ![t].owed = IF PastMargin(p[1]) THEN {"x", "y"} ELSE {},
              ![t].then = "item"]
      BY <1>3 DEF Margin
    <3>2. f.pc = "margin"
      BY <1>3 DEF Margin, At
    <3> QED  BY <1>1, <3>1, <3>2 DEF Returned
  <2>2. Todo(Tail(f.todo))
    BY <1>1, <2>1, TodoTail DEF FrameOK
  <2>3. FrameOK(g)
    BY <1>1, <2>1, <2>2 DEF FrameOK, Phases
  <2>4. UNCHANGED <<vid, cursor_x, cursor_y, crtc, iflag, cpu, mode>>
    BY <1>3 DEF Margin, cursor, machine
  <2> QED  BY <1>1, <2>1, <2>3, <2>4, TypedStep
<1>4. ASSUME NEW pc \in {"shift", "move", "last"}, Go(t, pc),
             UNCHANGED <<crtc, iflag, cpu, mode>>,
             cursor_x' \in Byte, cursor_y' \in Byte, DOMAIN vid' = Cells
      PROVE  conTypeOK' /\ framesInv'
  <2>1. /\ g.x = f.x /\ g.y = f.y /\ g.loc = f.loc /\ g.todo = f.todo
        /\ g.pc = pc
        /\ \A u \in Threads \ {t} : frame'[u] = frame[u]
    BY <1>1, <1>4 DEF Go, Returned
  <2>2. FrameOK(g)
    BY <1>1, <1>4, <2>1 DEF FrameOK, Phases
  <2> QED  BY <1>1, <1>4, <2>1, <2>2, TypedStep
<1>5. CASE ScrollTest(t)
  <2>1. /\ \E pc \in {"shift", "move", "last"} : Go(t, pc)
        /\ UNCHANGED <<vid, cursor_x, cursor_y, crtc, iflag, cpu, mode>>
    BY <1>5 DEF ScrollTest, cursor, machine
  <2> QED  BY <1>1, <1>4, <2>1
<1>6. CASE Shift(t)
  <2>1. /\ Go(t, "last") /\ DOMAIN vid' = Cells
        /\ UNCHANGED <<cursor_x, cursor_y, crtc, iflag, cpu, mode>>
    BY <1>6 DEF Shift, Scrolled, cursor, machine
  <2> QED  BY <1>1, <1>4, <2>1
<1>7. CASE LastRow(t)
  <2>1. /\ Go(t, "move") /\ cursor_y' = ROWS - 1
        /\ UNCHANGED <<vid, cursor_x, crtc, iflag, cpu, mode>>
    BY <1>7 DEF LastRow, machine
  <2>2. ROWS - 1 \in Byte
    BY ScreenAssumption DEF Byte
  <2> QED  BY <1>1, <1>4, <2>1, <2>2
<1> QED  BY <1>2, <1>3, <1>5, <1>6, <1>7

\* A byte has at least one value.
LEMMA ByteSizePositive == ByteSize \in Int /\ ByteSize > 0
<1>1. ROWS * COLS > 0
  BY ScreenAssumption
<1>2. ByteSize # 0
  BY <1>1, ConsoleAssumption, ScreenAssumption
<1> QED  BY <1>2, ConsoleAssumption

\* What division leaves.
LEMMA Division ==
  ASSUME NEW b \in Int, b > 0, NEW n \in Nat
  PROVE  /\ n = b * (n \div b) + (n % b)
         /\ (n \div b) \in Nat /\ (n % b) \in 0 .. b - 1
OBVIOUS

\* MoveCursor sends bytes.
LEMMA BytesTyped ==
  ASSUME NEW loc \in Nat
  PROVE  HighByte(loc) \in 0 .. ByteSize - 1 /\ LowByte(loc) \in 0 .. ByteSize - 1
<1>1. (loc \div ByteSize) \in Nat /\ LowByte(loc) \in 0 .. ByteSize - 1
  BY ByteSizePositive, Division DEF LowByte
<1>2. HighByte(loc) \in 0 .. ByteSize - 1
  BY <1>1, ByteSizePositive, Division DEF HighByte
<1> QED  BY <1>1, <1>2

\* The location that MoveCursor computes.
LEMMA LocationTyped ==
  ASSUME typeInv
  PROVE  cursor_y * COLS + cursor_x \in Nat
<1>1. cursor_x \in 0 .. 255 /\ cursor_y \in 0 .. 255
  BY DEF typeInv, conTypeOK
<1>2. cursor_x \in Int /\ cursor_x >= 0 /\ cursor_y \in Int /\ cursor_y >= 0
  BY <1>1
<1>3. COLS \in Int /\ COLS >= 0
  BY ScreenAssumption
<1>4. cursor_y * COLS \in Int /\ cursor_y * COLS >= 0
  BY <1>2, <1>3
<1> QED  BY <1>2, <1>4

\* MoveCursor, and the string that does not fit.
LEMMA TypesInMove ==
  ASSUME typeInv, NEW t \in Threads,
         \/ Overrun(t) \/ Location(t)
         \/ Select(t, "high index", HIGH, "high data") \/ HighData(t)
         \/ Select(t, "low index", LOW, "low data") \/ LowData(t)
  PROVE  conTypeOK' /\ framesInv'
<1> DEFINE f == frame[t]
           g == frame'[t]
<1>1. /\ DOMAIN f = DOMAIN Returned /\ DOMAIN frame = Threads
      /\ FrameOK(f) /\ f.then \in {"item", "margin"}
      /\ DOMAIN vid = Cells /\ cursor_x \in Byte /\ cursor_y \in Byte
      /\ crtc \in Registers /\ cpu \in Threads
  BY Before
<1>2. f.loc \in Nat
  BY <1>1 DEF FrameOK
<1>3. CASE Overrun(t)
  <2>1. UNCHANGED <<vid, cursor_x, cursor_y, crtc, iflag, cpu, frame>> /\ mode' = "undefined"
    BY <1>3 DEF Overrun, cursor, machine
  <2> QED  BY <1>1, <2>1, TypedStep
<1>4. CASE Location(t)
  <2>1. /\ g.x = f.x /\ g.y = f.y /\ g.todo = f.todo /\ g.pc = "high index"
        /\ g.loc = cursor_y * COLS + cursor_x
        /\ \A u \in Threads \ {t} : frame'[u] = frame[u]
    BY <1>1, <1>4 DEF Location, Returned
  <2>2. cursor_y * COLS + cursor_x \in Nat
    BY LocationTyped
  <2>3. FrameOK(g)
    <3> HIDE DEF f, g
    <3> QED  BY <1>1, <2>1, <2>2 DEF FrameOK, Phases
  <2>4. UNCHANGED <<vid, cursor_x, cursor_y, crtc, iflag, cpu, mode>>
    BY <1>4 DEF Location, cursor, machine
  <2> QED  BY <1>1, <2>1, <2>3, <2>4, TypedStep
<1>5. ASSUME NEW pc \in {"high data", "low index", "low data"}, Go(t, pc),
             UNCHANGED <<vid, cursor_x, cursor_y, iflag, cpu, mode>>, crtc' \in Registers
      PROVE  conTypeOK' /\ framesInv'
  <2>1. /\ g.x = f.x /\ g.y = f.y /\ g.loc = f.loc /\ g.todo = f.todo /\ g.pc = pc
        /\ \A u \in Threads \ {t} : frame'[u] = frame[u]
    BY <1>1, <1>5 DEF Go, Returned
  <2>2. FrameOK(g)
    BY <1>1, <1>5, <2>1 DEF FrameOK, Phases
  <2> QED  BY <1>1, <1>5, <2>1, <2>2, TypedStep
<1>6. ASSUME NEW pc, NEW index \in {HIGH, LOW}, NEW then \in {"high data", "low data"},
             Select(t, pc, index, then)
      PROVE  conTypeOK' /\ framesInv'
  <2>1. crtc' \in Registers
    BY <1>1, <1>6 DEF Select, Registers
  <2>2. Go(t, then) /\ UNCHANGED <<vid, cursor_x, cursor_y, iflag, cpu, mode>>
    BY <1>6 DEF Select, cursor, machine
  <2> QED  BY <1>5, <1>6, <2>1, <2>2
<1>7. ASSUME NEW byte \in 0 .. ByteSize - 1, crtc' = [crtc EXCEPT !.reg[crtc.index] = byte]
      PROVE  crtc' \in Registers
  <2>1. /\ crtc.index \in {HIGH, LOW} /\ crtc.reg \in [{HIGH, LOW} -> 0 .. ByteSize - 1]
    BY <1>1 DEF Registers
  <2>2. [crtc.reg EXCEPT ![crtc.index] = byte] \in [{HIGH, LOW} -> 0 .. ByteSize - 1]
    BY <1>7, <2>1
  <2> QED  BY <1>1, <1>7, <2>2 DEF Registers
<1>8. CASE HighData(t)
  <2>1. crtc' \in Registers
    BY <1>2, <1>7, <1>8, BytesTyped DEF HighData
  <2>2. Go(t, "low index") /\ UNCHANGED <<vid, cursor_x, cursor_y, iflag, cpu, mode>>
    BY <1>8 DEF HighData, cursor, machine
  <2> QED  BY <1>5, <2>1, <2>2
<1>9. CASE LowData(t)
  <2>1. crtc' \in Registers
    BY <1>2, <1>7, <1>9, BytesTyped DEF LowData
  <2>2. g = Returned /\ \A u \in Threads \ {t} : frame'[u] = frame[u]
    BY <1>1, <1>9 DEF LowData
  <2>3. FrameOK(Returned)
    BY ReturnedTyped
  <2>4. UNCHANGED <<vid, cursor_x, cursor_y, iflag, mode>> /\ cpu' \in Threads
    BY <1>9 DEF LowData, cursor, Threads
  <2> QED  BY <1>1, <2>1, <2>2, <2>3, <2>4, TypedStep
<1>10. HIGH \in {HIGH, LOW} /\ LOW \in {HIGH, LOW}
  OBVIOUS
<1> QED  BY <1>3, <1>4, <1>6, <1>8, <1>9, <1>10

\* The messages of the constants and of the jobs.
LEMMA MessagesTyped ==
  /\ Todo(Rebooting)
  /\ \A m \in Messages : Todo(m)
  /\ \A c : Todo(<<Char(c)>>) /\ Todo(<<Char(c)>> \o Lines(1))
  /\ \A name \in Names : Todo(<<Str(name)>>) /\ \A c : Todo(<<Str(name), Char(c)>>)
  /\ \A v \in Int : Todo(<<Num("d", v)>>)
<1>1. ASSUME NEW m \in Messages \cup {Rebooting}  PROVE Todo(m)
  BY MessageAssumption DEF Todo
<1>2. ASSUME NEW c  PROVE WellTyped(Char(c))
  BY DEF WellTyped, Char
<1>3. ASSUME NEW name \in Names  PROVE WellTyped(Str(name))
  BY MessageAssumption DEF WellTyped, Str
<1>4. ASSUME NEW v \in Int  PROVE WellTyped(Num("d", v))
  BY DEF WellTyped, Num
<1>5. ASSUME NEW a, WellTyped(a)  PROVE Todo(<<a>>)
  <2> DEFINE S == {a}
  <2>1. <<a>> \in Seq(S) /\ \A item \in S : WellTyped(item)
    BY <1>5
  <2> HIDE DEF S
  <2> QED  BY <2>1, TodoOf
<1>6. ASSUME NEW a, NEW b, WellTyped(a), WellTyped(b)  PROVE Todo(<<a, b>>)
  <2> DEFINE S == {a, b}
  <2>1. <<a, b>> \in Seq(S) /\ \A item \in S : WellTyped(item)
    BY <1>6
  <2> HIDE DEF S
  <2> QED  BY <2>1, TodoOf
<1>7. ASSUME NEW a, WellTyped(a)  PROVE Todo(<<a>> \o Lines(1))
  <2> DEFINE nl == [kind |-> "nl"]
  <2>1. Lines(1) = [j \in 1 .. 1 |-> nl]
    BY DEF Lines
  <2>2. WellTyped(nl)
    BY DEF WellTyped
  <2> HIDE DEF nl
  <2> DEFINE S == {a, nl}
  <2>3. nl \in S /\ a \in S /\ \A item \in S : WellTyped(item)
    BY <1>7, <2>2
  <2> HIDE DEF S
  <2>4. Lines(1) \in Seq(S)
    <3>1. [j \in 1 .. 1 |-> nl] = <<nl>>
      OBVIOUS
    <3> QED  BY <2>1, <2>3, <3>1
  <2>5. <<a>> \o Lines(1) \in Seq(S)
    BY <2>3, <2>4
  <2> QED  BY <2>3, <2>5, TodoOf
<1> QED  BY <1>1, <1>2, <1>3, <1>4, <1>5, <1>6, <1>7

\* The jobs of main print messages.
LEMMA JobsTyped ==
  /\ Job(<<>>) /\ Job(halt)
  /\ \A m \in Messages : Job(<<Say(m)>>)
  /\ \A name \in Names : Job(kpanic(name))
  /\ \A desc, file \in Names, line \in {7, 36} : Job(panic_assert(desc, file, line))
<1> DEFINE Fine(part) == part.op = "print" => Todo(part.text)
<1>1. ASSUME NEW m, Todo(m)  PROVE Fine(Say(m))
  BY <1>1 DEF Say
<1>2. ASSUME NEW op, op # "print"  PROVE Fine(Do(op))
  BY <1>2 DEF Do
<1>3. ASSUME NEW s, NEW S, s \in Seq(S), \A part \in S : Fine(part)  PROVE Job(s)
  BY <1>3, Zenon DEF Job
<1> HIDE DEF Fine
<1>4. Job(<<>>)
  <2> DEFINE S == {}
  <2>1. <<>> \in Seq(S) /\ \A part \in S : Fine(part)
    OBVIOUS
  <2> HIDE DEF S
  <2> QED  BY <1>3, <2>1
<1>5. ASSUME NEW m \in Messages  PROVE Job(<<Say(m)>>)
  <2>1. Fine(Say(m))
    BY <1>1, MessagesTyped
  <2> DEFINE S == {Say(m)}
  <2>2. <<Say(m)>> \in Seq(S) /\ \A part \in S : Fine(part)
    BY <2>1
  <2> HIDE DEF S
  <2> QED  BY <1>3, <2>2
<1>6. Job(halt)
  <2> DEFINE S == {Say(<<Char("s")>>), Do("cli"), Say(<<Char("k")>> \o Lines(1)),
                   Say(<<Char("h")>> \o Lines(1)), Do("hlt")}
  <2>1. halt \in Seq(S)
    BY DEF halt
  <2>2. \A part \in S : Fine(part)
    BY <1>1, <1>2, MessagesTyped
  <2> QED  BY <1>3, <2>1, <2>2
<1>7. ASSUME NEW name \in Names  PROVE Job(kpanic(name))
  <2> DEFINE S == {Say(<<Char("A")>> \o Lines(1)), Say(<<Char("t")>> \o Lines(1)),
                   Say(<<Str(name), Char("E")>>), Do("cli"), Do("hlt")}
  <2>1. kpanic(name) \in Seq(S)
    BY DEF kpanic
  <2>2. \A part \in S : Fine(part)
    BY <1>1, <1>2, MessagesTyped
  <2> QED  BY <1>3, <2>1, <2>2
<1>8. ASSUME NEW desc \in Names, NEW file \in Names, NEW line \in {7, 36}
      PROVE  Job(panic_assert(desc, file, line))
  <2> DEFINE S == {Say(<<Char("(")>>), Say(<<Str(desc)>>), Say(<<Char(")")>>),
                   Say(<<Str(file)>>), Say(<<Char(":")>>), Say(<<Num("d", line)>>),
                   Say(<<Char("O")>> \o Lines(1)), Do("spin")}
  <2>1. panic_assert(desc, file, line) \in Seq(S)
    BY DEF panic_assert
  <2>2. line \in Int
    OBVIOUS
  <2>3. \A part \in S : Fine(part)
    BY <1>1, <1>2, <2>2, MessagesTyped
  <2> QED  BY <1>3, <2>1, <2>3
<1> QED  BY <1>4, <1>5, <1>6, <1>7, <1>8

\* A call of kprintf starts with a message.
LEMMA CallTyped ==
  ASSUME typeInv, NEW t \in Threads, NEW m, Todo(m), Call(t, m)
  PROVE  FrameOK(frame'[t]) /\ \A u \in Threads \ {t} : frame'[u] = frame[u]
<1> DEFINE f == [Returned EXCEPT !.pc = "item", !.todo = m]
<1>1. DOMAIN frame = Threads
  BY DEF typeInv, conInv
<1>2. /\ f.todo = m /\ f.pc = "item" /\ f.x = 0 /\ f.y = 0 /\ f.loc = 0
  BY DEF Returned
<1>3. frame' = [frame EXCEPT ![t] = f]
  BY DEF Call
<1> HIDE DEF f
<1>4. FrameOK(f)
  BY <1>2 DEF FrameOK, Phases
<1> QED  BY <1>1, <1>3, <1>4

\* The rest of a job is a job.
LEMMA JobTail ==
  ASSUME NEW s, Job(s), s # <<>>
  PROVE  Job(Tail(s)) /\ (Head(s).op = "print" => Todo(Head(s).text))
<1>1. PICK S : s \in Seq(S) /\ \A part \in S : part.op = "print" => Todo(part.text)
  BY DEF Job
<1>2. Tail(s) \in Seq(S) /\ Head(s) \in S
  BY <1>1
<1> QED  BY <1>1, <1>2 DEF Job

\* Calls, interrupts and the jobs of main.
LEMMA TypesInCalls ==
  ASSUME typeInv, Interrupt \/ Continue \/ Output \/ Exception \/ AssertionFails \/ Halt \/ Sti
  PROVE  conTypeOK' /\ framesInv' /\ Job(script')
<1>1. /\ DOMAIN vid = Cells /\ cursor_x \in Byte /\ cursor_y \in Byte /\ crtc \in Registers
      /\ cpu \in Threads /\ \A u \in Threads : FrameOK(frame[u])
      /\ "main" \in Threads /\ "handler" \in Threads
  BY Before DEF typeInv, framesInv, conTypeOK, Byte, Registers, Threads
<1>2. ASSUME UNCHANGED <<vid, cursor_x, cursor_y, crtc, cpu, frame>>,
             iflag' = iflag \/ iflag' \in BOOLEAN,
             mode' = mode \/ mode' \in {"halted", "spinning", "undefined"}
      PROVE  conTypeOK' /\ framesInv'
  BY <1>1, <1>2, TypedStep
<1>3. ASSUME NEW s, Begin(s), Job(s), iflag' = iflag \/ iflag' = FALSE
      PROVE  conTypeOK' /\ framesInv' /\ Job(script')
  <2>1. UNCHANGED <<vid, cursor_x, cursor_y, crtc, cpu, frame, mode>> /\ script' = s
    BY <1>3 DEF Begin, cursor
  <2>2. iflag' = iflag \/ iflag' \in BOOLEAN
    BY <1>3
  <2> QED  BY <1>2, <1>3, <2>1, <2>2
<1>4. CASE Interrupt
  <2>1. /\ Call("handler", Rebooting) /\ cpu' = "handler"
        /\ UNCHANGED <<vid, cursor_x, cursor_y, crtc, iflag, script, mode>>
    BY <1>4 DEF Interrupt, cursor
  <2>2. FrameOK(frame'["handler"])
        /\ \A u \in Threads \ {"handler"} : frame'[u] = frame[u]
    BY <1>1, <2>1, CallTyped, MessagesTyped
  <2>3. conTypeOK' /\ framesInv'
    BY <1>1, <2>1, <2>2, TypedStep
  <2> QED  BY <2>1, <2>3 DEF typeInv
<1>5. CASE Continue
  <2>1. /\ script # <<>> /\ script' = Tail(script)
        /\ UNCHANGED <<vid, cursor_x, cursor_y, crtc, cpu>>
    BY <1>5 DEF Continue, cursor
  <2>2. Job(script') /\ (Head(script).op = "print" => Todo(Head(script).text))
    BY <2>1, JobTail DEF typeInv
  <2>3. CASE Head(script).op = "print"
    <3>1. Call("main", Head(script).text) /\ UNCHANGED <<iflag, mode>>
      BY <1>5, <2>3 DEF Continue
    <3>2. FrameOK(frame'["main"]) /\ \A u \in Threads \ {"main"} : frame'[u] = frame[u]
      BY <1>1, <2>2, <2>3, <3>1, CallTyped
    <3> QED  BY <1>1, <2>1, <2>2, <3>1, <3>2, TypedStep
  <2>4. CASE Head(script).op # "print"
    <3>1. /\ frame' = frame
          /\ iflag' = iflag \/ iflag' = FALSE
          /\ mode' = mode \/ mode' \in {"halted", "spinning"}
      BY <1>5, <2>4 DEF Continue
    <3>2. /\ iflag' = iflag \/ iflag' \in BOOLEAN
          /\ mode' = mode \/ mode' \in {"halted", "spinning", "undefined"}
      BY <3>1
    <3> QED  BY <1>2, <2>1, <2>2, <3>1, <3>2
  <2> QED  BY <2>3, <2>4
<1>6. CASE Output \/ Exception \/ AssertionFails \/ Halt
  <2>1. CASE Output
    BY <1>3, <2>1, JobsTyped DEF Output
  <2>2. CASE Exception
    BY <1>3, <2>2, JobsTyped DEF Exception
  <2>3. CASE AssertionFails
    BY <1>3, <2>3, JobsTyped DEF AssertionFails
  <2>4. CASE Halt
    BY <1>3, <2>4, JobsTyped DEF Halt
  <2> QED  BY <1>6, <2>1, <2>2, <2>3, <2>4
<1>7. CASE Sti
  <2>1. UNCHANGED <<vid, cursor_x, cursor_y, crtc, cpu, frame, mode, script>> /\ iflag' = TRUE
    BY <1>7 DEF Sti, cursor
  <2>2. iflag' \in BOOLEAN
    BY <2>1
  <2> QED  BY <1>2, <2>1, <2>2 DEF typeInv
<1> QED  BY <1>4, <1>5, <1>6, <1>7

\* A cleared screen.
LEMMA TypeInit == conInit => typeInv
<1> SUFFICES ASSUME conInit  PROVE typeInv
  OBVIOUS
<1>1. /\ frame = [t \in Threads |-> Returned] /\ script = <<>>
  BY DEF conInit
<1>2. framesInv
  <2>1. \A t \in Threads : frame[t] = Returned
    BY <1>1
  <2> QED  BY <2>1, ReturnedTyped DEF framesInv
<1>3. conTypeOK
  <2>1. \A t \in Threads : frame[t].pc \in Phases
    BY <1>2 DEF framesInv, FrameOK
  <2>2. crtc \in [index : {HIGH, LOW}, reg : [{HIGH, LOW} -> 0 .. ByteSize - 1]]
    <3>1. 0 \in 0 .. ByteSize - 1
      BY ByteSizePositive
    <3> QED  BY <3>1 DEF conInit
  <2>3. iflag \in BOOLEAN /\ cpu \in Threads /\ DOMAIN vid = Cells
    BY DEF conInit, Threads
  <2> QED  BY <2>1, <2>2, <2>3 DEF conTypeOK, conInit
<1> QED  BY <1>1, <1>2, <1>3, ConInit, JobsTyped DEF typeInv

\* One step of either thread keeps the types.
LEMMA TypeStep == typeInv /\ [conNext]_conVars => typeInv'
<1> SUFFICES ASSUME typeInv, [conNext]_conVars  PROVE typeInv'
  OBVIOUS
<1>1. conInv'
  BY ConStep DEF typeInv
<1>2. ASSUME NEW t \in Threads, kprintf(t)  PROVE typeInv'
  <2>1. conTypeOK' /\ framesInv'
    BY <1>2, TypesInItem, TypesInLine, TypesInMove DEF kprintf
  <2>2. script' = script
    BY <1>2 DEF kprintf, Overrun, Load, Put, Advance, TabStore, MoveRight, Newline,
                LineStore, Margin, ScrollTest, Shift, LastRow, Location, Select,
                HighData, LowData, machine
  <2> QED  BY <1>1, <2>1, <2>2 DEF typeInv
<1>3. CASE UNCHANGED conVars
  <2>1. UNCHANGED <<vid, cursor_x, cursor_y, crtc, iflag, cpu, frame, script, mode>>
    BY <1>3 DEF conVars, cursor
  <2>2. conTypeOK'
    BY <2>1 DEF typeInv, conTypeOK, Cells
  <2>3. framesInv'
    BY <2>1 DEF typeInv, framesInv
  <2> QED  BY <1>1, <2>1, <2>2, <2>3 DEF typeInv
<1> QED  BY <1>1, <1>2, <1>3, TypesInCalls DEF conNext, typeInv

\* The cursor and the registers of the CRT controller hold bytes, whatever is
\* printed and whenever Ctrl+Alt+Del comes.
THEOREM ConsoleTypes == conSpec => []conTypeOK
<1>1. typeInv => conTypeOK
  BY DEF typeInv
<1> QED  BY <1>1, TypeInit, TypeStep, PTL DEF conSpec

-----------------------------------------------------------------------------
(* HardwareCursorFollows.                                                  *)

Follows == crtc.reg[HIGH] * ByteSize + crtc.reg[LOW] = cursor_y * COLS + cursor_x

\* What MoveCursor has sent: it has the cursor as it is, the index it wrote is
\* still selected and the high byte still there.
Sent(f) ==
  /\ f.loc = cursor_y * COLS + cursor_x
  /\ f.pc = "high data" => crtc.index = HIGH
  /\ f.pc \in {"low index", "low data"} => crtc.reg[HIGH] = HighByte(f.loc)
  /\ f.pc = "low data" => crtc.index = LOW

moveInv ==
  ~torn => /\ AllIdle => Follows
           /\ InMoveCursor(cpu) => Sent(frame[cpu])
           /\ cpu = "handler" => ~InMoveCursor("main")

\* The two bytes of a location on the page are the location.
LEMMA BytesMakeLocation ==
  ASSUME NEW loc \in Nat, loc < ByteSize * ByteSize
  PROVE  HighByte(loc) * ByteSize + LowByte(loc) = loc
<1> DEFINE q == loc \div ByteSize
           r == loc % ByteSize
<1>1. /\ loc = ByteSize * q + r /\ q \in Nat /\ r \in 0 .. ByteSize - 1
  BY ByteSizePositive, Division
<1>2. HighByte(loc) = q % ByteSize /\ LowByte(loc) = r
  BY DEF HighByte, LowByte
<1> HIDE DEF q, r
<1>3. q < ByteSize
  <2> SUFFICES ASSUME q >= ByteSize  PROVE FALSE
    BY <1>1, ByteSizePositive
  <2>1. ByteSize * q >= ByteSize * ByteSize
    BY <1>1, ByteSizePositive
  <2> QED  BY <1>1, <2>1, ByteSizePositive
<1>4. q % ByteSize = q
  BY <1>1, <1>3, ByteSizePositive
<1>5. ByteSize \in Int /\ q \in Int /\ r \in Int
  BY <1>1, ByteSizePositive
<1>6. q * ByteSize = ByteSize * q
  BY <1>5
<1>7. HighByte(loc) = q
  BY <1>2, <1>4
<1> QED  BY <1>1, <1>2, <1>6, <1>7

\* The cursor of a console at rest is on the page, so that its location fits
\* in two bytes.
LEMMA LocationFits ==
  ASSUME typeInv, AllIdle
  PROVE  cursor_y * COLS + cursor_x < ByteSize * ByteSize
<1>1. ~(cursor_x >= COLS) /\ ~(cursor_y >= ROWS)
  <2>1. \A t \in Threads : ~OwesColumn(t) /\ frame[t].pc \notin BeforeScroll
    BY DEF AllIdle, Idle, OwesColumn, Owes, BeforeScroll
  <2> QED  BY <2>1 DEF typeInv, conInv
<1>2. cursor_x \in 0 .. 255 /\ cursor_y \in 0 .. 255
  BY DEF typeInv, conTypeOK
<1>3. COLS \in Int /\ ROWS \in Int /\ COLS > 0
  BY ScreenAssumption
<1>4. cursor_x \in Int /\ cursor_y \in Int /\ cursor_x < COLS /\ cursor_y <= ROWS - 1
  BY <1>1, <1>2, <1>3
<1>5. cursor_y * COLS <= (ROWS - 1) * COLS
  BY <1>3, <1>4
<1>6. (ROWS - 1) * COLS + COLS = ROWS * COLS
  BY <1>3
<1>7. ByteSize \in Int /\ ROWS * COLS <= ByteSize * ByteSize
  BY ConsoleAssumption
<1> QED  BY <1>3, <1>4, <1>5, <1>6, <1>7

\* A step of thread t that ends neither idle nor in MoveCursor.
LEMMA OutsideMove ==
  ASSUME typeInv, moveInv, NEW t \in Threads, cpu = t, cpu' = cpu, torn' = torn,
         \A u \in Threads \ {t} : frame'[u] = frame[u],
         frame'[t].pc \in BeforeScroll \cup {"move"}
  PROVE  moveInv'
<1>1. ~AllIdle' /\ ~InMoveCursor(cpu)'
  BY DEF AllIdle, Idle, InMoveCursor, BeforeScroll
<1>2. cpu = "handler" /\ ~InMoveCursor("main") => ~InMoveCursor("main")'
  BY DEF InMoveCursor, Threads
<1> QED  BY <1>1, <1>2 DEF moveInv

\* The steps of kprintf before MoveCursor.
LEMMA MoveBefore ==
  ASSUME typeInv, moveInv, NEW t \in Threads,
         \/ Load(t) \/ Put(t) \/ Advance(t) \/ TabStore(t) \/ Newline(t)
         \/ LineStore(t) \/ Margin(t) \/ ScrollTest(t) \/ Shift(t) \/ LastRow(t)
  PROVE  moveInv'
<1> DEFINE f == frame[t]
           g == frame'[t]
<1>1. /\ DOMAIN f = DOMAIN Returned /\ DOMAIN frame = Threads
      /\ f.then \in {"item", "margin"}
  BY Before
<1>2. /\ cpu = t /\ cpu' = cpu /\ torn' = torn
  BY DEF Load, Put, Advance, TabStore, Newline, LineStore, Margin, ScrollTest, Shift,
         LastRow, MoveRight, At, machine, history
<1>3. \A u \in Threads \ {t} : frame'[u] = frame[u]
  BY <1>1 DEF Load, Put, Advance, TabStore, Newline, LineStore, Margin, ScrollTest, Shift,
         LastRow, MoveRight, LineStarts, Go
<1>4. g.pc \in BeforeScroll \cup {"move"}
  <2>1. CASE Load(t)
    BY <1>1, <2>1 DEF Load, Returned, BeforeScroll
  <2>2. CASE Put(t)
    BY <1>1, <2>2 DEF Put, Returned, BeforeScroll
  <2>3. CASE Advance(t) \/ TabStore(t)
    <3>1. \E x : MoveRight(t, x)
      BY <2>3 DEF Advance, TabStore
    <3>2. PICK x : MoveRight(t, x)
      BY <3>1
    <3>3. g.pc = "margin"
      BY <1>1, <3>2 DEF MoveRight, Returned
    <3> QED  BY <3>3 DEF BeforeScroll
  <2>4. CASE Newline(t)
    BY <1>1, <2>4 DEF Newline, LineStarts, Returned, BeforeScroll
  <2>5. CASE LineStore(t)
    <3>1. PICK o \in f.owed :
            LET left == f.owed \ {o}
            IN frame' = [frame EXCEPT ![t].owed = left,
                           ![t].pc = IF left = {} THEN f.then ELSE "line"]
      BY <2>5 DEF LineStore
    <3>2. g.pc \in {f.then, "line"}
      BY <1>1, <3>1 DEF Returned
    <3> QED  BY <1>1, <3>2 DEF BeforeScroll
  <2>6. CASE Margin(t)
    <3>1. PICK p \in Copies(t) :
            frame' = [frame EXCEPT
              ![t].todo = Tail(@),
              ![t].pc = IF PastMargin(p[1]) THEN "line" ELSE "item",
              ![t].owed = IF PastMargin(p[1]) THEN {"x", "y"} ELSE {},
              ![t].then = "item"]
      BY <2>6 DEF Margin
    <3>2. g.pc \in {"line", "item"}
      BY <1>1, <3>1 DEF Returned
    <3> QED  BY <3>2 DEF BeforeScroll
  <2>7. CASE ScrollTest(t) \/ Shift(t) \/ LastRow(t)
    BY <1>1, <2>7 DEF ScrollTest, Shift, LastRow, Go, Returned, BeforeScroll
  <2> QED  BY <2>1, <2>2, <2>3, <2>4, <2>5, <2>6, <2>7
<1> QED  BY <1>2, <1>3, <1>4, OutsideMove

\* A step of MoveCursor before its last.
LEMMA InsideMove ==
  ASSUME typeInv, moveInv, NEW t \in Threads, cpu = t, cpu' = cpu, torn' = torn,
         \A u \in Threads \ {t} : frame'[u] = frame[u], frame'[t].pc # "idle",
         ~torn => Sent(frame[t])'
  PROVE  moveInv'
<1>1. ~AllIdle'
  BY DEF AllIdle, Idle
<1>2. cpu = "handler" /\ ~InMoveCursor("main") => ~InMoveCursor("main")'
  BY DEF InMoveCursor, Threads
<1>3. Sent(frame[cpu])' <=> Sent(frame[t])'
  BY DEF Sent
<1> QED  BY <1>1, <1>2, <1>3 DEF moveInv

\* MoveCursor itself.
LEMMA MoveSteps ==
  ASSUME typeInv, moveInv, NEW t \in Threads,
         \/ Overrun(t) \/ Location(t)
         \/ Select(t, "high index", HIGH, "high data") \/ HighData(t)
         \/ Select(t, "low index", LOW, "low data")
  PROVE  moveInv'
<1> DEFINE f == frame[t]
           g == frame'[t]
<1>1. /\ DOMAIN f = DOMAIN Returned /\ DOMAIN frame = Threads
      /\ crtc \in Registers
  BY Before
<1>2. CASE Overrun(t)
  <2>1. UNCHANGED <<cursor_x, cursor_y, crtc, cpu, frame, torn>>
    BY <1>2 DEF Overrun, cursor, machine, history
  <2> QED  BY <2>1 DEF moveInv, AllIdle, Idle, Follows, InMoveCursor, Sent
<1>3. CASE Location(t)
  <2>1. /\ cpu = t /\ cpu' = cpu /\ torn' = torn /\ UNCHANGED <<cursor_x, cursor_y>>
    BY <1>3 DEF Location, At, machine, history, cursor
  <2>2. /\ g.pc = "high index" /\ g.loc = cursor_y * COLS + cursor_x
        /\ \A u \in Threads \ {t} : frame'[u] = frame[u]
    BY <1>1, <1>3 DEF Location, Returned
  <2>3. Sent(frame[t])'
    BY <2>1, <2>2 DEF Sent
  <2> QED  BY <2>1, <2>2, <2>3, InsideMove
<1>4. ASSUME NEW pc \in {"high index", "low index"}, NEW index, NEW then,
             Select(t, pc, index, then)
      PROVE  /\ cpu = t /\ cpu' = cpu /\ torn' = torn /\ UNCHANGED <<cursor_x, cursor_y>>
             /\ f.pc = pc /\ g.pc = then /\ g.loc = f.loc
             /\ \A u \in Threads \ {t} : frame'[u] = frame[u]
             /\ crtc'.index = index /\ crtc'.reg = crtc.reg
             /\ ~torn => Sent(f)
  <2>1. /\ cpu = t /\ cpu' = cpu /\ torn' = torn /\ UNCHANGED <<cursor_x, cursor_y>>
        /\ f.pc = pc
    BY <1>4 DEF Select, At, machine, history, cursor
  <2>2. /\ g.pc = then /\ g.loc = f.loc
        /\ \A u \in Threads \ {t} : frame'[u] = frame[u]
    BY <1>1, <1>4 DEF Select, Go, Returned
  <2>3. crtc'.index = index /\ crtc'.reg = crtc.reg
    BY <1>1, <1>4 DEF Select, Registers
  <2>4. ~torn => Sent(f)
    BY <1>4, <2>1 DEF moveInv, InMoveCursor
  <2> QED  BY <2>1, <2>2, <2>3, <2>4
<1>5. CASE Select(t, "high index", HIGH, "high data")
  <2>1. /\ cpu = t /\ cpu' = cpu /\ torn' = torn /\ UNCHANGED <<cursor_x, cursor_y>>
        /\ f.pc = "high index" /\ g.pc = "high data" /\ g.loc = f.loc
        /\ \A u \in Threads \ {t} : frame'[u] = frame[u]
        /\ crtc'.index = HIGH /\ crtc'.reg = crtc.reg /\ (~torn => Sent(f))
    BY <1>4, <1>5
  <2>2. ~torn => Sent(frame[t])'
    BY <2>1 DEF Sent
  <2> QED  BY <2>1, <2>2, InsideMove
<1>6. CASE Select(t, "low index", LOW, "low data")
  <2>1. /\ cpu = t /\ cpu' = cpu /\ torn' = torn /\ UNCHANGED <<cursor_x, cursor_y>>
        /\ f.pc = "low index" /\ g.pc = "low data" /\ g.loc = f.loc
        /\ \A u \in Threads \ {t} : frame'[u] = frame[u]
        /\ crtc'.index = LOW /\ crtc'.reg = crtc.reg /\ (~torn => Sent(f))
    BY <1>4, <1>6
  <2>2. ~torn => Sent(frame[t])'
    BY <2>1 DEF Sent, HighByte
  <2> QED  BY <2>1, <2>2, InsideMove
<1>7. CASE HighData(t)
  <2>1. /\ cpu = t /\ cpu' = cpu /\ torn' = torn /\ UNCHANGED <<cursor_x, cursor_y>>
        /\ f.pc = "high data"
    BY <1>7 DEF HighData, At, machine, history, cursor
  <2>2. /\ g.pc = "low index" /\ g.loc = f.loc
        /\ \A u \in Threads \ {t} : frame'[u] = frame[u]
    BY <1>1, <1>7 DEF HighData, Go, Returned
  <2>3. ~torn => Sent(f) /\ crtc.index = HIGH
    BY <2>1 DEF moveInv, InMoveCursor, Sent
  <2>4. crtc.index = HIGH => crtc'.reg[HIGH] = HighByte(f.loc)
    <3>1. crtc' = [crtc EXCEPT !.reg[crtc.index] = HighByte(f.loc)]
      BY <1>7 DEF HighData
    <3>2. HIGH \in {HIGH, LOW}
      OBVIOUS
    <3> QED  BY <1>1, <3>1, <3>2 DEF Registers
  <2>5. ~torn => Sent(frame[t])'
    BY <2>1, <2>2, <2>3, <2>4 DEF Sent, HighByte
  <2> QED  BY <2>1, <2>2, <2>5, InsideMove
<1> QED  BY <1>2, <1>3, <1>5, <1>6, <1>7

\* The last byte completes the location.
LEMMA MoveLast ==
  ASSUME typeInv, typeInv', moveInv, NEW t \in Threads, LowData(t)
  PROVE  moveInv'
<1> DEFINE f == frame[t]
<1>1. /\ DOMAIN frame = Threads /\ crtc \in Registers /\ FrameOK(f)
  BY Before
<1>2. /\ cpu = t /\ f.pc = "low data" /\ cpu' = "main" /\ torn' = torn
      /\ UNCHANGED <<cursor_x, cursor_y>>
      /\ crtc' = [crtc EXCEPT !.reg[crtc.index] = LowByte(f.loc)]
  BY DEF LowData, At, history, cursor
<1>3. /\ frame'[t].pc = "idle" /\ \A u \in Threads \ {t} : frame'[u] = frame[u]
  BY <1>1 DEF LowData, Returned
<1>4. ~torn => Sent(f) /\ crtc.index = LOW /\ crtc.reg[HIGH] = HighByte(f.loc)
  BY <1>2 DEF moveInv, InMoveCursor, Sent
<1>5. ASSUME ~torn  PROVE crtc'.reg[HIGH] = HighByte(f.loc) /\ crtc'.reg[LOW] = LowByte(f.loc)
  <2>1. HIGH # LOW
    BY DEF HIGH, LOW
  <2> QED  BY <1>1, <1>2, <1>4, <1>5, <2>1 DEF Registers
<1>6. ASSUME ~torn, AllIdle'  PROVE Follows'
  <2>1. f.loc = cursor_y' * COLS + cursor_x' /\ f.loc \in Nat
    BY <1>1, <1>2, <1>4, <1>6 DEF Sent, FrameOK
  <2>2. (cursor_y * COLS + cursor_x < ByteSize * ByteSize)'
    BY <1>6, LocationFits, PTL
  <2>3. HighByte(f.loc) * ByteSize + LowByte(f.loc) = f.loc
    BY <2>1, <2>2, BytesMakeLocation
  <2> QED  BY <1>5, <1>6, <2>1, <2>3 DEF Follows
<1>7. ~torn => ~InMoveCursor("main")'
  BY <1>2, <1>3 DEF moveInv, InMoveCursor, Threads
<1> QED  BY <1>2, <1>6, <1>7 DEF moveInv

\* Calls and interrupts.
LEMMA MoveCalls ==
  ASSUME typeInv, moveInv,
         Interrupt \/ Continue \/ Output \/ Exception \/ AssertionFails \/ Halt \/ Sti
  PROVE  moveInv'
<1>1. ASSUME UNCHANGED <<frame, cursor_x, cursor_y, crtc, cpu, torn>>  PROVE moveInv'
  BY <1>1 DEF moveInv, AllIdle, Idle, Follows, InMoveCursor, Sent
<1>2. ASSUME NEW s, Begin(s)  PROVE moveInv'
  BY <1>1, <1>2 DEF Begin, cursor, history
<1>3. ASSUME NEW t \in Threads, NEW m, Call(t, m), cpu' = t, t = "main" => AllIdle
      PROVE  moveInv'
  <2>1. /\ frame'[t].pc = "item" /\ \A u \in Threads \ {t} : frame'[u] = frame[u]
    BY <1>3 DEF Call, typeInv, conInv, Returned
  <2>2. ~AllIdle' /\ ~InMoveCursor(cpu)'
    BY <1>3, <2>1 DEF AllIdle, Idle, InMoveCursor
  <2>3. ~torn' => ~InMoveCursor("main")
    BY <1>3 DEF Call, AllIdle, Idle, InMoveCursor, Threads
  <2>4. cpu' = "handler" /\ ~InMoveCursor("main") => ~InMoveCursor("main")'
    BY <1>3, <2>1 DEF InMoveCursor, Threads
  <2> QED  BY <2>2, <2>3, <2>4 DEF moveInv
<1>4. CASE Interrupt
  <2>1. Call("handler", Rebooting) /\ cpu' = "handler" /\ "handler" \in Threads
    BY <1>4 DEF Interrupt, Threads
  <2> QED  BY <1>3, <2>1
<1>5. CASE Continue
  <2>1. /\ cpu = "main" /\ cpu' = cpu /\ Idle("main") /\ "main" \in Threads
        /\ UNCHANGED <<cursor_x, cursor_y, crtc>>
    BY <1>5 DEF Continue, MainFree, Threads, cursor
  <2>2. AllIdle
    BY <2>1 DEF typeInv, conInv, AllIdle, Threads
  <2>3. UNCHANGED <<frame, torn>> \/ \E m : Call("main", m)
    BY <1>5 DEF Continue, history
  <2> QED  BY <1>1, <1>3, <2>1, <2>2, <2>3
<1>6. CASE Output \/ Exception \/ AssertionFails \/ Halt
  BY <1>2, <1>6 DEF Output, Exception, AssertionFails, Halt
<1>7. CASE Sti
  BY <1>1, <1>7 DEF Sti, cursor, history
<1> QED  BY <1>4, <1>5, <1>6, <1>7

\* ClearScreen leaves both cursors at the top left.
LEMMA MoveInit == conInit => moveInv
<1> SUFFICES ASSUME conInit  PROVE moveInv
  OBVIOUS
<1>1. /\ cursor_x = 0 /\ cursor_y = 0 /\ crtc.reg[HIGH] = 0 /\ crtc.reg[LOW] = 0
      /\ \A t \in Threads : frame[t].pc = "idle"
      /\ cpu = "main" /\ cpu \in Threads
  BY DEF conInit, Returned, Threads
<1>2. Follows
  BY <1>1, ByteSizePositive, ScreenAssumption DEF Follows
<1> QED  BY <1>1, <1>2 DEF moveInv, InMoveCursor

\* One step of either thread.
LEMMA MoveStep == typeInv /\ moveInv /\ [conNext]_conVars => moveInv'
<1> SUFFICES ASSUME typeInv, moveInv, [conNext]_conVars  PROVE moveInv'
  OBVIOUS
<1>1. typeInv'
  BY TypeStep
<1>2. ASSUME NEW t \in Threads, kprintf(t)  PROVE moveInv'
  BY <1>1, <1>2, MoveBefore, MoveSteps, MoveLast DEF kprintf
<1>3. CASE UNCHANGED conVars
  BY <1>3 DEF conVars, cursor, history, moveInv, AllIdle, Idle, Follows, InMoveCursor, Sent
<1> QED  BY <1>2, <1>3, MoveCalls DEF conNext

\* The blinking cursor is where text appears next, unless main was interrupted
\* inside MoveCursor, for every page, all messages and any number of interrupts.
THEOREM CursorFollows == conSpec => []HardwareCursorFollows
<1>1. moveInv => HardwareCursorFollows
  BY DEF moveInv, HardwareCursorFollows, Follows
<1> QED  BY <1>1, TypeInit, TypeStep, MoveInit, MoveStep, PTL DEF conSpec

-----------------------------------------------------------------------------
(* ShowsText.                                                              *)

\* A text has its table of pages.
LEMMA StruckDefined ==
  ASSUME NEW p, NEW text, Len(text) \in Nat
  PROVE  Struck(p, text) =
           [k \in 0 .. Len(text) |->
              IF k = 0 THEN p ELSE Strike(Struck(p, text)[k - 1], text[k])]
<1> DEFINE Table(n, f) == f = [k \in 0 .. n |-> IF k = 0 THEN p ELSE Strike(f[k - 1], text[k])]
           S == {n \in Nat : \E f : Table(n, f)}
<1>1. ASSUME NEW n \in Nat, \A u \in Nat : u < n => u \in S  PROVE n \in S
  <2>1. CASE n = 0
    <3> DEFINE f == [k \in 0 .. 0 |-> p]
    <3>1. f = [k \in 0 .. 0 |-> IF k = 0 THEN p ELSE Strike(f[k - 1], text[k])]
      OBVIOUS
    <3> HIDE DEF f
    <3> QED  BY <2>1, <3>1
  <2>2. CASE n # 0
    <3>1. n - 1 \in Nat /\ n - 1 < n
      BY <2>2
    <3>2. PICK g : Table(n - 1, g)
      BY <1>1, <3>1
    <3> DEFINE f == [k \in 0 .. n |-> IF k = n THEN Strike(g[n - 1], text[n]) ELSE g[k]]
    <3>3. ASSUME NEW k \in 0 .. n
          PROVE  f[k] = IF k = 0 THEN p ELSE Strike(f[k - 1], text[k])
      <4>1. k # 0 => k - 1 \in 0 .. n - 1 /\ k - 1 # n /\ k - 1 \in 0 .. n
        OBVIOUS
      <4>2. k # 0 => f[k - 1] = g[k - 1]
        BY <4>1
      <4>3. CASE k = n
        <5>1. f[k] = Strike(g[k - 1], text[k]) /\ k # 0
          BY <2>2, <4>3
        <5> HIDE DEF f
        <5> QED  BY <4>2, <5>1
      <4>4. CASE k # n
        <5>1. f[k] = g[k] /\ k \in 0 .. n - 1
          BY <4>4
        <5> HIDE DEF f
        <5>2. g[k] = IF k = 0 THEN p ELSE Strike(g[k - 1], text[k])
          BY <3>2, <5>1
        <5> QED  BY <4>2, <5>1, <5>2
      <4> QED  BY <4>3, <4>4
    <3>4. f = [k \in 0 .. n |-> f[k]]
      OBVIOUS
    <3> HIDE DEF f
    <3>5. Table(n, f)
      BY <3>3, <3>4
    <3> QED  BY <3>5
  <2> QED  BY <2>1, <2>2
<1>2. \E f : Table(Len(text), f)
  <2>1. Nat \subseteq S
    <3> HIDE DEF S
    <3> QED  BY <1>1, Complete
  <2> QED  BY <2>1
<1>3. Struck(p, text) = CHOOSE f : Table(Len(text), f)
  BY DEF Struck
<1> QED  BY <1>2, <1>3

\* A message has its table of pages.
LEMMA PrintedDefined ==
  ASSUME NEW p, NEW m, Len(m) \in Nat
  PROVE  Printed(p, m) =
           [k \in 0 .. Len(m) |->
              IF k = 0 THEN p ELSE Typed(Printed(p, m)[k - 1], m[k])]
<1> DEFINE Table(n, f) == f = [k \in 0 .. n |-> IF k = 0 THEN p ELSE Typed(f[k - 1], m[k])]
           S == {n \in Nat : \E f : Table(n, f)}
<1>1. ASSUME NEW n \in Nat, \A u \in Nat : u < n => u \in S  PROVE n \in S
  <2>1. CASE n = 0
    <3> DEFINE f == [k \in 0 .. 0 |-> p]
    <3>1. f = [k \in 0 .. 0 |-> IF k = 0 THEN p ELSE Typed(f[k - 1], m[k])]
      OBVIOUS
    <3> HIDE DEF f
    <3> QED  BY <2>1, <3>1
  <2>2. CASE n # 0
    <3>1. n - 1 \in Nat /\ n - 1 < n
      BY <2>2
    <3>2. PICK g : Table(n - 1, g)
      BY <1>1, <3>1
    <3> DEFINE f == [k \in 0 .. n |-> IF k = n THEN Typed(g[n - 1], m[n]) ELSE g[k]]
    <3>3. ASSUME NEW k \in 0 .. n
          PROVE  f[k] = IF k = 0 THEN p ELSE Typed(f[k - 1], m[k])
      <4>1. k # 0 => k - 1 \in 0 .. n - 1 /\ k - 1 # n /\ k - 1 \in 0 .. n
        OBVIOUS
      <4>2. k # 0 => f[k - 1] = g[k - 1]
        BY <4>1
      <4>3. CASE k = n
        <5>1. f[k] = Typed(g[k - 1], m[k]) /\ k # 0
          BY <2>2, <4>3
        <5> HIDE DEF f
        <5> QED  BY <4>2, <5>1
      <4>4. CASE k # n
        <5>1. f[k] = g[k] /\ k \in 0 .. n - 1
          BY <4>4
        <5> HIDE DEF f
        <5>2. g[k] = IF k = 0 THEN p ELSE Typed(g[k - 1], m[k])
          BY <3>2, <5>1
        <5> QED  BY <4>2, <5>1, <5>2
      <4> QED  BY <4>3, <4>4
    <3>4. f = [k \in 0 .. n |-> f[k]]
      OBVIOUS
    <3> HIDE DEF f
    <3>5. Table(n, f)
      BY <3>3, <3>4
    <3> QED  BY <3>5
  <2> QED  BY <2>1, <2>2
<1>2. \E f : Table(Len(m), f)
  <2>1. Nat \subseteq S
    <3> HIDE DEF S
    <3> QED  BY <1>1, Complete
  <2> QED  BY <2>1
<1>3. Printed(p, m) = CHOOSE f : Table(Len(m), f)
  BY DEF Printed
<1> QED  BY <1>2, <1>3

\* The rest of a message goes on where its first item ended.
LEMMA PrintedTail ==
  ASSUME NEW p, NEW S, NEW m \in Seq(S), m # <<>>
  PROVE  \A k \in 0 .. Len(m) - 1 :
           Printed(Typed(p, Head(m)), Tail(m))[k] = Printed(p, m)[k + 1]
<1> DEFINE q == Typed(p, Head(m))
           r == Tail(m)
           A == Printed(p, m)
           B == Printed(q, r)
<1>1. Len(m) \in Nat /\ Len(m) >= 1 /\ Len(r) = Len(m) - 1 /\ Len(r) \in Nat
      /\ Head(m) = m[1] /\ \A k \in 1 .. Len(r) : r[k] = m[k + 1]
  OBVIOUS
<1> HIDE DEF r
<1>2. A = [k \in 0 .. Len(m) |-> IF k = 0 THEN p ELSE Typed(A[k - 1], m[k])]
  BY <1>1, PrintedDefined
<1>3. B = [k \in 0 .. Len(r) |-> IF k = 0 THEN q ELSE Typed(B[k - 1], r[k])]
  BY <1>1, PrintedDefined
<1> HIDE DEF A, B
<1> DEFINE T == {k \in Nat : k \in 0 .. Len(m) - 1 => B[k] = A[k + 1]}
<1>4. ASSUME NEW k \in Nat, \A u \in Nat : u < k => u \in T  PROVE k \in T
  <2> SUFFICES ASSUME k \in 0 .. Len(m) - 1  PROVE B[k] = A[k + 1]
    OBVIOUS
  <2>1. k + 1 \in 0 .. Len(m) /\ k + 1 # 0 /\ (k + 1) - 1 = k /\ k \in 0 .. Len(r)
    BY <1>1
  <2>2. A[k + 1] = Typed(A[k], m[k + 1])
    <3>1. A[k + 1] = IF k + 1 = 0 THEN p ELSE Typed(A[(k + 1) - 1], m[k + 1])
      BY <1>2, <2>1
    <3> QED  BY <2>1, <3>1
  <2>3. CASE k = 0
    <3>1. B[0] = q /\ 0 \in 0 .. Len(m) /\ A[0] = p
      <4>1. 0 \in 0 .. Len(r) /\ 0 \in 0 .. Len(m)
        BY <1>1
      <4> QED  BY <1>2, <1>3, <4>1
    <3>2. A[0 + 1] = Typed(p, m[0 + 1])
      BY <2>2, <2>3, <3>1
    <3>3. 0 + 1 = 1
      OBVIOUS
    <3>4. m[0 + 1] = Head(m)
      BY <1>1, <3>3
    <3> QED  BY <2>3, <3>1, <3>2, <3>4
  <2>4. CASE k # 0
    <3> DEFINE u == k - 1
    <3>1. u \in Nat /\ u < k /\ u + 1 = k /\ u \in 0 .. Len(m) - 1 /\ k \in 1 .. Len(r)
      BY <1>1, <2>4
    <3>2. B[k] = Typed(B[k - 1], r[k])
      BY <1>3, <2>1, <2>4
    <3> HIDE DEF u
    <3>3. B[u] = A[k]
      <4>1. u \in T
        BY <1>4, <3>1
      <4>2. B[u] = A[u + 1]
        BY <3>1, <4>1
      <4> QED  BY <3>1, <4>2
    <3>4. r[k] = m[k + 1] /\ B[k - 1] = B[u]
      BY <1>1, <3>1 DEF u
    <3> QED  BY <2>2, <3>2, <3>3, <3>4
  <2> QED  BY <2>3, <2>4
<1>5. Nat \subseteq T
  <2> HIDE DEF T
  <2> QED  BY <1>4, Complete
<1>6. \A k \in 0 .. Len(m) - 1 : k \in Nat
  OBVIOUS
<1>7. \A k \in 0 .. Len(m) - 1 : B[k] = A[k + 1]
  BY <1>5, <1>6
<1> QED  BY <1>7 DEF A, B, r

\* The message m, printed on p, is plain and ends at e.
Ends(p, m, e) == Plain(p, m) /\ e = Printed(p, m)[Len(m)]

\* The first item of a message fits, and the others follow it.
LEMMA EndsTail ==
  ASSUME NEW p, NEW m, NEW e, Todo(m), m # <<>>, Ends(p, m, e)
  PROVE  Fits(p, Head(m)) /\ Ends(Typed(p, Head(m)), Tail(m), e)
<1>1. PICK S : m \in Seq(S)
  BY DEF Todo
<1> DEFINE q == Typed(p, Head(m))
           r == Tail(m)
           n == Len(r)
<1>2. Len(m) \in Nat /\ Len(m) >= 1 /\ n = Len(m) - 1 /\ n \in Nat /\ n + 1 = Len(m)
      /\ Head(m) = m[1] /\ (\A k \in 1 .. n : r[k] = m[k + 1])
      /\ DOMAIN m = 1 .. Len(m) /\ DOMAIN r = 1 .. n
  BY <1>1
<1>3. \A k \in 0 .. Len(m) - 1 : Printed(q, r)[k] = Printed(p, m)[k + 1]
  BY <1>1, PrintedTail
<1> HIDE DEF q, r, n
<1>4. \A i \in 1 .. Len(m) : Fits(Printed(p, m)[i - 1], m[i])
  BY <1>2 DEF Ends, Plain
<1>5. Fits(p, Head(m))
  <2>1. Printed(p, m)[0] = p
    <3>1. 0 \in 0 .. Len(m)
      BY <1>2
    <3> QED  BY <1>2, <3>1, PrintedDefined
  <2>2. 1 \in 1 .. Len(m) /\ 1 - 1 = 0
    BY <1>2
  <2>3. Fits(Printed(p, m)[1 - 1], m[1])
    BY <1>4, <2>2
  <2> QED  BY <1>2, <2>1, <2>2, <2>3
<1>6. ASSUME NEW i \in 1 .. n  PROVE Fits(Printed(q, r)[i - 1], r[i])
  <2>1. i - 1 \in 0 .. Len(m) - 1 /\ (i - 1) + 1 = i /\ i + 1 \in 1 .. Len(m)
        /\ (i + 1) - 1 = i
    BY <1>2
  <2>2. Printed(q, r)[i - 1] = Printed(p, m)[i]
    BY <1>3, <2>1
  <2>3. Fits(Printed(p, m)[(i + 1) - 1], m[i + 1])
    BY <1>4, <2>1
  <2> QED  BY <1>2, <2>1, <2>2, <2>3
<1>7. Plain(q, r)
  BY <1>2, <1>6 DEF Plain
<1>8. e = Printed(q, r)[n]
  <2>1. n \in 0 .. Len(m) - 1
    BY <1>2
  <2>2. Printed(q, r)[n] = Printed(p, m)[n + 1]
    BY <1>3, <2>1
  <2> QED  BY <1>2, <2>2 DEF Ends
<1>9. Ends(q, r, e)
  BY <1>7, <1>8 DEF Ends, n
<1> QED  BY <1>5, <1>9 DEF q, r

\* Nothing left: the last page is there.
LEMMA EndsNone ==
  ASSUME NEW p, NEW e, Ends(p, <<>>, e)
  PROVE  e = p
<1> DEFINE m == <<>>
<1>1. Len(m) = 0 /\ Len(m) \in Nat /\ 0 \in 0 .. Len(m)
  OBVIOUS
<1>2. Ends(p, m, e)
  OBVIOUS
<1> HIDE DEF m
<1>3. Printed(p, m)[0] = p
  BY <1>1, PrintedDefined
<1> QED  BY <1>1, <1>2, <1>3 DEF Ends

\* The page has cells.
LEMMA ScreenIs ==
  /\ COLS \in Int /\ COLS >= 1 /\ COLS <= 255
  /\ ROWS \in Int /\ ROWS >= 1 /\ ROWS <= 254
  /\ TabStop \in Int /\ TabStop >= 1 /\ TabStop <= COLS /\ COLS + TabStop <= 256
BY ScreenAssumption

\* The cells of a page with the first k characters of a text from pos on.
With(cells, pos, text, k) ==
  [c \in Cells |-> IF c - pos \in 0 .. k - 1 THEN text[(c - pos) + 1] ELSE cells[c]]

\* What is right of the margin.
LEMMA AtMarginIs ==
  ASSUME NEW c, NEW x \in Int, NEW y, NEW g
  PROVE  AtMargin(Sheet(c, x, y, g)) = IF x >= COLS THEN LineFeed(Sheet(c, x, y, g))
                                    ELSE Sheet(c, x, y, g)
BY DEF AtMargin, Sheet

\* A line feed on the page and below its last row.
LEMMA LineFeedIs ==
  ASSUME NEW c, NEW x, NEW y \in Int, NEW g \in Int
  PROVE  LineFeed(Sheet(c, x, y, g)) =
           IF y < ROWS - 1 THEN Sheet(c, 0, y + 1, g) ELSE Sheet(MovedUp(c), 0, y, g + 1)
BY DEF LineFeed, Sheet

\* One character.
LEMMA StrikeIs ==
  ASSUME NEW c, NEW x \in Int, NEW y \in Int, NEW g, NEW ch
  PROVE  Strike(Sheet(c, x, y, g), ch) =
           AtMargin(Sheet([c EXCEPT ![y * COLS + x] = ch], x + 1, y, g))
BY DEF Strike, Sheet

\* The cells of a row lie on the page.
LEMMA RowOnPage ==
  ASSUME NEW x \in Nat, NEW y \in 0 .. ROWS - 1, x < COLS
  PROVE  y * COLS \in Nat /\ y * COLS + x \in Cells
<1>1. COLS \in Int /\ ROWS \in Int /\ COLS > 0 /\ y \in Int
  BY ScreenAssumption
<1>2. y * COLS <= (ROWS - 1) * COLS
  BY <1>1
<1>3. (ROWS - 1) * COLS = ROWS * COLS - COLS
  BY <1>1
<1>4. y * COLS \in Nat /\ ROWS * COLS \in Int
  BY <1>1
<1> DEFINE a == y * COLS
           b == ROWS * COLS
<1> HIDE DEF a, b
<1>5. a + x \in 0 .. b - 1
  BY <1>1, <1>2, <1>3, <1>4 DEF a, b
<1> QED  BY <1>4, <1>5 DEF Cells, a, b

\* One more character of a text.
LEMMA WithNext ==
  ASSUME NEW c, NEW pos \in Int, NEW text, NEW k \in Nat, pos + k \in Cells
  PROVE  [With(c, pos, text, k) EXCEPT ![pos + k] = text[k + 1]] = With(c, pos, text, k + 1)
<1> DEFINE A == With(c, pos, text, k)
           B == With(c, pos, text, k + 1)
           C == [A EXCEPT ![pos + k] = text[k + 1]]
<1>1. ASSUME NEW d \in Cells  PROVE C[d] = B[d]
  <2>1. d \in Int
    BY ScreenAssumption DEF Cells
  <2>2. CASE d = pos + k
    <3>1. (pos + k) - pos = k /\ k \in 0 .. (k + 1) - 1
      OBVIOUS
    <3>2. B[d] = text[k + 1]
      BY <2>2, <3>1 DEF With
    <3>3. C[d] = text[k + 1]
      BY <2>2 DEF With
    <3> QED  BY <3>2, <3>3
  <2>3. CASE d # pos + k
    <3>1. d - pos \in 0 .. k - 1 <=> d - pos \in 0 .. (k + 1) - 1
      BY <2>1, <2>3
    <3>2. C[d] = A[d]
      BY <2>3 DEF With
    <3>3. A[d] = B[d]
      BY <3>1 DEF With
    <3> QED  BY <3>2, <3>3
  <2> QED  BY <2>2, <2>3
<1>2. C = [d \in Cells |-> C[d]] /\ B = [d \in Cells |-> B[d]]
  BY DEF With
<1> HIDE DEF B, C
<1>3. C = B
  BY <1>1, <1>2
<1> QED  BY <1>3 DEF B, C

\* A text that fits its row appears in it, and the margin is looked for at its
\* end only.
LEMMA StruckInRow ==
  ASSUME NEW c, c = [d \in Cells |-> c[d]], NEW x \in Nat, NEW y \in 0 .. ROWS - 1, NEW g,
         x < COLS, NEW text, Len(text) \in Nat, x + Len(text) <= COLS
  PROVE  Struck(Sheet(c, x, y, g), text)[Len(text)] =
           AtMargin(Sheet(With(c, y * COLS + x, text, Len(text)), x + Len(text), y, g))
<1> DEFINE p == Sheet(c, x, y, g)
           n == Len(text)
           A == Struck(p, text)
           pos == y * COLS + x
           U(k) == Sheet(With(c, pos, text, k), x + k, y, g)
           S == {k \in Nat : k <= n => A[k] = AtMargin(U(k))}
<1>1. A = [k \in 0 .. n |-> IF k = 0 THEN p ELSE Strike(A[k - 1], text[k])]
  <2> HIDE DEF p
  <2> QED  BY StruckDefined
<1>2. COLS \in Int /\ y \in Int /\ pos \in Int /\ n \in Nat
  <2>1. y * COLS \in Nat
    BY RowOnPage
  <2>2. COLS \in Int /\ ROWS \in Int
    BY ScreenIs
  <2>3. y \in Int
    BY <2>2
  <2> QED  BY <2>1, <2>2, <2>3
<1> HIDE DEF A, n, pos, p
<1>3. ASSUME NEW k \in Nat, k < n  PROVE AtMargin(U(k)) = U(k)
  <2>1. x + k \in Int /\ ~(x + k >= COLS)
    BY <1>2, <1>3 DEF n
  <2> QED  BY <2>1, AtMarginIs
<1>4. ASSUME NEW k \in Nat, \A u \in Nat : u < k => u \in S  PROVE k \in S
  <2> SUFFICES ASSUME k <= n  PROVE A[k] = AtMargin(U(k))
    OBVIOUS
  <2>1. CASE k = 0
    <3>1. A[0] = p
      <4>1. 0 \in 0 .. n
        BY <1>2
      <4> QED  BY <1>1, <4>1
    <3>2. With(c, pos, text, 0) = c
      <4>1. \A d \in Cells : ~(d - pos \in 0 .. 0 - 1)
        BY <1>2, ScreenAssumption DEF Cells
      <4>2. With(c, pos, text, 0) = [d \in Cells |-> c[d]]
        BY <4>1 DEF With
      <4> QED  BY <4>2
    <3>3. U(0) = Sheet(c, x, y, g)
      BY <3>2
    <3>4. AtMargin(Sheet(c, x, y, g)) = Sheet(c, x, y, g)
      <4>1. ~(x >= COLS)
        BY <1>2
      <4> QED  BY <4>1, AtMarginIs
    <3> HIDE DEF U
    <3> QED  BY <2>1, <3>1, <3>3, <3>4 DEF p
  <2>2. CASE k # 0
    <3> DEFINE u == k - 1
    <3>1. u \in Nat /\ u < k /\ u + 1 = k /\ u < n /\ u <= n /\ k \in 0 .. n
      BY <1>2, <2>2
    <3>2. A[k] = Strike(A[u], text[k])
      BY <1>1, <2>2, <3>1
    <3> HIDE DEF u
    <3>3. A[u] = U(u)
      <4> HIDE DEF U
      <4>1. A[u] = AtMargin(U(u))
        BY <1>4, <3>1
      <4> QED  BY <1>3, <3>1, <4>1
    <3>4. Strike(U(u), text[k]) =
            AtMargin(Sheet([With(c, pos, text, u) EXCEPT ![y * COLS + (x + u)] = text[k]],
                        (x + u) + 1, y, g))
      <4>1. x + u \in Int
        BY <3>1
      <4> DEFINE w == With(c, pos, text, u)
                 z == x + u
      <4> HIDE DEF w, z
      <4>2. Strike(Sheet(w, z, y, g), text[k]) =
              AtMargin(Sheet([w EXCEPT ![y * COLS + z] = text[k]], z + 1, y, g))
        BY <1>2, <4>1, StrikeIs DEF z
      <4> QED  BY <4>2 DEF w, z
    <3>5. y * COLS + (x + u) = pos + u /\ (x + u) + 1 = x + k /\ pos + u \in Cells
      <4>1. x + u \in Nat /\ x + u < COLS
        BY <1>2, <3>1 DEF n
      <4>2. y * COLS \in Nat /\ y * COLS + (x + u) \in Cells
        BY <4>1, RowOnPage
      <4>3. y * COLS + (x + u) = pos + u
        BY <3>1, <4>2 DEF pos
      <4> QED  BY <3>1, <4>2, <4>3
    <3>6. [With(c, pos, text, u) EXCEPT ![pos + u] = text[u + 1]] = With(c, pos, text, u + 1)
      <4>1. u \in Nat /\ pos \in Int /\ pos + u \in Cells
        BY <1>2, <3>1, <3>5
      <4> QED  BY <4>1, WithNext
    <3> QED  BY <3>1, <3>2, <3>3, <3>4, <3>5, <3>6
  <2> QED  BY <2>1, <2>2
<1>5. n \in S
  <2>1. Nat \subseteq S
    <3> HIDE DEF S
    <3> QED  BY <1>4, Complete
  <2> QED  BY <1>2, <2>1
<1>6. A[n] = AtMargin(U(n))
  <2> HIDE DEF U
  <2> QED  BY <1>2, <1>5
<1> QED  BY <1>6 DEF A, n, p, pos

\* What kprintf leaves in buffer is what a reader expects.
LEMMA TextIsMeaning ==
  ASSUME NEW item, WellTyped(item), Printable(item),
         item.kind \in {"x", "X"} => item.v >= 0
  PROVE  Text(item) = Meaning(item)
<1>1. item.kind \in {"char", "s", "d", "x", "X"}
  BY DEF WellTyped, Printable
<1>2. CASE item.kind = "char"
  BY <1>2 DEF Text, Meaning
<1>3. CASE item.kind = "s"
  BY <1>3 DEF Text, Meaning
<1>4. CASE item.kind = "d"
  <2>1. item.v \in Int
    BY <1>4 DEF WellTyped
  <2>2. itoa(item.v, 10) = Decimal(item.v)
    BY <2>1, ItoaWritesNumerals
  <2>3. Text(item) = itoa(item.v, 10) /\ Meaning(item) = Decimal(item.v)
    BY <1>4 DEF Text, Meaning
  <2> QED  BY <2>2, <2>3
<1>5. ASSUME item.kind \in {"x", "X"}
      PROVE  /\ itoa(item.v, 16) = <<"0", "x">> \o Numeral(item.v, 16)
             /\ itoa(item.v, 16) \in Seq(Letters)
             /\ \E n \in Nat : Numeral(item.v, 16) = [i \in 1 .. n |-> Numeral(item.v, 16)[i]]
  <2>1. item.v \in Int /\ item.v >= 0
    BY <1>5 DEF WellTyped
  <2>2. itoa(item.v, 16) = Hexadecimal(item.v)
    BY <2>1, ItoaWritesNumerals
  <2>3. itoa(item.v, 16) \in Seq(Letters)
    BY <2>1, ItoaTyped
  <2>4. CASE item.v = 0
    <3>1. Numeral(item.v, 16) = <<"0">>
      BY <2>4, NumeralZero
    <3>2. <<"0">> = [i \in 1 .. 1 |-> <<"0">>[i]]
      OBVIOUS
    <3>3. 1 \in Nat
      OBVIOUS
    <3> QED  BY <2>2, <2>3, <3>1, <3>2, <3>3 DEF Hexadecimal
  <2>5. CASE item.v # 0
    <3> DEFINE D == Digits(16)[item.v]
    <3>1. item.v \in Nat /\ item.v # 0
      BY <2>1, <2>5
    <3>2. Numeral(item.v, 16) = Reverse(D) /\ D \in Seq(Letters)
      BY <3>1, NumeralIs, DigitsTyped
    <3> HIDE DEF D
    <3>3. Reverse(D) = [i \in 1 .. Len(D) |-> D[(Len(D) - i) + 1]] /\ Len(D) \in Nat
      BY <3>2 DEF Reverse
    <3> DEFINE R == Reverse(D)
    <3>4. R = [i \in 1 .. Len(D) |-> R[i]]
      BY <3>3
    <3> HIDE DEF R
    <3>5. Numeral(item.v, 16) = [i \in 1 .. Len(D) |-> Numeral(item.v, 16)[i]]
      BY <3>2, <3>4 DEF R
    <3> QED  BY <2>2, <2>3, <3>3, <3>5 DEF Hexadecimal
  <2> QED  BY <2>4, <2>5
<1>6. CASE item.kind = "x"
  <2>1. Text(item) = itoa(item.v, 16) /\ Meaning(item) = Hexadecimal(item.v)
    BY <1>6 DEF Text, Meaning
  <2> QED  BY <1>5, <1>6, <2>1 DEF Hexadecimal
<1>7. CASE item.kind = "X"
  <2> DEFINE N == Numeral(item.v, 16)
             U == [i \in DOMAIN N |-> toupper(N[i])]
             s == <<"0", "x">> \o N
  <2>1. Text(item) = Upper(s) /\ Meaning(item) = <<"0", "x">> \o U
    BY <1>5, <1>7 DEF Text, Meaning
  <2>2. PICK n \in Nat : N = [i \in 1 .. n |-> N[i]]
    BY <1>5, <1>7
  <2> HIDE DEF N
  <2> DEFINE T == {N[i] : i \in 1 .. n} \cup {toupper(N[i]) : i \in 1 .. n} \cup {"0", "x"}
  <2>3. N \in Seq(T) /\ Len(N) = n /\ DOMAIN N = 1 .. n
    BY <2>2
  <2>4. U \in Seq(T) /\ Len(U) = n /\ \A i \in 1 .. n : U[i] = toupper(N[i])
    BY <2>3
  <2>5. "0" \in T /\ "x" \in T
    OBVIOUS
  <2> HIDE DEF T, U
  <2> DEFINE w == <<"0", "x">> \o U
  <2>6. /\ s \in Seq(T) /\ Len(s) = n + 2 /\ DOMAIN s = 1 .. n + 2
        /\ s[1] = "0" /\ s[2] = "x" /\ \A i \in 3 .. n + 2 : s[i] = N[i - 2]
    BY <2>3, <2>5
  <2>7. /\ w \in Seq(T) /\ Len(w) = n + 2 /\ DOMAIN w = 1 .. n + 2
        /\ w[1] = "0" /\ w[2] = "x" /\ \A i \in 3 .. n + 2 : w[i] = U[i - 2]
    BY <2>4, <2>5
  <2> HIDE DEF s, w
  <2>8. ASSUME NEW i \in 1 .. n + 2
        PROVE  w[i] = IF i > 2 THEN toupper(s[i]) ELSE s[i]
    <3>1. CASE i > 2
      <4>1. i \in 3 .. n + 2 /\ i - 2 \in 1 .. n
        BY <3>1
      <4>2. w[i] = U[i - 2] /\ U[i - 2] = toupper(N[i - 2]) /\ s[i] = N[i - 2]
        BY <2>4, <2>6, <2>7, <4>1
      <4> QED  BY <3>1, <4>2
    <3>2. CASE ~(i > 2)
      <4>1. i = 1 \/ i = 2
        BY <3>2
      <4> QED  BY <2>6, <2>7, <3>2, <4>1
    <3> QED  BY <3>1, <3>2
  <2>9. Upper(s) = [i \in 1 .. n + 2 |-> IF i > 2 THEN toupper(s[i]) ELSE s[i]]
    BY <2>6 DEF Upper
  <2>10. w = [i \in 1 .. n + 2 |-> w[i]]
    BY <2>7
  <2>11. Upper(s) = w
    BY <2>8, <2>9, <2>10
  <2> QED  BY <2>1, <2>11 DEF w
<1> QED  BY <1>1, <1>2, <1>3, <1>4, <1>6, <1>7

\* The text of a conversion is a sequence.
LEMMA TextSeq ==
  ASSUME NEW item, WellTyped(item), Printable(item)
  PROVE  \E S : Text(item) \in Seq(S)
<1>1. item.kind \in {"char", "s", "d", "x", "X"}
  BY DEF WellTyped, Printable
<1>2. CASE item.kind = "char"
  <2>1. Text(item) = <<item.c>> /\ <<item.c>> \in Seq({item.c})
    BY <1>2 DEF Text
  <2> QED  BY <2>1
<1>3. CASE item.kind = "s"
  <2>1. Text(item) = item.s /\ item.s \in Seq(STRING)
    BY <1>3 DEF Text, WellTyped
  <2> QED  BY <2>1
<1>4. CASE item.kind \in {"d", "x"}
  <2>1. item.v \in Int /\ (Text(item) = itoa(item.v, 10) \/ Text(item) = itoa(item.v, 16))
    BY <1>4 DEF Text, WellTyped
  <2> QED  BY <2>1, ItoaTyped
<1>5. CASE item.kind = "X"
  <2> DEFINE s == itoa(item.v, 16)
             u == Upper(s)
  <2>1. Text(item) = u /\ item.v \in Int
    BY <1>5 DEF Text, WellTyped
  <2>2. s \in Seq(Letters)
    BY <2>1, ItoaTyped
  <2> HIDE DEF s
  <2>3. u = [j \in 1 .. Len(s) |-> IF j > 2 THEN toupper(s[j]) ELSE s[j]]
    BY <2>2 DEF Upper
  <2> DEFINE S == {u[j] : j \in 1 .. Len(s)}
  <2>4. u = [j \in 1 .. Len(s) |-> u[j]]
    BY <2>3
  <2> HIDE DEF u
  <2>5. [j \in 1 .. Len(s) |-> u[j]] \in Seq(S)
    BY <2>2
  <2>6. u \in Seq(S)
    BY <2>4, <2>5
  <2> QED  BY <2>1, <2>6
<1> QED  BY <1>1, <1>2, <1>3, <1>4, <1>5

\* The page as it is seen once it has scrolled: a cursor below the last row
\* stands for the scroll to come.
Now(v, x, y) ==
  IF y < ROWS THEN Sheet(v, x, y, 0) ELSE Sheet(MovedUp(v), x, ROWS - 1, 1)

\* The page after a text that fits the row.
Filled(p, text) ==
  Sheet(With(p.cells, p.y * COLS + p.x, text, Len(text)), p.x + Len(text), p.y, p.gone)

\* The column after a tab.
TabAfter(x) == ((x \div TabStop) + 1) * TabStop

\* What a call still has to do, with the page v, the cursor x, y and the
\* expected page e, at each step of kprintf.
InItem(f, v, x, y, e) ==
  /\ x < COLS /\ y <= ROWS
  /\ Ends(Now(v, x, y), f.todo, e)

InText(f, v, x, y, e) ==
  LET text == Text(Head(f.todo))
  IN /\ x < COLS /\ y <= ROWS /\ f.x = x /\ f.y = y
     /\ x + Len(text) <= COLS
     /\ Len(text) > 0 => y < ROWS
     /\ f.n \in 0 .. Len(text)
     /\ \A j \in 1 .. f.n : v[(y * COLS + x) + (j - 1)] = text[j]
     /\ IF f.pc = "put" THEN f.n < Len(text) ELSE f.n = Len(text)
     /\ Ends(AtMargin(Filled(Now(v, x, y), text)), Tail(f.todo), e)

InTab(f, v, x, y, e) ==
  /\ x < COLS /\ y <= ROWS /\ f.x = x
  /\ TabAfter(x) >= COLS => y < ROWS
  /\ Ends(AtMargin(Now(v, TabAfter(x), y)), Tail(f.todo), e)

InMargin(f, v, x, y, e) ==
  /\ y <= ROWS /\ f.x = x
  /\ x >= COLS => y < ROWS
  /\ Ends(AtMargin(Now(v, x, y)), Tail(f.todo), e)

InLine(f, v, x, y, e) ==
  /\ y <= ROWS
  /\ f.owed \subseteq {"x", "y"} /\ f.owed # {}
  /\ f.then = "margin" => f.x = 0
  /\ "x" \notin f.owed => x = 0
  /\ "y" \in f.owed => y < ROWS
  /\ Ends(Now(v, 0, IF "y" \in f.owed THEN y + 1 ELSE y),
          IF f.then = "item" THEN f.todo ELSE Tail(f.todo), e)

Shown(f, v, x, y, e) ==
  CASE f.pc = "shift" -> y = ROWS /\ e = Now(v, x, y)
    [] f.pc = "last" -> e = Sheet(v, x, ROWS - 1, 1)
    [] OTHER -> v = e.cells /\ x = e.x /\ y = e.y

Doing(f, v, x, y, e) ==
  CASE f.pc = "item" -> InItem(f, v, x, y, e)
    [] f.pc \in {"put", "advance"} -> InText(f, v, x, y, e)
    [] f.pc = "tab" -> InTab(f, v, x, y, e)
    [] f.pc = "margin" -> InMargin(f, v, x, y, e)
    [] f.pc = "line" -> InLine(f, v, x, y, e)
    [] OTHER -> Shown(f, v, x, y, e)

textInv ==
  /\ vid = [c \in Cells |-> vid[c]]
  /\ plain /\ mode # "undefined" =>
       /\ \A u \in Threads \ {cpu} : Idle(u)
       /\ Doing(frame[cpu], vid, cursor_x, cursor_y, expected)

\* The parts of the page as it is seen.
Parts(v, y, c, z, g) ==
  /\ c = [d \in Cells |-> c[d]] /\ z \in 0 .. ROWS - 1 /\ g \in {0, 1}
  /\ g = 0 => y < ROWS /\ c = v /\ z = y
  /\ g = 1 => y = ROWS /\ z = ROWS - 1
  /\ \A w : Now(v, w, y) = Sheet(c, w, z, g)

\* It has these parts.
LEMMA NowIs ==
  ASSUME NEW v, v = [c \in Cells |-> v[c]], NEW y \in Nat, y <= ROWS
  PROVE  \E c, z, g : Parts(v, y, c, z, g)
<1>1. CASE y < ROWS
  <2>1. y \in 0 .. ROWS - 1
    BY <1>1, ScreenIs
  <2>2. \A w : Now(v, w, y) = Sheet(v, w, y, 0)
    BY <1>1 DEF Now
  <2>3. Parts(v, y, v, y, 0)
    BY <1>1, <2>1, <2>2 DEF Parts
  <2> QED  BY <2>3
<1>2. CASE ~(y < ROWS)
  <2>1. y = ROWS /\ ROWS - 1 \in 0 .. ROWS - 1
    BY <1>2, ScreenIs
  <2> DEFINE c == MovedUp(v)
  <2>2. c = [d \in Cells |-> c[d]]
    BY DEF MovedUp
  <2> HIDE DEF c
  <2>3. \A w : Now(v, w, y) = Sheet(c, w, ROWS - 1, 1)
    BY <1>2 DEF Now, c
  <2>4. Parts(v, y, c, ROWS - 1, 1)
    BY <2>1, <2>2, <2>3 DEF Parts
  <2> QED  BY <2>4
<1> QED  BY <1>1, <1>2

\* A line feed is a row further down.
LEMMA NowFed ==
  ASSUME NEW v, NEW x, NEW y \in Nat, y < ROWS
  PROVE  LineFeed(Now(v, x, y)) = Now(v, 0, y + 1)
<1>1. Now(v, x, y) = Sheet(v, x, y, 0)
  BY DEF Now
<1>2. LineFeed(Sheet(v, x, y, 0)) =
        IF y < ROWS - 1 THEN Sheet(v, 0, y + 1, 0) ELSE Sheet(MovedUp(v), 0, y, 0 + 1)
  BY LineFeedIs
<1>3. CASE y < ROWS - 1
  <2>1. y + 1 < ROWS
    BY <1>3, ScreenIs
  <2> QED  BY <1>1, <1>2, <1>3, <2>1 DEF Now
<1>4. CASE ~(y < ROWS - 1)
  <2>1. ~(y + 1 < ROWS) /\ y = ROWS - 1 /\ 0 + 1 = 1
    BY <1>4, ScreenIs
  <2> QED  BY <1>1, <1>2, <1>4, <2>1 DEF Now
<1> QED  BY <1>3, <1>4

\* A page of which one line has gone has no room for another line feed.
LEMMA GoneTwice ==
  ASSUME NEW v, NEW x, NEW y \in Nat, y = ROWS
  PROVE  ~(LineFeed(Now(v, x, y)).gone <= 1)
<1>1. Now(v, x, y) = Sheet(MovedUp(v), x, ROWS - 1, 1)
  BY ScreenIs DEF Now
<1>2. LineFeed(Sheet(MovedUp(v), x, ROWS - 1, 1)) = Sheet(MovedUp(MovedUp(v)), 0, ROWS - 1, 1 + 1)
  BY LineFeedIs, ScreenIs
<1>3. Sheet(MovedUp(MovedUp(v)), 0, ROWS - 1, 1 + 1).gone = 2
  BY DEF Sheet
<1> QED  BY <1>1, <1>2, <1>3

\* The margin of the page as it is seen.
LEMMA NowAtMargin ==
  ASSUME NEW v, NEW x \in Int, NEW y
  PROVE  AtMargin(Now(v, x, y)) = IF x >= COLS THEN LineFeed(Now(v, x, y)) ELSE Now(v, x, y)
<1>1. CASE y < ROWS
  BY <1>1, AtMarginIs DEF Now
<1>2. CASE ~(y < ROWS)
  BY <1>2, AtMarginIs DEF Now
<1> QED  BY <1>1, <1>2

\* A tab does not go further than its width.
LEMMA TabIs ==
  ASSUME NEW x \in Nat, x < COLS
  PROVE  TabAfter(x) \in Nat /\ TabAfter(x) % 256 = TabAfter(x)
<1> DEFINE q == x \div TabStop
           a == TabStop * q
<1>1. q \in Nat /\ a \in Nat /\ a <= x
  BY ScreenIs, Division
<1>2. TabAfter(x) = a + TabStop
  BY <1>1, ScreenIs DEF TabAfter
<1> HIDE DEF a, q
<1>3. a + TabStop \in Nat /\ a + TabStop < 256
  BY <1>1, ScreenIs
<1>4. (a + TabStop) % 256 = a + TabStop
  BY <1>3
<1> QED  BY <1>2, <1>3, <1>4

-----------------------------------------------------------------------------
(* What each step of kprintf does for the text.                            *)

\* An item is begun: the cursor is loaded.
LEMMA LoadTab ==
  ASSUME NEW f, NEW g, NEW v, NEW x \in Nat, NEW y \in Nat, NEW e,
         v = [c \in Cells |-> v[c]], InItem(f, v, x, y, e), Todo(f.todo), f.todo # <<>>,
         Head(f.todo).kind = "tab", g.todo = f.todo, g.x = x
  PROVE  InTab(g, v, x, y, e)
<1> DEFINE item == Head(f.todo)
           p == Now(v, x, y)
           q == Now(v, TabAfter(x), y)
<1>1. x < COLS /\ y <= ROWS /\ Ends(p, f.todo, e)
  BY DEF InItem
<1>2. Fits(p, item) /\ Ends(Typed(p, item), Tail(f.todo), e)
  BY <1>1, EndsTail
<1>3. Typed(p, item) = AtMargin(Sheet(p.cells, TabAfter(p.x), p.y, p.gone))
  BY DEF Typed, TabAfter
<1>4. Sheet(p.cells, TabAfter(p.x), p.y, p.gone) = q
  <2>1. PICK c, z, h : Parts(v, y, c, z, h)
    BY <1>1, NowIs
  <2>2. p = Sheet(c, x, z, h) /\ q = Sheet(c, TabAfter(x), z, h)
    BY <2>1 DEF Parts
  <2> HIDE DEF p, q
  <2>3. p.cells = c /\ p.x = x /\ p.y = z /\ p.gone = h
    BY <2>2 DEF Sheet
  <2> QED  BY <2>2, <2>3
<1>5. Typed(p, item) = AtMargin(q)
  BY <1>3, <1>4
<1>6. ASSUME TabAfter(x) >= COLS  PROVE y < ROWS
  <2> SUFFICES ASSUME y = ROWS  PROVE FALSE
    BY <1>1, ScreenIs
  <2>1. TabAfter(x) \in Int
    BY <1>1, TabIs
  <2>2. AtMargin(q) = LineFeed(q)
    BY <1>6, <2>1, NowAtMargin
  <2>3. Typed(p, item).gone <= 1
    BY <1>2 DEF Fits
  <2> QED  BY <1>5, <2>2, <2>3, GoneTwice
<1> HIDE DEF p, q, item
<1>7. Ends(AtMargin(q), Tail(g.todo), e)
  BY <1>2, <1>5
<1> QED  BY <1>1, <1>6, <1>7 DEF InTab, q

\* A "%" before anything else prints nothing.
LEMMA LoadNone ==
  ASSUME NEW f, NEW g, NEW v, NEW x \in Nat, NEW y \in Nat, NEW e,
         InItem(f, v, x, y, e), Todo(f.todo), f.todo # <<>>,
         Head(f.todo).kind = "none", g.todo = f.todo, g.x = x
  PROVE  InMargin(g, v, x, y, e)
<1> DEFINE item == Head(f.todo)
           p == Now(v, x, y)
<1>1. x < COLS /\ y <= ROWS /\ Ends(p, f.todo, e)
  BY DEF InItem
<1>2. Ends(Typed(p, item), Tail(f.todo), e)
  BY <1>1, EndsTail
<1>3. ~(x >= COLS)
  BY <1>1, ScreenIs
<1>4. AtMargin(p) = p
  BY <1>3, NowAtMargin
<1> HIDE DEF p
<1>5. Meaning(item) = <<>>
  BY DEF Meaning
<1>6. Typed(p, item) = p
  <2> DEFINE text == Meaning(item)
  <2>1. Typed(p, item) = Struck(p, text)[Len(text)]
    BY DEF Typed
  <2>2. Len(text) = 0 /\ Len(text) \in Nat /\ 0 \in 0 .. Len(text)
    BY <1>5
  <2> HIDE DEF text
  <2>3. Struck(p, text)[0] = p
    BY <2>2, StruckDefined
  <2> QED  BY <2>1, <2>2, <2>3
<1>7. Ends(AtMargin(p), Tail(g.todo), e)
  BY <1>2, <1>4, <1>6
<1> QED  BY <1>1, <1>3, <1>7 DEF InMargin, p

\* A character or the text of a conversion.
LEMMA LoadText ==
  ASSUME NEW f, NEW g, NEW v, NEW x \in Nat, NEW y \in Nat, NEW e,
         v = [c \in Cells |-> v[c]], InItem(f, v, x, y, e), Todo(f.todo), f.todo # <<>>,
         Printable(Head(f.todo)), g.todo = f.todo, g.x = x, g.y = y, g.n = 0,
         g.pc = IF Text(Head(f.todo)) = <<>> THEN "advance" ELSE "put"
  PROVE  InText(g, v, x, y, e)
<1> DEFINE item == Head(f.todo)
           p == Now(v, x, y)
           text == Text(item)
           n == Len(text)
<1>1. x < COLS /\ y <= ROWS /\ Ends(p, f.todo, e)
  BY DEF InItem
<1>2. Fits(p, item) /\ Ends(Typed(p, item), Tail(f.todo), e)
  BY <1>1, EndsTail
<1>3. WellTyped(item)
  BY TodoTail
<1> HIDE DEF item
<1>4. Meaning(item) = text /\ n \in Nat
  <2>1. Printable(item)
    BY DEF item
  <2>2. item.kind \in {"x", "X"} => item.v >= 0
    BY <1>2 DEF Fits
  <2> QED  BY <1>3, <2>1, <2>2, TextIsMeaning, TextLength
<1>5. Typed(p, item) = Struck(p, text)[n]
  <2>1. item.kind # "nl" /\ item.kind # "tab"
    BY DEF Printable, item
  <2>2. Typed(p, item) = Struck(p, Meaning(item))[Len(Meaning(item))]
    BY <2>1 DEF Typed
  <2> QED  BY <1>4, <2>2
<1>6. (n > 0 => p.gone = 0) /\ (n > 1 => p.x + n <= COLS)
  BY <1>2, <1>4 DEF Fits
<1>7. PICK c, z, h : Parts(v, y, c, z, h)
  BY <1>1, NowIs
<1>8. /\ z \in 0 .. ROWS - 1 /\ h \in {0, 1} /\ p = Sheet(c, x, z, h)
      /\ c = [d \in Cells |-> c[d]]
      /\ h = 0 => y < ROWS
  BY <1>7 DEF Parts
<1>9. p.cells = c /\ p.x = x /\ p.y = z /\ p.gone = h
  BY <1>8 DEF Sheet
<1> HIDE DEF p, text, n
<1>10. x + n <= COLS
  <2>1. CASE n > 1
    BY <1>6, <1>9, <2>1
  <2>2. CASE ~(n > 1)
    BY <1>1, <1>4, <2>2, ScreenIs
  <2> QED  BY <2>1, <2>2
<1>11. n > 0 => y < ROWS
  BY <1>6, <1>8, <1>9
<1>12. Struck(p, text)[n] = AtMargin(Filled(p, text))
  <2>1. Struck(Sheet(c, x, z, h), text)[Len(text)] =
          AtMargin(Sheet(With(c, z * COLS + x, text, Len(text)), x + Len(text), z, h))
    <3>1. Len(text) \in Nat /\ x + Len(text) <= COLS
      BY <1>4, <1>10 DEF n
    <3> QED  BY <1>1, <1>8, <3>1, StruckInRow
  <2>2. Filled(p, text) = Sheet(With(c, z * COLS + x, text, Len(text)), x + Len(text), z, h)
    BY <1>9 DEF Filled
  <2> QED  BY <1>8, <2>1, <2>2 DEF n
<1>13. Ends(AtMargin(Filled(p, text)), Tail(g.todo), e)
  BY <1>2, <1>5, <1>12
<1>14. IF g.pc = "put" THEN 0 < n ELSE n = 0
  <2>1. CASE text = <<>>
    <3>1. g.pc = "advance" /\ n = 0
      BY <2>1 DEF text, item, n
    <3> QED  BY <3>1
  <2>2. CASE text # <<>>
    <3>1. g.pc = "put"
      BY <2>2 DEF text, item
    <3>2. n # 0
      <4>1. \E S : text \in Seq(S)
        <5>1. Printable(item)
          BY DEF item
        <5> QED  BY <1>3, <5>1, TextSeq DEF text
      <4> QED  BY <2>2, <4>1 DEF n
    <3> QED  BY <1>4, <3>1, <3>2
  <2> QED  BY <2>1, <2>2
<1>15. \A j \in 1 .. 0 : FALSE
  OBVIOUS
<1>16. Text(Head(g.todo)) = text
  BY DEF text, item
<1>17. 0 \in 0 .. n
  BY <1>4
<1> QED
  BY <1>1, <1>10, <1>11, <1>13, <1>14, <1>15, <1>16, <1>17 DEF InText, p, n

\* A line begins.
LEMMA NewlineDoes ==
  ASSUME NEW f, NEW g, NEW v, NEW x \in Nat, NEW y \in Nat, NEW e,
         InItem(f, v, x, y, e), Todo(f.todo), f.todo # <<>>, Head(f.todo).kind = "nl",
         g.todo = f.todo, g.x = 0, g.owed = {"x", "y"}, g.then = "margin"
  PROVE  InLine(g, v, x, y, e)
<1> DEFINE item == Head(f.todo)
           p == Now(v, x, y)
<1>1. x < COLS /\ y <= ROWS /\ Ends(p, f.todo, e)
  BY DEF InItem
<1>2. Fits(p, item) /\ Ends(Typed(p, item), Tail(f.todo), e)
  BY <1>1, EndsTail
<1>3. Typed(p, item) = LineFeed(p)
  BY DEF Typed
<1>4. y < ROWS
  <2> SUFFICES ASSUME y = ROWS  PROVE FALSE
    BY <1>1, ScreenIs
  <2>1. Typed(p, item).gone <= 1
    BY <1>2 DEF Fits
  <2> QED  BY <1>3, <2>1, GoneTwice
<1>5. LineFeed(p) = Now(v, 0, y + 1)
  BY <1>4, NowFed
<1> HIDE DEF p
<1>6. Ends(Now(v, 0, y + 1), Tail(g.todo), e)
  BY <1>2, <1>3, <1>5
<1>7. "y" \in g.owed /\ "x" \in g.owed /\ g.then # "item"
  OBVIOUS
<1>8. g.owed \subseteq {"x", "y"} /\ g.owed # {}
  OBVIOUS
<1> QED  BY <1>1, <1>4, <1>6, <1>7, <1>8 DEF InLine

\* A character of the text is written.
LEMMA PutDoes ==
  ASSUME NEW f, NEW g, NEW v, NEW w, NEW x \in Nat, NEW y \in Nat, NEW e,
         v = [c \in Cells |-> v[c]], InText(f, v, x, y, e), f.pc = "put",
         Len(Text(Head(f.todo))) \in Nat,
         g.todo = f.todo, g.x = f.x, g.y = f.y, g.n = f.n + 1,
         g.pc = IF f.n + 1 < Len(Text(Head(f.todo))) THEN "put" ELSE "advance",
         w = IF (y * COLS + x) + f.n \in Cells
             THEN [v EXCEPT ![(y * COLS + x) + f.n] = Text(Head(f.todo))[f.n + 1]]
             ELSE v
  PROVE  InText(g, w, x, y, e)
<1> DEFINE text == Text(Head(f.todo))
           n == Len(text)
           pos == y * COLS + x
<1>1. /\ x < COLS /\ y <= ROWS /\ f.x = x /\ f.y = y
      /\ x + n <= COLS /\ (n > 0 => y < ROWS) /\ f.n \in 0 .. n /\ f.n < n
      /\ \A j \in 1 .. f.n : v[pos + (j - 1)] = text[j]
      /\ Ends(AtMargin(Filled(Now(v, x, y), text)), Tail(f.todo), e)
      /\ n \in Nat
  BY DEF InText
<1>2. /\ g.todo = f.todo /\ g.n = f.n + 1
      /\ g.pc = IF f.n + 1 < n THEN "put" ELSE "advance"
      /\ w = IF pos + f.n \in Cells THEN [v EXCEPT ![pos + f.n] = text[f.n + 1]] ELSE v
      /\ Text(Head(g.todo)) = text
  OBVIOUS
<1>3. y < ROWS /\ f.n \in Nat /\ n > 0
  BY <1>1
<1>4. y * COLS \in Nat /\ pos \in Int /\ \A k \in 0 .. n - 1 : pos + k \in Cells
  <2>1. y \in 0 .. ROWS - 1
    BY <1>3, ScreenIs
  <2>2. y * COLS \in Nat
    BY <1>1, <2>1, RowOnPage
  <2>3. ASSUME NEW k \in 0 .. n - 1  PROVE pos + k \in Cells
    <3> DEFINE a == y * COLS
    <3>1. x + k \in Nat /\ x + k < COLS
      <4> HIDE DEF text, n, pos
      <4>1. x + n <= COLS /\ n \in Nat /\ k \in 0 .. n - 1
        BY <1>1
      <4> QED  BY <4>1, ScreenIs
    <3>2. y * COLS + (x + k) \in Cells
      BY <2>1, <3>1, RowOnPage
    <3>3. a \in Int /\ a + (x + k) \in Cells
      BY <2>2, <3>2
    <3> HIDE DEF a
    <3>4. (a + x) + k = a + (x + k)
      BY <3>3
    <3> QED  BY <3>3, <3>4 DEF a
  <2> QED  BY <2>2, <2>3
<1> HIDE DEF text, n, pos
<1>5. f.n \in 0 .. n - 1
  BY <1>1, <1>3
<1>6. w = [v EXCEPT ![pos + f.n] = text[f.n + 1]]
  BY <1>2, <1>4, <1>5
<1>7. ASSUME NEW j \in 1 .. f.n + 1  PROVE w[pos + (j - 1)] = text[j]
  <2>1. j - 1 \in 0 .. n - 1
    BY <1>1, <1>3, <1>5
  <2>2. pos + (j - 1) \in Cells /\ pos + f.n \in Cells
    BY <1>4, <1>5, <2>1
  <2>3. CASE j = f.n + 1
    <3>1. j - 1 = f.n
      BY <1>3, <2>3
    <3>2. w[pos + f.n] = text[f.n + 1]
      BY <1>6, <2>2
    <3> QED  BY <2>3, <3>1, <3>2
  <2>4. CASE j # f.n + 1
    <3>1. j \in 1 .. f.n /\ pos + (j - 1) # pos + f.n
      BY <1>3, <1>4, <2>4
    <3>2. w[pos + (j - 1)] = v[pos + (j - 1)]
      BY <1>6, <2>2, <3>1
    <3> QED  BY <1>1, <3>1, <3>2
  <2> QED  BY <2>3, <2>4
<1>8. With(w, pos, text, n) = With(v, pos, text, n)
  <2>1. ASSUME NEW d \in Cells, ~(d - pos \in 0 .. n - 1)  PROVE w[d] = v[d]
    <3>1. d # pos + f.n
      <4> SUFFICES ASSUME d = pos + f.n  PROVE FALSE
        OBVIOUS
      <4>1. d - pos = f.n
        BY <1>3, <1>4
      <4> QED  BY <1>5, <2>1, <4>1
    <3> QED  BY <1>6, <3>1
  <2> QED  BY <2>1 DEF With
<1>9. Filled(Now(w, x, y), text) = Filled(Now(v, x, y), text)
  <2>1. Now(w, x, y) = Sheet(w, x, y, 0) /\ Now(v, x, y) = Sheet(v, x, y, 0)
    BY <1>3 DEF Now
  <2>2. \A u : Filled(Sheet(u, x, y, 0), text) =
                 Sheet(With(u, pos, text, n), x + n, y, 0)
    BY DEF Filled, Sheet, pos, n
  <2> QED  BY <1>8, <2>1, <2>2
<1>10. /\ g.n \in 0 .. n
       /\ IF g.pc = "put" THEN g.n < n ELSE g.n = n
  <2>1. CASE f.n + 1 < n
    BY <1>1, <1>2, <1>3, <2>1
  <2>2. CASE ~(f.n + 1 < n)
    <3>1. f.n + 1 = n /\ g.pc = "advance"
      BY <1>1, <1>2, <1>3, <2>2
    <3> QED  BY <1>1, <1>2, <3>1
  <2> QED  BY <2>1, <2>2
<1>11. \A j \in 1 .. g.n : w[pos + (j - 1)] = text[j]
  BY <1>2, <1>7
<1>12. Ends(AtMargin(Filled(Now(w, x, y), text)), Tail(g.todo), e)
  BY <1>1, <1>2, <1>9
<1>13. g.x = x /\ g.y = y
  BY <1>1
<1> QED  BY <1>1, <1>2, <1>10, <1>11, <1>12, <1>13 DEF InText, n, pos

\* The cursor goes behind the text.
LEMMA AdvanceDoes ==
  ASSUME NEW f, NEW g, NEW v, NEW x \in Nat, NEW y \in Nat, NEW e, NEW z,
         v = [c \in Cells |-> v[c]], InText(f, v, x, y, e), f.pc = "advance",
         Len(Text(Head(f.todo))) \in Nat,
         g.todo = f.todo, g.x = z, z = (x + Len(Text(Head(f.todo)))) % 256
  PROVE  InMargin(g, v, z, y, e)
<1> DEFINE text == Text(Head(f.todo))
           n == Len(text)
           pos == y * COLS + x
<1>1. /\ x < COLS /\ y <= ROWS
      /\ x + n <= COLS /\ (n > 0 => y < ROWS) /\ f.n = n
      /\ \A j \in 1 .. f.n : v[pos + (j - 1)] = text[j]
      /\ Ends(AtMargin(Filled(Now(v, x, y), text)), Tail(f.todo), e)
      /\ n \in Nat /\ z = (x + n) % 256
  BY DEF InText
<1> HIDE DEF text, n, pos
<1>2. z = x + n
  <2>1. x + n \in Nat /\ x + n < 256
    BY <1>1, ScreenIs
  <2> QED  BY <1>1, <2>1
<1>3. z >= COLS => y < ROWS
  BY <1>1, <1>2, ScreenIs
<1>4. Filled(Now(v, x, y), text) = Now(v, z, y)
  <2>1. PICK c, r, h : Parts(v, y, c, r, h)
    BY <1>1, NowIs
  <2>2. /\ Now(v, x, y) = Sheet(c, x, r, h) /\ Now(v, z, y) = Sheet(c, z, r, h)
        /\ c = [d \in Cells |-> c[d]] /\ r \in 0 .. ROWS - 1
        /\ h = 0 => c = v /\ r = y
        /\ h = 1 => y = ROWS
        /\ h \in {0, 1}
    BY <2>1 DEF Parts
  <2> DEFINE q == r * COLS + x
  <2>3. Filled(Sheet(c, x, r, h), text) = Sheet(With(c, q, text, n), x + n, r, h)
    BY DEF Filled, Sheet, n
  <2>4. q \in Int
    <3>1. r * COLS \in Nat
      BY <1>1, <2>2, RowOnPage
    <3> QED  BY <3>1
  <2>5. n > 0 => c = v /\ q = pos
    <3>1. n > 0 => h = 0
      BY <1>1, <2>2, ScreenIs
    <3> QED  BY <2>2, <3>1 DEF pos
  <2> HIDE DEF q
  <2>6. ASSUME NEW d \in Cells, d - q \in 0 .. n - 1  PROVE text[(d - q) + 1] = c[d]
    <3>1. d \in Int
      BY ScreenAssumption DEF Cells
    <3> DEFINE j == (d - q) + 1
    <3>2. n > 0 /\ j \in 1 .. n /\ q + (j - 1) = d
      BY <1>1, <2>4, <2>6, <3>1
    <3> HIDE DEF j
    <3>3. v[pos + (j - 1)] = text[j]
      BY <1>1, <3>2
    <3> QED  BY <2>5, <3>2, <3>3 DEF j
  <2>7. With(c, q, text, n) = c
    <3>1. With(c, q, text, n) = [d \in Cells |-> c[d]]
      BY <2>6 DEF With
    <3> QED  BY <2>2, <3>1
  <2> QED  BY <1>2, <2>2, <2>3, <2>7
<1>5. Ends(AtMargin(Now(v, z, y)), Tail(g.todo), e)
  BY <1>1, <1>4
<1> QED  BY <1>1, <1>3, <1>5 DEF InMargin

\* A tab moves the cursor.
LEMMA TabDoes ==
  ASSUME NEW f, NEW g, NEW v, NEW x \in Nat, NEW y \in Nat, NEW e, NEW z,
         InTab(f, v, x, y, e), g.todo = f.todo, g.x = z,
         z = (((f.x \div TabStop) + 1) * TabStop) % 256
  PROVE  InMargin(g, v, z, y, e)
<1>1. /\ x < COLS /\ y <= ROWS /\ f.x = x
      /\ TabAfter(x) >= COLS => y < ROWS
      /\ Ends(AtMargin(Now(v, TabAfter(x), y)), Tail(f.todo), e)
  BY DEF InTab
<1>2. z = TabAfter(x) % 256
  BY <1>1 DEF TabAfter
<1>3. z = TabAfter(x)
  BY <1>1, <1>2, TabIs
<1> QED  BY <1>1, <1>3 DEF InMargin

\* The end of an item at the margin, and before it.
LEMMA MarginDoes ==
  ASSUME NEW f, NEW g, NEW v, NEW x \in Nat, NEW y \in Nat, NEW e,
         InMargin(f, v, x, y, e), g.todo = Tail(f.todo), g.then = "item"
  PROVE  /\ x >= COLS /\ g.owed = {"x", "y"} => InLine(g, v, x, y, e)
         /\ ~(x >= COLS) => InItem(g, v, x, y, e)
<1>1. /\ y <= ROWS
      /\ x >= COLS => y < ROWS
      /\ Ends(AtMargin(Now(v, x, y)), Tail(f.todo), e)
  BY DEF InMargin
<1>2. ASSUME x >= COLS, g.owed = {"x", "y"}  PROVE InLine(g, v, x, y, e)
  <2>1. AtMargin(Now(v, x, y)) = Now(v, 0, y + 1)
    BY <1>1, <1>2, NowAtMargin, NowFed
  <2>2. Ends(Now(v, 0, y + 1), g.todo, e)
    BY <1>1, <2>1
  <2>3. /\ "y" \in g.owed /\ "x" \in g.owed /\ g.then = "item"
        /\ g.owed \subseteq {"x", "y"} /\ g.owed # {}
    BY <1>2
  <2> QED  BY <1>1, <1>2, <2>2, <2>3 DEF InLine
<1>3. ASSUME ~(x >= COLS)  PROVE InItem(g, v, x, y, e)
  <2>1. AtMargin(Now(v, x, y)) = Now(v, x, y)
    BY <1>3, NowAtMargin
  <2>2. x < COLS
    BY <1>3, ScreenIs
  <2> QED  BY <1>1, <2>1, <2>2 DEF InItem
<1> QED  BY <1>2, <1>3

\* One of the two stores of a line: the frame f becomes g, the cursor a, b.
Stores(o, f, x, y, g, a, b) ==
  /\ o \in f.owed /\ g.owed = f.owed \ {o}
  /\ g.todo = f.todo /\ g.x = f.x /\ g.then = f.then
  /\ a = IF o = "x" THEN 0 ELSE x
  /\ b = IF o = "y" THEN (y + 1) % 256 ELSE y

\* The other is owed, or the line has begun.
LEMMA LineDoes ==
  ASSUME NEW f, NEW g, NEW v, NEW x \in Nat, NEW y \in Nat, NEW e, NEW o, NEW a, NEW b,
         InLine(f, v, x, y, e), f.then \in {"item", "margin"},
         Stores(o, f, x, y, g, a, b)
  PROVE  /\ g.owed # {} => InLine(g, v, a, b, e)
         /\ g.owed = {} /\ f.then = "item" => InItem(g, v, a, b, e)
         /\ g.owed = {} /\ f.then = "margin" => InMargin(g, v, a, b, e)
<1>0. /\ o \in f.owed /\ g.owed = f.owed \ {o}
      /\ g.todo = f.todo /\ g.x = f.x /\ g.then = f.then
      /\ a = IF o = "x" THEN 0 ELSE x
      /\ b = IF o = "y" THEN (y + 1) % 256 ELSE y
  BY DEF Stores
<1> USE <1>0
<1> DEFINE row(h, r) == IF "y" \in h.owed THEN r + 1 ELSE r
           rest == IF f.then = "item" THEN f.todo ELSE Tail(f.todo)
<1>1. /\ y <= ROWS
      /\ f.owed \subseteq {"x", "y"} /\ f.owed # {}
      /\ f.then = "margin" => f.x = 0
      /\ "x" \notin f.owed => x = 0
      /\ "y" \in f.owed => y < ROWS
      /\ Ends(Now(v, 0, row(f, y)), rest, e)
  BY DEF InLine
<1>2. o \in {"x", "y"}
  BY <1>1
<1>3. /\ b \in Nat /\ b <= ROWS
      /\ "y" \in g.owed => b < ROWS
      /\ row(g, b) = row(f, y)
  <2>1. CASE o = "y"
    <3>1. y < ROWS /\ "y" \notin g.owed /\ b = (y + 1) % 256
      BY <1>1, <2>1
    <3>2. (y + 1) % 256 = y + 1
      BY <3>1, ScreenIs
    <3> QED  BY <2>1, <3>1, <3>2, ScreenIs
  <2>2. CASE o = "x"
    <3>1. b = y /\ ("y" \in g.owed <=> "y" \in f.owed)
      BY <2>2
    <3> QED  BY <1>1, <3>1
  <2> QED  BY <1>2, <2>1, <2>2
<1>4. "x" \notin g.owed => a = 0
  <2>1. CASE o = "x"
    BY <2>1
  <2>2. CASE o = "y"
    BY <1>1, <2>2
  <2> QED  BY <1>2, <2>1, <2>2
<1>5. g.owed \subseteq {"x", "y"}
  BY <1>1
<1>6. Ends(Now(v, 0, row(g, b)), rest, e)
  BY <1>1, <1>3
<1>7. ASSUME g.owed # {}  PROVE InLine(g, v, a, b, e)
  <2> HIDE DEF rest
  <2>1. rest = IF g.then = "item" THEN g.todo ELSE Tail(g.todo)
    BY DEF rest
  <2> QED  BY <1>1, <1>3, <1>4, <1>5, <1>6, <1>7, <2>1 DEF InLine
<1>8. ASSUME g.owed = {}  PROVE a = 0 /\ row(g, b) = b /\ Ends(Now(v, a, b), rest, e)
  <2>1. a = 0 /\ row(g, b) = b
    BY <1>4, <1>8
  <2> QED  BY <1>6, <2>1
<1>9. ASSUME g.owed = {}, f.then = "item"  PROVE InItem(g, v, a, b, e)
  <2>1. 0 < COLS
    BY ScreenIs
  <2>2. rest = g.todo
    BY <1>9
  <2> QED  BY <1>3, <1>8, <1>9, <2>1, <2>2 DEF InItem
<1>10. ASSUME g.owed = {}, f.then = "margin"  PROVE InMargin(g, v, a, b, e)
  <2>1. rest = Tail(g.todo) /\ g.x = 0
    BY <1>1, <1>10
  <2>2. ~(0 >= COLS)
    BY ScreenIs
  <2>3. a = 0 /\ Ends(Now(v, a, b), rest, e)
    BY <1>8, <1>10
  <2>4. AtMargin(Now(v, a, b)) = Now(v, a, b)
    BY <2>2, <2>3, NowAtMargin
  <2> HIDE DEF rest
  <2> QED  BY <1>3, <2>1, <2>2, <2>3, <2>4 DEF InMargin
<1> QED  BY <1>7, <1>9, <1>10

\* The message has ended: the page is shown as it is, or scrolls.
LEMMA ScrollDoes ==
  ASSUME NEW f, NEW g, NEW v, NEW x \in Nat, NEW y \in Nat, NEW e,
         InItem(f, v, x, y, e), f.todo = <<>>,
         g.pc = IF y >= ROWS THEN "shift" ELSE "move"
  PROVE  Shown(g, v, x, y, e)
<1>1. y <= ROWS /\ Ends(Now(v, x, y), <<>>, e)
  BY DEF InItem
<1>2. e = Now(v, x, y)
  BY <1>1, EndsNone
<1>3. CASE y >= ROWS
  <2>1. g.pc = "shift" /\ y = ROWS
    BY <1>1, <1>3, ScreenIs
  <2> QED  BY <1>2, <2>1 DEF Shown
<1>4. CASE ~(y >= ROWS)
  <2>1. g.pc = "move" /\ y < ROWS
    BY <1>4, ScreenIs
  <2>2. e = Sheet(v, x, y, 0)
    BY <1>2, <2>1 DEF Now
  <2>3. e.cells = v /\ e.x = x /\ e.y = y
    BY <2>2 DEF Sheet
  <2> QED  BY <2>1, <2>3 DEF Shown
<1> QED  BY <1>3, <1>4

\* The rows move up.
LEMMA ShiftDoes ==
  ASSUME NEW f, NEW g, NEW v, NEW x, NEW y \in Nat, NEW e,
         Shown(f, v, x, y, e), f.pc = "shift", g.pc = "last"
  PROVE  Shown(g, Scrolled(v), x, y, e)
<1>1. y = ROWS /\ e = Now(v, x, y)
  BY DEF Shown
<1>2. ~(y < ROWS) /\ Scrolled(v) = MovedUp(v)
  BY <1>1, ScreenIs DEF Scrolled, MovedUp
<1>3. e = Sheet(Scrolled(v), x, ROWS - 1, 1)
  BY <1>1, <1>2 DEF Now
<1> QED  BY <1>3 DEF Shown

\* The cursor goes up with them.
LEMMA LastDoes ==
  ASSUME NEW f, NEW g, NEW v, NEW x, NEW y, NEW e,
         Shown(f, v, x, y, e), f.pc = "last", g.pc = "move"
  PROVE  Shown(g, v, x, ROWS - 1, e)
<1>1. e = Sheet(v, x, ROWS - 1, 1)
  BY DEF Shown
<1>2. e.cells = v /\ e.x = x /\ e.y = ROWS - 1
  BY <1>1 DEF Sheet
<1> QED  BY <1>2 DEF Shown

-----------------------------------------------------------------------------
(* ShowsText: the steps.                                                   *)

\* What a call relies on.
LEMMA TextBefore ==
  ASSUME typeInv, textInv, NEW t \in Threads, cpu = t, mode # "undefined"
  PROVE  /\ DOMAIN frame[t] = DOMAIN Returned /\ DOMAIN frame = Threads
         /\ FrameOK(frame[t]) /\ frame[t].then \in {"item", "margin"}
         /\ cursor_x \in Nat /\ cursor_y \in Nat
         /\ vid = [c \in Cells |-> vid[c]]
         /\ plain => Doing(frame[t], vid, cursor_x, cursor_y, expected)
<1>1. cursor_x \in Nat /\ cursor_y \in Nat
  BY Before DEF Byte
<1> QED  BY <1>1, Before DEF textInv

\* A step within a call.
LEMMA TextWithin ==
  ASSUME typeInv, textInv, NEW t \in Threads, cpu = t, mode # "undefined",
         UNCHANGED <<cpu, mode, plain, expected>>,
         \A u \in Threads \ {t} : frame'[u] = frame[u],
         vid' = [c \in Cells |-> vid'[c]],
         plain => Doing(frame'[t], vid', cursor_x', cursor_y', expected)
  PROVE  textInv'
<1>1. ASSUME plain, NEW u \in Threads \ {t}  PROVE Idle(u)'
  BY <1>1 DEF textInv, Idle
<1> QED  BY <1>1 DEF textInv

\* Who is at a step of kprintf.
LEMMA TextAt ==
  ASSUME NEW t \in Threads, NEW pc, At(t, pc), UNCHANGED <<mode, machine>>
  PROVE  cpu = t /\ mode # "undefined" /\ UNCHANGED <<cpu, mode, plain, expected>>
BY DEF At, machine, history

\* The cursor is loaded, or a line begins.
LEMMA TextLoad ==
  ASSUME typeInv, textInv, NEW t \in Threads, Load(t) \/ Newline(t)
  PROVE  textInv'
<1> DEFINE f == frame[t]
           g == frame'[t]
           x == cursor_x
           y == cursor_y
<1>1. /\ cpu = t /\ mode # "undefined" /\ UNCHANGED <<cpu, mode, plain, expected>>
  BY TextAt DEF Load, Newline
<1>2. /\ DOMAIN f = DOMAIN Returned /\ DOMAIN frame = Threads
      /\ FrameOK(f) /\ x \in Nat /\ y \in Nat
      /\ vid = [c \in Cells |-> vid[c]]
      /\ plain => Doing(f, vid, x, y, expected)
  BY <1>1, TextBefore
<1>3. /\ f.pc = "item" /\ f.todo # <<>> /\ UNCHANGED <<vid, cursor_x, cursor_y>>
  BY DEF Load, Newline, At, More, cursor
<1>4. Todo(f.todo) /\ WellTyped(Head(f.todo))
  BY <1>2, <1>3, TodoTail DEF FrameOK
<1>5. plain => InItem(f, vid, x, y, expected)
  BY <1>2, <1>3 DEF Doing
<1>6. CASE Load(t)
  <2>1. /\ g.x = x /\ g.y = y /\ g.n = 0 /\ g.todo = f.todo
        /\ g.pc = CASE Head(f.todo).kind = "tab" -> "tab"
                    [] Head(f.todo).kind = "none" -> "margin"
                    [] OTHER -> IF Text(Head(f.todo)) = <<>> THEN "advance" ELSE "put"
        /\ Head(f.todo).kind # "nl"
        /\ \A u \in Threads \ {t} : frame'[u] = frame[u]
    BY <1>2, <1>6 DEF Load, Item, Returned
  <2>2. ASSUME plain  PROVE Doing(g, vid, x, y, expected)
    <3> HIDE DEF f, g, x, y
    <3>1. InItem(f, vid, x, y, expected)
      BY <1>5, <2>2
    <3>2. CASE Head(f.todo).kind = "tab"
      <4>1. g.pc = "tab"
        BY <2>1, <3>2
      <4>2. InTab(g, vid, x, y, expected)
        BY <1>2, <1>3, <1>4, <2>1, <3>1, <3>2, LoadTab
      <4> QED  BY <4>1, <4>2 DEF Doing
    <3>3. CASE Head(f.todo).kind = "none"
      <4>1. g.pc = "margin"
        BY <2>1, <3>3
      <4>2. InMargin(g, vid, x, y, expected)
        BY <1>2, <1>3, <1>4, <2>1, <3>1, <3>3, LoadNone
      <4> QED  BY <4>1, <4>2 DEF Doing
    <3>4. CASE Head(f.todo).kind \notin {"tab", "none"}
      <4>1. g.pc = IF Text(Head(f.todo)) = <<>> THEN "advance" ELSE "put"
        BY <2>1, <3>4
      <4>2. Printable(Head(f.todo))
        BY <2>1, <3>4 DEF Printable
      <4>3. InText(g, vid, x, y, expected)
        BY <1>2, <1>3, <1>4, <2>1, <3>1, <4>1, <4>2, LoadText
      <4>4. g.pc \in {"put", "advance"}
        BY <4>1
      <4> QED  BY <4>3, <4>4 DEF Doing
    <3> QED  BY <3>2, <3>3, <3>4
  <2> QED  BY <1>1, <1>2, <1>3, <2>1, <2>2, TextWithin
<1>7. CASE Newline(t)
  <2>1. /\ g.x = 0 /\ g.todo = f.todo /\ g.pc = "line" /\ g.then = "margin"
        /\ g.owed = {"x", "y"} /\ Head(f.todo).kind = "nl"
        /\ \A u \in Threads \ {t} : frame'[u] = frame[u]
    BY <1>2, <1>7 DEF Newline, LineStarts, Item, Returned
  <2>2. ASSUME plain  PROVE Doing(g, vid, x, y, expected)
    <3> HIDE DEF f, g, x, y
    <3>1. InLine(g, vid, x, y, expected)
      BY <1>2, <1>3, <1>4, <1>5, <2>1, <2>2, NewlineDoes
    <3> QED  BY <2>1, <3>1 DEF Doing
  <2> QED  BY <1>1, <1>2, <1>3, <2>1, <2>2, TextWithin
<1> QED  BY <1>6, <1>7

\* A text is written, and the cursor follows.
LEMMA TextPut ==
  ASSUME typeInv, textInv, NEW t \in Threads, Put(t) \/ Advance(t) \/ TabStore(t)
  PROVE  textInv'
<1> DEFINE f == frame[t]
           g == frame'[t]
           x == cursor_x
           y == cursor_y
           text == Text(Head(f.todo))
<1>1. /\ cpu = t /\ mode # "undefined" /\ UNCHANGED <<cpu, mode, plain, expected>>
  BY TextAt DEF Put, Advance, TabStore, MoveRight
<1>2. /\ DOMAIN f = DOMAIN Returned /\ DOMAIN frame = Threads
      /\ FrameOK(f) /\ x \in Nat /\ y \in Nat
      /\ vid = [c \in Cells |-> vid[c]]
      /\ plain => Doing(f, vid, x, y, expected)
  BY <1>1, TextBefore
<1>3. ASSUME f.pc \in {"put", "advance"}
      PROVE  /\ Len(text) \in Nat
             /\ plain => /\ InText(f, vid, x, y, expected)
                         /\ \A p \in Copies(t) : p[1] = x /\ p[2] = y
  <2>1. f.todo # <<>> /\ Printable(Head(f.todo)) /\ Todo(f.todo)
    BY <1>2, <1>3 DEF FrameOK
  <2>2. Len(text) \in Nat
    BY <2>1, TodoTail, TextLength
  <2>3. plain => InText(f, vid, x, y, expected)
    BY <1>2, <1>3 DEF Doing
  <2>4. plain => f.x = x /\ f.y = y
    BY <2>3 DEF InText
  <2>5. plain => \A p \in Copies(t) : p[1] = x /\ p[2] = y
    BY <2>4 DEF Copies, cursor
  <2> QED  BY <2>2, <2>3, <2>5
<1>4. CASE Put(t)
  <2>1. /\ f.pc = "put" /\ UNCHANGED <<cursor_x, cursor_y>>
    BY <1>4 DEF Put, At, cursor
  <2>2. /\ g.x = f.x /\ g.y = f.y /\ g.todo = f.todo /\ g.n = f.n + 1
        /\ g.pc = IF f.n + 1 < Len(text) THEN "put" ELSE "advance"
        /\ \A u \in Threads \ {t} : frame'[u] = frame[u]
    BY <1>2, <1>4 DEF Put, Item, Returned
  <2>3. PICK p \in Copies(t) :
          vid' = IF (p[2] * COLS + p[1]) + f.n \in Cells
                 THEN [vid EXCEPT ![(p[2] * COLS + p[1]) + f.n] = text[f.n + 1]]
                 ELSE vid
    BY <1>4 DEF Put, Item
  <2>4. vid' = [c \in Cells |-> vid'[c]]
    <3> HIDE DEF text
    <3>1. DOMAIN vid = Cells
      BY <1>2
    <3> QED  BY <1>2, <2>3, <3>1
  <2>5. ASSUME plain  PROVE Doing(g, vid', x, y, expected)
    <3>1. p[1] = x /\ p[2] = y /\ InText(f, vid, x, y, expected) /\ Len(text) \in Nat
      BY <1>3, <2>1, <2>5
    <3> HIDE DEF f, g, x, y
    <3>2. vid' = IF (y * COLS + x) + f.n \in Cells
                 THEN [vid EXCEPT ![(y * COLS + x) + f.n] = text[f.n + 1]]
                 ELSE vid
      BY <2>3, <3>1
    <3>3. InText(g, vid', x, y, expected)
      <4> DEFINE w == vid'
      <4>1. w = IF (y * COLS + x) + f.n \in Cells
                THEN [vid EXCEPT ![(y * COLS + x) + f.n] = Text(Head(f.todo))[f.n + 1]]
                ELSE vid
        BY <3>2
      <4>2. /\ g.x = f.x /\ g.y = f.y /\ g.todo = f.todo /\ g.n = f.n + 1
            /\ g.pc = IF f.n + 1 < Len(Text(Head(f.todo))) THEN "put" ELSE "advance"
            /\ f.pc = "put" /\ Len(Text(Head(f.todo))) \in Nat
            /\ InText(f, vid, x, y, expected)
            /\ x \in Nat /\ y \in Nat /\ vid = [c \in Cells |-> vid[c]]
        BY <1>2, <2>1, <2>2, <3>1
      <4> HIDE DEF w
      <4>3. InText(g, w, x, y, expected)
        BY <4>1, <4>2, PutDoes
      <4> QED  BY <4>3 DEF w
    <3>4. g.pc \in {"put", "advance"}
      BY <2>2
    <3> QED  BY <3>3, <3>4 DEF Doing
  <2> QED  BY <1>1, <2>1, <2>2, <2>4, <2>5, TextWithin
<1>5. ASSUME NEW z, MoveRight(t, z), plain => InMargin([f EXCEPT !.x = z, !.pc = "margin"],
                                                   vid, z, y, expected)
      PROVE  textInv'
  <2>1. /\ g = [f EXCEPT !.x = z, !.pc = "margin"] /\ g.pc = "margin"
        /\ \A u \in Threads \ {t} : frame'[u] = frame[u]
    BY <1>2, <1>5 DEF MoveRight, Returned
  <2>2. cursor_x' = z /\ UNCHANGED <<vid, cursor_y>>
    BY <1>5 DEF MoveRight
  <2>3. plain => Doing(g, vid, z, y, expected)
    <3>1. plain => InMargin(g, vid, z, y, expected)
      BY <1>5, <2>1
    <3> HIDE DEF f, g, x, y
    <3> QED  BY <2>1, <3>1 DEF Doing
  <2> QED  BY <1>1, <1>2, <2>1, <2>2, <2>3, TextWithin
<1>6. ASSUME NEW z
      PROVE  /\ [f EXCEPT !.x = z, !.pc = "margin"].x = z
             /\ [f EXCEPT !.x = z, !.pc = "margin"].todo = f.todo
  BY <1>2 DEF Returned
<1>7. CASE Advance(t)
  <2>1. f.pc = "advance"
    BY <1>7 DEF Advance, At
  <2>2. PICK p \in Copies(t) : MoveRight(t, (p[1] + Len(text)) % 256)
    BY <1>7 DEF Advance, Item
  <2> DEFINE z == (p[1] + Len(text)) % 256
             h == [f EXCEPT !.x = z, !.pc = "margin"]
  <2>3. ASSUME plain  PROVE InMargin(h, vid, z, y, expected)
    <3>1. p[1] = x /\ InText(f, vid, x, y, expected) /\ Len(text) \in Nat
      BY <1>3, <2>1, <2>3
    <3>2. z = (x + Len(text)) % 256
      BY <3>1
    <3>3. h.x = z /\ h.todo = f.todo
      BY <1>6
    <3> HIDE DEF f, x, y, z, h
    <3> QED  BY <1>2, <2>1, <3>1, <3>2, <3>3, AdvanceDoes
  <2> HIDE DEF z
  <2>4. MoveRight(t, z)
    BY <2>2 DEF z
  <2> QED  BY <1>5, <2>3, <2>4
<1>8. CASE TabStore(t)
  <2> DEFINE z == (((f.x \div TabStop) + 1) * TabStop) % 256
             h == [f EXCEPT !.x = z, !.pc = "margin"]
  <2>1. f.pc = "tab" /\ MoveRight(t, z)
    BY <1>8 DEF TabStore, At
  <2>2. plain => InTab(f, vid, x, y, expected)
    BY <1>2, <2>1 DEF Doing
  <2>3. h.x = z /\ h.todo = f.todo
    <3> HIDE DEF z
    <3> QED  BY <1>6
  <2>4. ASSUME plain  PROVE InMargin(h, vid, z, y, expected)
    <3>1. z = (((f.x \div TabStop) + 1) * TabStop) % 256
      OBVIOUS
    <3> HIDE DEF f, x, y, z, h
    <3> QED  BY <1>2, <2>2, <2>3, <2>4, <3>1, TabDoes
  <2> HIDE DEF z
  <2> QED  BY <1>5, <2>1, <2>4
<1> QED  BY <1>4, <1>7, <1>8

\* The end of an item and of a message.
LEMMA TextLine ==
  ASSUME typeInv, textInv, NEW t \in Threads, LineStore(t) \/ Margin(t) \/ ScrollTest(t)
  PROVE  textInv'
<1> DEFINE f == frame[t]
           g == frame'[t]
           x == cursor_x
           y == cursor_y
<1>1. /\ cpu = t /\ mode # "undefined" /\ UNCHANGED <<cpu, mode, plain, expected>>
  BY TextAt DEF LineStore, Margin, ScrollTest
<1>2. /\ DOMAIN f = DOMAIN Returned /\ DOMAIN frame = Threads
      /\ f.then \in {"item", "margin"} /\ x \in Nat /\ y \in Nat
      /\ vid = [c \in Cells |-> vid[c]] /\ UNCHANGED vid
      /\ plain => Doing(f, vid, x, y, expected)
  BY <1>1, TextBefore DEF LineStore, Margin, ScrollTest
<1>3. CASE LineStore(t)
  <2>1. f.pc = "line"
    BY <1>3 DEF LineStore, At
  <2>2. PICK o \in f.owed :
          /\ cursor_x' = IF o = "x" THEN 0 ELSE x
          /\ cursor_y' = IF o = "y" THEN (y + 1) % 256 ELSE y
          /\ frame' = [frame EXCEPT ![t].owed = f.owed \ {o},
                         ![t].pc = IF f.owed \ {o} = {} THEN f.then ELSE "line"]
    BY <1>3 DEF LineStore
  <2>3. /\ g.x = f.x /\ g.todo = f.todo /\ g.then = f.then /\ g.owed = f.owed \ {o}
        /\ g.pc = IF g.owed = {} THEN f.then ELSE "line"
        /\ \A u \in Threads \ {t} : frame'[u] = frame[u]
    BY <1>2, <2>2 DEF Returned
  <2>4. plain => InLine(f, vid, x, y, expected)
    BY <1>2, <2>1 DEF Doing
  <2>5. ASSUME plain  PROVE Doing(g, vid, cursor_x', cursor_y', expected)
    <3> DEFINE a == cursor_x'
               b == cursor_y'
    <3>1. a = (IF o = "x" THEN 0 ELSE x) /\ b = (IF o = "y" THEN (y + 1) % 256 ELSE y)
      BY <2>2
    <3>2. InLine(f, vid, x, y, expected)
      BY <2>4, <2>5
    <3> HIDE DEF f, g, x, y, a, b
    <3>3. /\ g.owed # {} => InLine(g, vid, a, b, expected)
          /\ g.owed = {} /\ f.then = "item" => InItem(g, vid, a, b, expected)
          /\ g.owed = {} /\ f.then = "margin" => InMargin(g, vid, a, b, expected)
      <4>1. Stores(o, f, x, y, g, a, b)
        BY <2>3, <3>1 DEF Stores, f
      <4> QED  BY <1>2, <3>2, <4>1, LineDoes
    <3>4. Doing(g, vid, a, b, expected)
      <4>1. CASE g.owed # {}
        BY <2>3, <3>3, <4>1 DEF Doing
      <4>2. CASE g.owed = {} /\ f.then = "item"
        BY <2>3, <3>3, <4>2 DEF Doing
      <4>3. CASE g.owed = {} /\ f.then = "margin"
        BY <2>3, <3>3, <4>3 DEF Doing
      <4> QED  BY <1>2, <4>1, <4>2, <4>3
    <3> QED  BY <3>4 DEF a, b
  <2> QED  BY <1>1, <1>2, <2>3, <2>5, TextWithin
<1>4. CASE Margin(t)
  <2>1. f.pc = "margin" /\ UNCHANGED <<cursor_x, cursor_y>>
    BY <1>4 DEF Margin, At, cursor
  <2>2. PICK p \in Copies(t) :
          frame' = [frame EXCEPT
            ![t].todo = Tail(@),
            ![t].pc = IF PastMargin(p[1]) THEN "line" ELSE "item",
            ![t].owed = IF PastMargin(p[1]) THEN {"x", "y"} ELSE {},
            ![t].then = "item"]
    BY <1>4 DEF Margin
  <2>3. /\ g.todo = Tail(f.todo) /\ g.then = "item"
        /\ g.pc = IF PastMargin(p[1]) THEN "line" ELSE "item"
        /\ g.owed = IF PastMargin(p[1]) THEN {"x", "y"} ELSE {}
        /\ \A u \in Threads \ {t} : frame'[u] = frame[u]
    BY <1>2, <2>2 DEF Returned
  <2>4. plain => InMargin(f, vid, x, y, expected)
    BY <1>2, <2>1 DEF Doing
  <2>5. ASSUME plain  PROVE Doing(g, vid, x, y, expected)
    <3>1. p[1] = x
      <4>1. f.x = x
        BY <2>4, <2>5 DEF InMargin
      <4> QED  BY <4>1 DEF Copies, cursor
    <3> HIDE DEF f, g, x, y
    <3>2. /\ x >= COLS /\ g.owed = {"x", "y"} => InLine(g, vid, x, y, expected)
          /\ ~(x >= COLS) => InItem(g, vid, x, y, expected)
      BY <1>2, <2>3, <2>4, <2>5, MarginDoes
    <3>3. CASE x >= COLS
      <4>1. g.pc = "line" /\ g.owed = {"x", "y"}
        BY <2>3, <3>1, <3>3 DEF PastMargin
      <4> QED  BY <3>2, <3>3, <4>1 DEF Doing
    <3>4. CASE ~(x >= COLS)
      <4>1. g.pc = "item"
        BY <2>3, <3>1, <3>4 DEF PastMargin
      <4> QED  BY <3>2, <3>4, <4>1 DEF Doing
    <3> QED  BY <3>3, <3>4
  <2> QED  BY <1>1, <1>2, <2>1, <2>3, <2>5, TextWithin
<1>5. CASE ScrollTest(t)
  <2>1. f.pc = "item" /\ f.todo = <<>> /\ UNCHANGED <<cursor_x, cursor_y>>
    BY <1>5 DEF ScrollTest, At, More, cursor
  <2>2. /\ g.pc = IF y >= ROWS THEN "shift" ELSE "move"
        /\ \A u \in Threads \ {t} : frame'[u] = frame[u]
    BY <1>2, <1>5 DEF ScrollTest, Go, Returned
  <2>3. plain => InItem(f, vid, x, y, expected)
    BY <1>2, <2>1 DEF Doing
  <2>4. plain => Doing(g, vid, x, y, expected)
    <3> HIDE DEF f, g, x, y
    <3>1. plain => Shown(g, vid, x, y, expected)
      BY <1>2, <2>1, <2>2, <2>3, ScrollDoes
    <3>2. g.pc \in {"shift", "move"}
      BY <2>2
    <3> QED  BY <3>1, <3>2 DEF Doing
  <2> QED  BY <1>1, <1>2, <2>1, <2>2, <2>4, TextWithin
<1> QED  BY <1>3, <1>4, <1>5

\* The scroll, and MoveCursor before its last step.
LEMMA TextScroll ==
  ASSUME typeInv, textInv, NEW t \in Threads,
         \/ Shift(t) \/ LastRow(t) \/ Location(t)
         \/ Select(t, "high index", HIGH, "high data") \/ HighData(t)
         \/ Select(t, "low index", LOW, "low data")
  PROVE  textInv'
<1> DEFINE f == frame[t]
           g == frame'[t]
           x == cursor_x
           y == cursor_y
<1>1. /\ cpu = t /\ mode # "undefined" /\ UNCHANGED <<cpu, mode, plain, expected>>
  BY TextAt DEF Shift, LastRow, Location, Select, HighData
<1>2. /\ DOMAIN f = DOMAIN Returned /\ DOMAIN frame = Threads
      /\ x \in Nat /\ y \in Nat
      /\ vid = [c \in Cells |-> vid[c]]
      /\ plain => Doing(f, vid, x, y, expected)
  BY <1>1, TextBefore
<1>3. ASSUME f.pc \in {"shift", "last", "move", "high index", "high data", "low index"}, plain
      PROVE  Shown(f, vid, x, y, expected)
  BY <1>2, <1>3 DEF Doing
<1>4. CASE Shift(t)
  <2>1. f.pc = "shift" /\ vid' = Scrolled(vid) /\ UNCHANGED <<cursor_x, cursor_y>>
    BY <1>4 DEF Shift, At, cursor
  <2>2. g.pc = "last" /\ \A u \in Threads \ {t} : frame'[u] = frame[u]
    BY <1>2, <1>4 DEF Shift, Go, Returned
  <2>3. Scrolled(vid) = [c \in Cells |-> Scrolled(vid)[c]]
    BY DEF Scrolled
  <2>4. plain => Doing(g, Scrolled(vid), x, y, expected)
    <3> HIDE DEF f, g, x, y
    <3>1. plain => Shown(g, Scrolled(vid), x, y, expected)
      BY <1>2, <1>3, <2>1, <2>2, ShiftDoes
    <3> QED  BY <2>2, <3>1 DEF Doing
  <2> QED  BY <1>1, <2>1, <2>2, <2>3, <2>4, TextWithin
<1>5. CASE LastRow(t)
  <2>1. f.pc = "last" /\ cursor_y' = ROWS - 1 /\ UNCHANGED <<vid, cursor_x>>
    BY <1>5 DEF LastRow, At
  <2>2. g.pc = "move" /\ \A u \in Threads \ {t} : frame'[u] = frame[u]
    BY <1>2, <1>5 DEF LastRow, Go, Returned
  <2>3. plain => Doing(g, vid, x, ROWS - 1, expected)
    <3> HIDE DEF f, g, x, y
    <3>1. plain => Shown(g, vid, x, ROWS - 1, expected)
      BY <1>3, <2>1, <2>2, LastDoes
    <3> QED  BY <2>2, <3>1 DEF Doing
  <2> QED  BY <1>1, <1>2, <2>1, <2>2, <2>3, TextWithin
<1>6. ASSUME UNCHANGED <<vid, cursor_x, cursor_y>>,
             f.pc \in {"move", "high index", "high data", "low index"},
             g.pc \in {"high index", "high data", "low index", "low data"},
             \A u \in Threads \ {t} : frame'[u] = frame[u]
      PROVE  textInv'
  <2>1. plain => Shown(f, vid, x, y, expected)
    BY <1>3, <1>6
  <2>2. plain => vid = expected.cells /\ x = expected.x /\ y = expected.y
    <3> HIDE DEF f, g, x, y
    <3> QED  BY <1>6, <2>1 DEF Shown
  <2>3. plain => Doing(g, vid, x, y, expected)
    <3> HIDE DEF f, g, x, y
    <3> QED  BY <1>6, <2>2 DEF Doing, Shown
  <2> QED  BY <1>1, <1>2, <1>6, <2>3, TextWithin
<1>7. CASE Location(t)
  <2>1. f.pc = "move" /\ UNCHANGED <<vid, cursor_x, cursor_y>>
    BY <1>7 DEF Location, At, cursor
  <2>2. g.pc = "high index" /\ \A u \in Threads \ {t} : frame'[u] = frame[u]
    BY <1>2, <1>7 DEF Location, Returned
  <2> QED  BY <1>6, <2>1, <2>2
<1>8. ASSUME NEW pc \in {"high index", "low index"}, NEW index,
             NEW then \in {"high data", "low data"}, Select(t, pc, index, then)
      PROVE  textInv'
  <2>1. f.pc = pc /\ UNCHANGED <<vid, cursor_x, cursor_y>>
    BY <1>8 DEF Select, At, cursor
  <2>2. g.pc = then /\ \A u \in Threads \ {t} : frame'[u] = frame[u]
    BY <1>2, <1>8 DEF Select, Go, Returned
  <2> QED  BY <1>6, <1>8, <2>1, <2>2
<1>9. CASE HighData(t)
  <2>1. f.pc = "high data" /\ UNCHANGED <<vid, cursor_x, cursor_y>>
    BY <1>9 DEF HighData, At, cursor
  <2>2. g.pc = "low index" /\ \A u \in Threads \ {t} : frame'[u] = frame[u]
    BY <1>2, <1>9 DEF HighData, Go, Returned
  <2> QED  BY <1>6, <2>1, <2>2
<1> QED  BY <1>4, <1>5, <1>7, <1>8, <1>9

\* The return, and the string that does not fit.
LEMMA TextReturn ==
  ASSUME typeInv, textInv, NEW t \in Threads, LowData(t) \/ Overrun(t)
  PROVE  textInv'
<1>1. CASE LowData(t)
  <2> DEFINE f == frame[t]
  <2>1. /\ cpu = t /\ f.pc = "low data" /\ cpu' = "main" /\ mode # "undefined"
        /\ UNCHANGED <<vid, cursor_x, cursor_y, mode, plain, expected>>
    BY <1>1 DEF LowData, At, history, cursor
  <2>2. /\ DOMAIN frame = Threads /\ vid = [c \in Cells |-> vid[c]]
        /\ plain => Doing(f, vid, cursor_x, cursor_y, expected)
    BY <2>1, TextBefore
  <2>3. frame'[t].pc = "idle" /\ \A u \in Threads \ {t} : frame'[u] = frame[u]
    BY <1>1, <2>2 DEF LowData, Returned
  <2>4. plain => vid = expected.cells /\ cursor_x = expected.x /\ cursor_y = expected.y
    <3> HIDE DEF f
    <3> QED  BY <2>1, <2>2 DEF Doing, Shown
  <2>5. plain => \A u \in Threads : frame'[u].pc = "idle"
    <3>1. plain => \A u \in Threads \ {t} : frame[u].pc = "idle"
      BY <2>1 DEF textInv, Idle
    <3> QED  BY <2>3, <3>1
  <2>6. "main" \in Threads
    BY DEF Threads
  <2>7. plain => Doing(frame'["main"], vid, cursor_x, cursor_y, expected)
    <3> DEFINE g == frame'["main"]
    <3>1. plain => g.pc = "idle"
      BY <2>5, <2>6
    <3> HIDE DEF g
    <3>2. plain => Doing(g, vid, cursor_x, cursor_y, expected)
      BY <2>4, <3>1 DEF Doing, Shown
    <3> QED  BY <3>2 DEF g
  <2> QED  BY <2>1, <2>2, <2>5, <2>7 DEF textInv, Idle
<1>2. CASE Overrun(t)
  <2>1. mode' = "undefined" /\ UNCHANGED vid
    BY <1>2 DEF Overrun
  <2> QED  BY <2>1 DEF textInv
<1> QED  BY <1>1, <1>2

\* A call begins at rest, or disturbs another.
LEMMA TextCall ==
  ASSUME typeInv, textInv, NEW t \in Threads, NEW m, Call(t, m), cpu' = t,
         UNCHANGED <<vid, cursor_x, cursor_y, mode>>
  PROVE  textInv'
<1> DEFINE g == frame'[t]
           page == Page(vid, cursor_x, cursor_y)
<1>1. /\ g.pc = "item" /\ g.todo = m
      /\ \A u \in Threads \ {t} : frame'[u] = frame[u]
  BY DEF Call, typeInv, conInv, Returned
<1>2. vid = [c \in Cells |-> vid[c]]
  BY DEF textInv
<1>3. CASE ~AllIdle
  <2>1. plain' = FALSE
    BY <1>3 DEF Call
  <2> QED  BY <1>2, <2>1 DEF textInv
<1>4. CASE AllIdle
  <2>1. /\ plain' = Plain(page, m)
        /\ expected' = IF plain' THEN Printed(page, m)[Len(m)] ELSE page
    BY <1>4 DEF Call
  <2>2. cursor_x < COLS /\ cursor_y < ROWS /\ cursor_x \in Nat /\ cursor_y \in Nat
    <3>1. \A u \in Threads : ~OwesColumn(u) /\ frame[u].pc \notin BeforeScroll
      BY <1>4 DEF AllIdle, Idle, OwesColumn, Owes, BeforeScroll
    <3>2. ~(cursor_x >= COLS) /\ ~(cursor_y >= ROWS)
      BY <3>1 DEF typeInv, conInv
    <3>3. cursor_x \in 0 .. 255 /\ cursor_y \in 0 .. 255
      BY DEF typeInv, conTypeOK
    <3> QED  BY <3>2, <3>3, ScreenIs
  <2>3. page = Now(vid, cursor_x, cursor_y)
    BY <2>2 DEF Now, Page
  <2> HIDE DEF page, g
  <2>4. plain' => Ends(page, g.todo, expected')
    BY <1>1, <2>1 DEF Ends
  <2>5. plain' => InItem(g, vid, cursor_x, cursor_y, expected')
    <3>1. cursor_y <= ROWS
      BY <2>2, ScreenIs
    <3> QED  BY <2>2, <2>3, <2>4, <3>1 DEF InItem
  <2>6. plain' => Doing(g, vid, cursor_x, cursor_y, expected')
    BY <1>1, <2>5 DEF Doing
  <2>7. \A u \in Threads \ {t} : Idle(u)'
    BY <1>1, <1>4 DEF AllIdle, Idle
  <2> QED  BY <1>2, <2>6, <2>7 DEF textInv, g
<1> QED  BY <1>3, <1>4

\* Calls and interrupts.
LEMMA TextCalls ==
  ASSUME typeInv, textInv,
         Interrupt \/ Continue \/ Output \/ Exception \/ AssertionFails \/ Halt \/ Sti
  PROVE  textInv'
<1>1. ASSUME UNCHANGED <<vid, cursor_x, cursor_y, cpu, frame, plain, expected>>,
             mode' = mode \/ mode = "running"
      PROVE  textInv'
  BY <1>1 DEF textInv, Idle
<1>2. ASSUME NEW s, Begin(s)  PROVE textInv'
  BY <1>1, <1>2 DEF Begin, cursor, history
<1>3. CASE Interrupt
  <2>1. /\ Call("handler", Rebooting) /\ cpu' = "handler" /\ "handler" \in Threads
        /\ UNCHANGED <<vid, cursor_x, cursor_y, mode>>
    BY <1>3 DEF Interrupt, Threads, cursor
  <2> QED  BY <2>1, TextCall
<1>4. CASE Continue
  <2>1. /\ cpu = "main" /\ cpu' = cpu /\ mode = "running" /\ "main" \in Threads
        /\ UNCHANGED <<vid, cursor_x, cursor_y>>
    BY <1>4 DEF Continue, MainFree, Threads, cursor
  <2>2. \/ UNCHANGED <<frame, plain, expected>>
        \/ UNCHANGED mode /\ \E m : Call("main", m)
    BY <1>4 DEF Continue, history
  <2>3. CASE UNCHANGED <<frame, plain, expected>>
    BY <1>1, <2>1, <2>3
  <2>4. CASE UNCHANGED mode /\ \E m : Call("main", m)
    BY <2>1, <2>4, TextCall
  <2> QED  BY <2>2, <2>3, <2>4
<1>5. CASE Output \/ Exception \/ AssertionFails \/ Halt
  BY <1>2, <1>5 DEF Output, Exception, AssertionFails, Halt
<1>6. CASE Sti
  BY <1>1, <1>6 DEF Sti, cursor, history
<1> QED  BY <1>3, <1>4, <1>5, <1>6

\* ClearScreen leaves an empty page.
LEMMA TextInit == conInit => textInv
<1> SUFFICES ASSUME conInit  PROVE textInv
  OBVIOUS
<1>1. /\ cursor_x = 0 /\ cursor_y = 0 /\ cpu = "main" /\ cpu \in Threads
      /\ \A t \in Threads : frame[t].pc = "idle"
      /\ expected = Page(vid, 0, 0)
      /\ vid = [c \in Cells |-> Blank]
  BY DEF conInit, Returned, Threads
<1>2. vid = [c \in Cells |-> vid[c]]
  BY <1>1
<1>3. expected.cells = vid /\ expected.x = 0 /\ expected.y = 0
  BY <1>1 DEF Page, Sheet
<1>4. Doing(frame[cpu], vid, cursor_x, cursor_y, expected)
  <2> DEFINE f == frame[cpu]
  <2>1. f.pc = "idle"
    BY <1>1
  <2> HIDE DEF f
  <2>2. Doing(f, vid, cursor_x, cursor_y, expected)
    BY <1>1, <1>3, <2>1 DEF Doing, Shown
  <2> QED  BY <2>2 DEF f
<1> QED  BY <1>1, <1>2, <1>4 DEF textInv, Idle

\* One step of either thread.
LEMMA TextStep == typeInv /\ textInv /\ [conNext]_conVars => textInv'
<1> SUFFICES ASSUME typeInv, textInv, [conNext]_conVars  PROVE textInv'
  OBVIOUS
<1>1. ASSUME NEW t \in Threads, kprintf(t)  PROVE textInv'
  BY <1>1, TextLoad, TextPut, TextLine, TextScroll, TextReturn DEF kprintf
<1>2. CASE UNCHANGED conVars
  BY <1>2 DEF conVars, cursor, history, textInv, Idle
<1> QED  BY <1>1, <1>2, TextCalls DEF conNext

\* A call of kprintf that was not disturbed leaves the page that a teletype
\* prints, its numbers as they are written, and the cursor where the next call
\* goes on, for every page, all messages and any number of interrupts.
THEOREM TextIsShown == conSpec => []ShowsText
<1>1. ASSUME typeInv, textInv  PROVE ShowsText
  <2> SUFFICES ASSUME AllIdle, plain, mode # "undefined"
               PROVE  vid = expected.cells /\ cursor = <<expected.x, expected.y>>
    BY DEF ShowsText
  <2> DEFINE f == frame[cpu]
  <2>1. f.pc = "idle" /\ Doing(f, vid, cursor_x, cursor_y, expected)
    BY <1>1 DEF textInv, AllIdle, Idle, typeInv, conInv
  <2> HIDE DEF f
  <2>2. vid = expected.cells /\ cursor_x = expected.x /\ cursor_y = expected.y
    BY <2>1 DEF Doing, Shown
  <2> QED  BY <2>2 DEF cursor
<1> QED  BY <1>1, TypeInit, TypeStep, TextInit, TextStep, PTL DEF conSpec
=============================================================================
