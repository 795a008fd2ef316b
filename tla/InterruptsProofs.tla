-------------------------- MODULE InterruptsProofs --------------------------
(***************************************************************************)
(* Proofs about interrupt handling, for every set of lines with a device   *)
(* and every number of events: the inductive invariant intInv and, when no *)
(* key is typed during boot, that no byte of the keyboard is stranded.     *)
(***************************************************************************)
EXTENDS Interrupts, TLAPS

\* The constants' assumptions, in the form the steps need.
LEMMA LinesFact ==
  /\ MaxEvents \in Nat
  /\ TimerLine \in Lines /\ KeyboardLine \in Lines
  /\ \A n \in Lines : n \in Int /\ 0 <= n /\ n <= 15 /\ n # Cascade
  /\ Cascade \notin Slave
  /\ \A n \in Int : n \in Slave <=> 8 <= n /\ n <= 15
  BY LinesAssumption, BoundAssumption
  DEF TimerLine, KeyboardLine, Cascade, Slave

\* At the start nothing is requested, in service or registered.
LEMMA InitEstablishes == intInit => intInv
<1> SUFFICES ASSUME intInit PROVE intInv
  OBVIOUS
<1>1. intTypeOK
  <2>1. handlers \in [0 .. 255 -> {"none", "page_fault", "timer_callback",
                                   "keyboard_callback"}]
    BY DEF intInit
  <2>2. iflag \in BOOLEAN /\ eflags \in BOOLEAN
    BY DEF intInit
  <2>3. 0 \in 0 .. MaxEvents /\ 0 \in 0 .. 47
    BY BoundAssumption
  <2> QED
    BY <2>1, <2>2, <2>3 DEF intInit, intTypeOK
<1>2. TicksPending = 0
  BY DEF intInit, TicksPending
<1>3. TicksStem
  BY <1>2 DEF intInit, TicksStem
<1> QED
  BY <1>1, <1>3
  DEF intInit, intInv, ServiceEndsBeforeHandler, NeverNested, OneMasterLine

\* What the invariant says of the counters.
LEMMA Counters ==
  ASSUME intInv
  PROVE  /\ MaxEvents \in Nat /\ ticks \in Nat /\ bytes \in Nat /\ events \in Nat
         /\ TicksPending \in Nat
         /\ ticks + TicksPending <= events
         /\ bytes <= events /\ events <= MaxEvents
         /\ \A v \in 0 .. 255 :
              handlers[v] = "timer_callback" => v = IRQ(TimerLine)
  BY BoundAssumption DEF intInv, intTypeOK, TicksStem, TicksPending

\* The calls of kmain before the shell: no interrupt is being handled.
LEMMA BootPreserves ==
  ASSUME intInv, IDT_Init \/ paging_init \/ Sti \/ timer_init \/ keyboard_init
  PROVE  intInv'
<1> USE LinesFact
    DEF intInv, intTypeOK, ServiceEndsBeforeHandler, NeverNested, OneMasterLine,
        TicksStem, TicksPending, Main, devices, pics, IRQ, TimerLine,
        KeyboardLine, PAGE_FAULT, register_interrupt_handler
<1>1. CASE IDT_Init
  BY <1>1 DEF IDT_Init
<1>2. CASE paging_init
  BY <1>2 DEF paging_init
<1>3. CASE Sti
  BY <1>3 DEF Sti
<1>4. CASE timer_init
  BY <1>4 DEF timer_init
<1>5. CASE keyboard_init
  BY <1>5 DEF keyboard_init
<1> QED
  BY <1>1, <1>2, <1>3, <1>4, <1>5

\* The shell's two halves, and the exceptions, which end in kpanic.
LEMMA ShellPreserves ==
  ASSUME intInv, ShellLock \/ ShellUnlock \/ Fault \/ isr_handler
  PROVE  intInv'
<1> USE LinesFact
    DEF intInv, intTypeOK, ServiceEndsBeforeHandler, NeverNested, OneMasterLine,
        TicksStem, TicksPending, Main, devices, pics, IRQ, TimerLine, PAGE_FAULT
<1>1. CASE ShellLock
  BY <1>1 DEF ShellLock
<1>2. CASE ShellUnlock
  BY <1>2 DEF ShellUnlock
<1>3. CASE Fault
  <2>1. /\ cpu = "main" /\ cpu' = "exception" /\ vec' = PAGE_FAULT
        /\ eflags' = iflag /\ iflag' = FALSE
        /\ pc' = pc /\ handlers' = handlers /\ irr' = irr /\ isr' = isr
        /\ bytes' = bytes /\ ticks' = ticks /\ events' = events
    BY <1>3 DEF Fault
  <2>2. eflags' \in BOOLEAN /\ iflag' \in BOOLEAN
    BY <2>1
  <2>3. TicksPending' <= TicksPending /\ TicksPending' \in Nat
        /\ TicksPending \in Nat
    BY <2>1
  <2> QED
    BY <2>1, <2>2, <2>3
<1>4. CASE isr_handler
  BY <1>4 DEF isr_handler
<1> QED
  BY <1>1, <1>2, <1>3, <1>4

\* A device's edge or byte: nothing but requests and counters changes.
LEMMA DevicesPreserve ==
  ASSUME intInv, KeyByte \/ \E n \in Lines : Raise(n)
  PROVE  intInv'
<1> USE LinesFact
    DEF intInv, intTypeOK, ServiceEndsBeforeHandler, NeverNested, OneMasterLine,
        TicksStem, TicksPending, Event, IRQ, TimerLine, KeyboardLine
<1>1. CASE KeyByte
  BY <1>1 DEF KeyByte
<1>2. ASSUME NEW n \in Lines, Raise(n) PROVE intInv'
  BY <1>2 DEF Raise
<1> QED
  BY <1>1, <1>2

\* The CPU takes line n: with IF set nothing was in service, so n and its
\* cascade are all that is in service in the handler.
LEMMA AcceptPreserves ==
  ASSUME intInv, NEW n \in Lines, Accept(n)
  PROVE  intInv'
<1>1. /\ cpu = "main" /\ iflag /\ cpu' = "irq" /\ vec' = IRQ(n)
      /\ eflags' = iflag /\ iflag' = FALSE
      /\ n \in irr /\ irr' = irr \ {n} /\ isr' = isr \cup {n, MasterLine(n)}
      /\ pc' = pc /\ handlers' = handlers /\ bytes' = bytes
      /\ events' = events /\ ticks' = ticks
  BY DEF Accept, Entered, Deliverable, devices
<1>2. isr = {} /\ pc # "locked"
  BY <1>1 DEF intInv, ServiceEndsBeforeHandler
<1>3. MasterLine(n) \in Lines \cup {Cascade}
  BY DEF MasterLine
<1>4. IRQ(n) \in 0 .. 47 /\ (IRQ(n) = IRQ(TimerLine) => n = TimerLine)
  BY LinesFact DEF IRQ, TimerLine
<1>5. intTypeOK'
  <2>1. eflags' \in BOOLEAN /\ iflag' \in BOOLEAN
    BY <1>1
  <2>2. isr' \subseteq Lines \cup {Cascade} /\ irr' \subseteq Lines
    BY <1>1, <1>2, <1>3 DEF intInv, intTypeOK
  <2> QED
    BY <1>1, <1>4, <2>1, <2>2 DEF intInv, intTypeOK
<1>6. ServiceEndsBeforeHandler'
  BY <1>1, <1>2 DEF ServiceEndsBeforeHandler
<1>7. TicksStem'
  <2>1. TicksPending' <= TicksPending /\ TicksPending' \in Nat
    <3>1. CASE n = TimerLine
      BY <1>1, <3>1 DEF TicksPending
    <3>2. CASE n # TimerLine
      BY <1>1, <1>4, <3>2 DEF TicksPending
    <3> QED
      BY <3>1, <3>2
  <2> QED
    BY <1>1, <2>1, Counters DEF TicksStem, IRQ, TimerLine
<1> QED
  BY <1>1, <1>2, <1>5, <1>6, <1>7 DEF intInv, NeverNested, OneMasterLine

\* A spurious interrupt enters a handler with nothing in service.
LEMMA SpuriousPreserves ==
  ASSUME intInv, AcceptSpurious
  PROVE  intInv'
<1>1. /\ cpu = "main" /\ iflag /\ cpu' = "irq" /\ vec' = SPURIOUS
      /\ eflags' = iflag /\ iflag' = FALSE
      /\ events < MaxEvents /\ events' = events + 1
      /\ pc' = pc /\ handlers' = handlers /\ irr' = irr /\ isr' = isr
      /\ bytes' = bytes /\ ticks' = ticks
  BY DEF AcceptSpurious, Entered, Event, pics
<1>2. SPURIOUS \in 0 .. 47 /\ SPURIOUS # IRQ(TimerLine)
  BY DEF SPURIOUS, IRQ, TimerLine
<1>3. intTypeOK'
  <2>1. eflags' \in BOOLEAN /\ iflag' \in BOOLEAN
    BY <1>1
  <2>2. events' \in 0 .. MaxEvents
    BY <1>1, LinesFact DEF intInv, intTypeOK
  <2> QED
    BY <1>1, <1>2, <2>1, <2>2 DEF intInv, intTypeOK
<1>4. TicksPending' <= TicksPending /\ TicksPending' \in Nat
      /\ TicksPending \in Nat
  BY <1>1, <1>2 DEF TicksPending
<1>5. TicksStem' /\ bytes' <= events'
  BY <1>1, <1>4, Counters DEF TicksStem, IRQ, TimerLine
<1> QED
  BY <1>1, <1>3, <1>5
  DEF intInv, ServiceEndsBeforeHandler, NeverNested, OneMasterLine

\* A non-specific EOI to a controller with at most one line in service clears it.
LEMMA EOIClears ==
  ASSUME NEW m, NEW S, S \subseteq {m}, m \in Int
  PROVE  AfterEOI(S) = {}
<1>1. CASE S = {}
  BY <1>1 DEF AfterEOI
<1>2. CASE S = {m}
  <2>1. First(S) = m
    BY <1>2 DEF First
  <2> QED
    BY <1>2, <2>1 DEF AfterEOI
<1> QED
  BY <1>1, <1>2

\* The slave's EOI, for the vectors from 40 up, ends the service of the slave's
\* line and leaves the cascade; below 40 the line in service is the master's.
LEMMA SlaveEOIPreserves ==
  ASSUME intInv, SlaveEOI
  PROVE  intInv'
<1>1. /\ cpu = "irq" /\ cpu' = "eoi" /\ pc' = pc /\ vec' = vec /\ iflag' = iflag
      /\ eflags' = eflags /\ handlers' = handlers /\ irr' = irr /\ bytes' = bytes
      /\ events' = events /\ ticks' = ticks
  BY DEF SlaveEOI, devices
<1>2. \E m \in (Lines \cup {Cascade}) \ Slave : isr' \subseteq {m}
  <2>1. CASE isr = {} /\ vec = SPURIOUS
    <3>1. isr' = {}
      BY <2>1 DEF SlaveEOI, SPURIOUS, IRQ
    <3> QED
      BY <3>1, LinesFact
  <2>2. ASSUME NEW n \in Lines, isr = {n, MasterLine(n)}, vec = IRQ(n)
        PROVE  \E m \in (Lines \cup {Cascade}) \ Slave : isr' \subseteq {m}
    <3>1. n \in Int /\ (vec >= 40 <=> n \in Slave)
      BY <2>2, LinesFact DEF IRQ
    <3>2. CASE n \in Slave
      <4>1. isr \cap Slave = {n} /\ isr \ Slave = {Cascade}
        BY <2>2, <3>2, LinesFact DEF MasterLine
      <4>2. isr' = {Cascade}
        BY <3>1, <3>2, <4>1, EOIClears DEF SlaveEOI
      <4> QED
        BY <4>2, LinesFact
    <3>3. CASE n \notin Slave
      BY <2>2, <3>1, <3>3 DEF SlaveEOI, MasterLine
    <3> QED
      BY <3>2, <3>3
  <2> QED
    BY <1>1, <2>1, <2>2 DEF intInv, ServiceEndsBeforeHandler
<1>3. isr' \subseteq Lines \cup {Cascade}
  BY <1>2
<1>4. TicksPending' = TicksPending
  BY <1>1 DEF TicksPending
<1> QED
  BY <1>1, <1>2, <1>3, <1>4
  DEF intInv, intTypeOK, ServiceEndsBeforeHandler, NeverNested, OneMasterLine,
      TicksStem

\* The master's EOI ends the service of the one line that is left.
LEMMA MasterEOIPreserves ==
  ASSUME intInv, MasterEOI
  PROVE  intInv'
<1>1. /\ cpu = "eoi" /\ cpu' = "dispatch" /\ pc' = pc /\ vec' = vec
      /\ iflag' = iflag /\ eflags' = eflags /\ handlers' = handlers
      /\ irr' = irr /\ bytes' = bytes /\ events' = events /\ ticks' = ticks
  BY DEF MasterEOI, devices
<1>2. isr' = {}
  <2>1. PICK m \in (Lines \cup {Cascade}) \ Slave : isr \subseteq {m}
    BY <1>1 DEF intInv, OneMasterLine
  <2>2. m \in Int /\ isr \cap Slave = {} /\ isr \ Slave \subseteq {m}
    BY <2>1, LinesFact DEF Cascade
  <2>3. AfterEOI(isr \ Slave) = {}
    BY <2>2, EOIClears
  <2> QED
    BY <2>2, <2>3 DEF MasterEOI
<1>3. TicksPending' = TicksPending
  BY <1>1 DEF TicksPending
<1> QED
  BY <1>1, <1>2, <1>3
  DEF intInv, intTypeOK, ServiceEndsBeforeHandler, NeverNested, OneMasterLine,
      TicksStem

\* The registered handler runs: the timer's makes a pending tick a counted one,
\* the keyboard's takes a byte.
LEMMA DispatchPreserves ==
  ASSUME intInv, Dispatch
  PROVE  intInv'
<1>1. /\ cpu = "dispatch" /\ cpu' = "iret" /\ pc' = pc /\ vec' = vec
      /\ iflag' = iflag /\ eflags' = eflags /\ handlers' = handlers
      /\ isr' = isr /\ events' = events
      /\ ticks' = IF handlers[vec] = "timer_callback" THEN ticks + 1 ELSE ticks
  BY DEF Dispatch
<1>2. /\ bytes' \in 0 .. MaxEvents /\ bytes' <= bytes
      /\ irr' \subseteq Lines
      /\ irr' = irr \/ irr' = irr \cup {KeyboardLine}
  <2>1. CASE handlers[vec] = "keyboard_callback"
    BY <2>1, LinesFact DEF Dispatch, ReadPort60, intInv, intTypeOK
  <2>2. CASE handlers[vec] # "keyboard_callback"
    BY <2>2, LinesFact DEF Dispatch, intInv, intTypeOK
  <2> QED
    BY <2>1, <2>2
<1>3. handlers[vec] = "timer_callback" => vec = IRQ(TimerLine)
  BY DEF intInv, intTypeOK, TicksStem
<1>4. ticks' + TicksPending' <= ticks + TicksPending
  BY <1>1, <1>2, <1>3
  DEF TicksPending, intInv, intTypeOK, TimerLine, KeyboardLine
<1>5. /\ ticks' \in Nat
      /\ TicksPending \in Nat /\ TicksPending' \in Nat
  BY <1>1 DEF TicksPending, intInv, intTypeOK
<1>6. /\ ticks' \in 0 .. MaxEvents
      /\ ticks' + TicksPending' <= events'
      /\ bytes' <= events'
  BY <1>1, <1>2, <1>4, <1>5, Counters
<1>7. intTypeOK'
  BY <1>1, <1>2, <1>6 DEF intInv, intTypeOK
<1>8. TicksStem'
  BY <1>1, <1>6, Counters DEF TicksStem, IRQ, TimerLine
<1> QED
  BY <1>1, <1>6, <1>7, <1>8
  DEF intInv, ServiceEndsBeforeHandler, NeverNested, OneMasterLine

\* iret returns to the interrupted kmain, with IF as it was.
LEMMA IretPreserves ==
  ASSUME intInv, Iret
  PROVE  intInv'
BY DEF Iret, devices, pics, intInv, intTypeOK, ServiceEndsBeforeHandler,
       NeverNested, OneMasterLine, TicksStem, TicksPending

\* A step that changes nothing.
LEMMA StutterPreserves ==
  ASSUME intInv, UNCHANGED intVars
  PROVE  intInv'
BY DEF intVars, intInv, intTypeOK, ServiceEndsBeforeHandler, NeverNested,
       OneMasterLine, TicksStem, TicksPending

\* Every step of the machine keeps the invariant.
LEMMA StepPreserves == intInv /\ [intNext]_intVars => intInv'
<1> SUFFICES ASSUME intInv, [intNext]_intVars PROVE intInv'
  OBVIOUS
<1>1. CASE Kmain
  BY <1>1, BootPreserves, ShellPreserves DEF Kmain
<1>2. CASE isr_handler \/ Fault
  BY <1>2, ShellPreserves
<1>3. CASE \E n \in Lines : Accept(n)
  BY <1>3, AcceptPreserves
<1>4. CASE irq_handler
  BY <1>4, SlaveEOIPreserves, MasterEOIPreserves, DispatchPreserves,
     IretPreserves
  DEF irq_handler
<1>5. CASE AcceptSpurious
  BY <1>5, SpuriousPreserves
<1>6. CASE KeyByte \/ \E n \in Lines : Raise(n)
  BY <1>6, DevicesPreserve
<1>7. CASE UNCHANGED intVars
  BY <1>7, StutterPreserves
<1> QED
  BY <1>1, <1>2, <1>3, <1>4, <1>5, <1>6, <1>7 DEF intNext, Kernel

\* intInv holds throughout, whatever the devices do and in whatever order: the
\* strengthening of the properties of irq_handler and of the interrupt gates.
THEOREM InterruptInvariant == intSpec => []intInv
  BY InitEstablishes, StepPreserves, PTL DEF intSpec

\* Every state is well typed; in particular no counter outruns the events.
THEOREM InterruptTypes == intSpec => []intTypeOK
<1>1. intInv => intTypeOK
  BY DEF intInv
<1> QED
  BY <1>1, InterruptInvariant, PTL

\* The two non-specific EOIs of irq_handler end the service of the line whose
\* vector was taken, for every set of lines and after spurious interrupts too.
THEOREM EOIsEndService == intSpec => []ServiceEndsBeforeHandler
<1>1. intInv => ServiceEndsBeforeHandler
  BY DEF intInv
<1> QED
  BY <1>1, InterruptInvariant, PTL

\* Interrupt gates never nest handlers, nor enter the shell's critical section.
THEOREM GatesNeverNest == intSpec => []NeverNested
<1>1. intInv => NeverNested
  BY DEF intInv
<1> QED
  BY <1>1, InterruptInvariant, PTL

-----------------------------------------------------------------------------
(* The keyboard's edge, when nobody types before keyboard_init.            *)

\* No byte is waiting at the start.
LEMMA InitKeys == intInit => keyInv
  BY DEF intInit, keyInv, ByteHasEdge

\* kmain: before the shell no byte can be waiting, and keyboard_init registers
\* the handler before the shell starts.
LEMMA KmainKeepsKeys ==
  ASSUME intInv, keyInv, Kmain
  PROVE  keyInv'
<1> USE DEF keyInv, ByteHasEdge, Main, devices, pics, IRQ, KeyboardLine, TimerLine,
        PAGE_FAULT, register_interrupt_handler
<1>1. CASE IDT_Init
  BY <1>1, Counters DEF IDT_Init
<1>2. CASE paging_init
  BY <1>2 DEF paging_init
<1>3. CASE Sti
  BY <1>3 DEF Sti
<1>4. CASE timer_init
  BY <1>4 DEF timer_init
<1>5. CASE keyboard_init
  BY <1>5 DEF keyboard_init, intInv, intTypeOK
<1>6. CASE ShellLock
  BY <1>6 DEF ShellLock
<1>7. CASE ShellUnlock
  BY <1>7 DEF ShellUnlock
<1> QED
  BY <1>1, <1>2, <1>3, <1>4, <1>5, <1>6, <1>7 DEF Kmain

\* A byte that finds the controller's buffer empty makes an edge; behind another
\* it makes none, and relies on that one's.
LEMMA DevicesKeepKeys ==
  ASSUME ~EarlyKeys, intInv, keyInv, KeyByte \/ \E n \in Lines : Raise(n)
  PROVE  keyInv'
<1>1. CASE KeyByte
  BY <1>1, Counters DEF KeyByte, keyInv, ByteHasEdge
<1>2. ASSUME NEW n \in Lines, Raise(n) PROVE keyInv'
  BY <1>2 DEF Raise, keyInv, ByteHasEdge
<1> QED
  BY <1>1, <1>2

\* While kmain runs, a waiting byte has its edge in irr; taking an interrupt
\* removes it only for the keyboard's own handler.
LEMMA EntryKeepsKeys ==
  ASSUME intInv, keyInv, Fault \/ AcceptSpurious \/ \E n \in Lines : Accept(n)
  PROVE  keyInv'
<1> USE DEF keyInv, ByteHasEdge, devices, pics
<1>1. CASE Fault
  BY <1>1 DEF Fault, Main
<1>2. CASE AcceptSpurious
  BY <1>2 DEF AcceptSpurious, Entered
<1>3. ASSUME NEW n \in Lines, Accept(n) PROVE keyInv'
  BY <1>3 DEF Accept, Entered
<1> QED
  BY <1>1, <1>2, <1>3

\* The EOIs touch no request; the callback that reads a byte makes an edge for
\* the one behind it.
LEMMA HandlerKeepsKeys ==
  ASSUME intInv, keyInv, isr_handler \/ irq_handler
  PROVE  keyInv'
<1> USE DEF keyInv, ByteHasEdge, devices, pics
<1>1. CASE isr_handler
  BY <1>1 DEF isr_handler
<1>2. CASE SlaveEOI
  BY <1>2 DEF SlaveEOI
<1>3. CASE MasterEOI
  BY <1>3 DEF MasterEOI
<1>4. CASE Dispatch
  <2>1. CASE handlers[vec] = "keyboard_callback"
    BY <1>4, <2>1, Counters DEF Dispatch, ReadPort60
  <2>2. CASE handlers[vec] # "keyboard_callback"
    BY <1>4, <2>2 DEF Dispatch
  <2> QED
    BY <2>1, <2>2
<1>5. CASE Iret
  BY <1>5 DEF Iret
<1> QED
  BY <1>1, <1>2, <1>3, <1>4, <1>5 DEF irq_handler

\* Every step keeps both invariants.
LEMMA StepKeepsKeys ==
  ASSUME ~EarlyKeys
  PROVE  intInv /\ keyInv /\ [intNext]_intVars => keyInv'
<1> SUFFICES ASSUME intInv, keyInv, [intNext]_intVars PROVE keyInv'
  OBVIOUS
<1>1. CASE UNCHANGED intVars
  BY <1>1 DEF intVars, keyInv, ByteHasEdge
<1>2. CASE intNext
  BY <1>2, KmainKeepsKeys, DevicesKeepKeys, EntryKeepsKeys, HandlerKeepsKeys
  DEF intNext, Kernel
<1> QED
  BY <1>1, <1>2

\* No byte is left in the controller without an edge to come or a
\* keyboard_callback about to read it, provided that no key is typed before
\* keyboard_init: edge-triggered requests and the EOI before the handler lose
\* nothing.
THEOREM NoByteStranded ==
  ASSUME ~EarlyKeys
  PROVE  intSpec => []ByteHasEdge
<1>1. keyInv => ByteHasEdge
  BY DEF keyInv
<1>2. intInv /\ keyInv /\ [intNext]_intVars => keyInv'
  BY StepKeepsKeys
<1> QED
  BY <1>1, <1>2, InitKeys, InterruptInvariant, PTL DEF intSpec
=============================================================================
