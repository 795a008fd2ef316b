----------------------------- MODULE Interrupts -----------------------------
(***************************************************************************)
(* How interrupts reach the kernel: the boot sequence of kmain             *)
(* (kernel/kernel.c), the IDT and the handler table (kernel/idt.c,         *)
(* kernel/isr.c), the entry stubs (kernel/interrupt.asm), and the devices  *)
(* that interrupt.                                                         *)
(*                                                                         *)
(* External, as the code uses them: the two 8259 interrupt controllers     *)
(* (edge triggered, fully nested, slave on line 2), the timer, which makes *)
(* an edge per tick, the keyboard controller, which makes one when a byte  *)
(* enters its empty output buffer and none while the byte stays unread,    *)
(* and the CPU, which takes a deliverable interrupt before the next        *)
(* instruction whenever IF is set.                                         *)
(***************************************************************************)
EXTENDS Integers, FiniteSets

CONSTANTS
  Lines,      \* the interrupt lines with a device, out of 0..15 \ {2}
  MaxEvents,  \* device events in a behaviour
  EarlyKeys,  \* may a key byte arrive before keyboard_init is done?
  MayFault    \* may the kernel touch an unmapped page?

TimerLine == 0
KeyboardLine == 1
Cascade == 2
Slave == 8 .. 15

ASSUME LinesAssumption ==
  {TimerLine, KeyboardLine} \subseteq Lines /\ Lines \subseteq 0 .. 15 \ {Cascade}
ASSUME BoundAssumption == MaxEvents \in Nat
ASSUME SwitchAssumption == EarlyKeys \in BOOLEAN /\ MayFault \in BOOLEAN

VARIABLES
  pc,        \* where kmain is: the call it makes next
  cpu,       \* "main", or where the interrupt stub is, or "halted"
  vec,       \* int_no of the interrupt being handled
  iflag,     \* EFLAGS.IF
  eflags,    \* IF in the EFLAGS image that iret or popfl restores
  handlers,  \* interrupt_handlers[]: what is registered
  irr, isr,  \* the controllers' requested and in-service lines
  bytes,     \* bytes the keyboard controller holds, the readable one first
  ticks,     \* the kernel's tick counter
  events     \* device events so far

pics == <<irr, isr>>
devices == <<bytes, events>>
intVars == <<pc, cpu, vec, iflag, eflags, handlers, irr, isr, bytes, ticks,
             events>>

PAGE_FAULT == 14

\* Fault variant of IRQ: every line gets a vector of the slave's range.
IRQ_slave_base(n) == 40 + n

IRQ(n) == 32 + n
SPURIOUS == IRQ(7)

-----------------------------------------------------------------------------
(* The interrupt controllers.                                              *)

\* Line n loses against line m: 0, 1, then the slave's 8 to 15, then 3 to 7.
MasterLine(n) == IF n \in Slave THEN Cascade ELSE n
Before(m, n) ==
  \/ MasterLine(m) < MasterLine(n)
  \/ m \in Slave /\ n \in Slave /\ m < n

\* A requested line that no line in service blocks and none precedes.
Deliverable(n) ==
  /\ n \in irr
  /\ \A m \in irr \ {n} : Before(n, m)
  /\ \A m \in isr \ {Cascade} : Before(n, m)
  /\ Cascade \in isr => n < Cascade \/ (isr \cap Slave # {} /\ n \in Slave)

Requested == \E n \in Lines : Deliverable(n)

\* What the non-specific EOI command 0x20 does to a controller.
First(S) == CHOOSE n \in S : \A m \in S : n <= m
AfterEOI(S) == IF S = {} THEN {} ELSE S \ {First(S)}

-----------------------------------------------------------------------------
(* Devices.  An edge on a line that is already requested is lost.          *)

Event == events < MaxEvents /\ events' = events + 1

Raise(n) ==
  /\ n \in Lines \ {KeyboardLine}
  /\ Event
  /\ irr' = irr \cup {n}
  /\ UNCHANGED <<pc, cpu, vec, iflag, eflags, handlers, isr, bytes, ticks>>

KeyByte ==
  /\ EarlyKeys \/ pc \in {"shell", "locked"}
  /\ Event
  /\ bytes' = bytes + 1
  /\ irr' = IF bytes = 0 THEN irr \cup {KeyboardLine} ELSE irr
  /\ UNCHANGED <<pc, cpu, vec, iflag, eflags, handlers, isr, ticks>>

-----------------------------------------------------------------------------
(* kmain, one call at a time.  The CPU executes it only while there is no  *)
(* interrupt to take.                                                      *)

Main(at) == pc = at /\ cpu = "main" /\ ~(iflag /\ Requested)

\* irq_remap initialises both controllers, which forget their edges, and
\* unmasks every line.
IDT_Init ==
  /\ Main("idt")
  /\ irr' = {} /\ isr' = {}
  /\ pc' = "paging"
  /\ UNCHANGED <<cpu, vec, iflag, eflags, handlers, devices, ticks>>

register_interrupt_handler(v, h) == handlers' = [handlers EXCEPT ![v] = h]

paging_init ==
  /\ Main("paging")
  /\ register_interrupt_handler(PAGE_FAULT, "page_fault")
  /\ pc' = "sti"
  /\ UNCHANGED <<cpu, vec, iflag, eflags, pics, devices, ticks>>

Sti ==
  /\ Main("sti")
  /\ iflag' = TRUE
  /\ pc' = "timer"
  /\ UNCHANGED <<cpu, vec, eflags, handlers, pics, devices, ticks>>

timer_init ==
  /\ Main("timer")
  /\ register_interrupt_handler(IRQ(TimerLine), "timer_callback")
  /\ pc' = "keyboard"
  /\ UNCHANGED <<cpu, vec, iflag, eflags, pics, devices, ticks>>

\* Fault variant of keyboard_init: registers the handler for the next line.
keyboard_init_next_line ==
  /\ Main("keyboard")
  /\ register_interrupt_handler(IRQ(KeyboardLine + 1), "keyboard_callback")
  /\ pc' = "shell"
  /\ UNCHANGED <<cpu, vec, iflag, eflags, pics, devices, ticks>>

keyboard_init ==
  /\ Main("keyboard")
  /\ register_interrupt_handler(IRQ(KeyboardLine), "keyboard_callback")
  /\ pc' = "shell"
  /\ UNCHANGED <<cpu, vec, iflag, eflags, pics, devices, ticks>>

\* The shell polls: pushfl/cli, a look at the queue, popfl.
ShellLock ==
  /\ Main("shell")
  /\ eflags' = iflag
  /\ iflag' = FALSE
  /\ pc' = "locked"
  /\ UNCHANGED <<cpu, vec, handlers, pics, devices, ticks>>

ShellUnlock ==
  /\ Main("locked")
  /\ iflag' = eflags
  /\ pc' = "shell"
  /\ UNCHANGED <<cpu, vec, eflags, handlers, pics, devices, ticks>>

\* An access to an unmapped page, once paging is on.  The gate masks
\* interrupts; the stub of vector 14 keeps the CPU's error code.
Fault ==
  /\ MayFault
  /\ Main("shell")
  /\ cpu' = "exception"
  /\ vec' = PAGE_FAULT
  /\ eflags' = iflag
  /\ iflag' = FALSE
  /\ UNCHANGED <<pc, handlers, pics, devices, ticks>>

\* isr_handler: kpanic does not return, so the handler table is not looked at.
isr_handler ==
  /\ cpu = "exception"
  /\ cpu' = "halted"
  /\ UNCHANGED <<pc, vec, iflag, eflags, handlers, pics, devices, ticks>>

-----------------------------------------------------------------------------
(* One hardware interrupt: the CPU's entry through the interrupt gate,     *)
(* irq_handler, and iret.  The devices go on meanwhile.                    *)

\* Fault variant of Entered: a trap gate (0x8F), which leaves IF set.
Entered_trap_gate(v) ==
  /\ cpu = "main"
  /\ iflag
  /\ cpu' = "irq"
  /\ vec' = v
  /\ eflags' = iflag
  /\ UNCHANGED iflag

Entered(v) ==
  /\ cpu = "main"
  /\ iflag
  /\ cpu' = "irq"
  /\ vec' = v
  /\ eflags' = iflag
  /\ iflag' = FALSE

Accept(n) ==
  /\ Deliverable(n)
  /\ Entered(IRQ(n))
  /\ irr' = irr \ {n}
  /\ isr' = isr \cup {n, MasterLine(n)}
  /\ UNCHANGED <<pc, handlers, devices, ticks>>

\* A request that is gone when the CPU asks for its vector: the master answers
\* with its line 7 and puts nothing in service.
AcceptSpurious ==
  /\ pc # "idt"
  /\ ~Requested
  /\ Entered(SPURIOUS)
  /\ Event
  /\ UNCHANGED <<pc, handlers, pics, bytes, ticks>>

\* Fault variant of SlaveEOI: the slave controller is left out.
SlaveEOI_missing ==
  /\ cpu = "irq"
  /\ cpu' = "eoi"
  /\ UNCHANGED <<pc, vec, iflag, eflags, handlers, irr, isr, devices, ticks>>

\* The EOI to 0xA0, for the vectors from 40 up.
SlaveEOI ==
  /\ cpu = "irq"
  /\ cpu' = "eoi"
  /\ isr' = IF vec >= 40 THEN (isr \ Slave) \cup AfterEOI(isr \cap Slave) ELSE isr
  /\ UNCHANGED <<pc, vec, iflag, eflags, handlers, irr, devices, ticks>>

\* Fault variant of MasterEOI: sent only for the master's own lines.
MasterEOI_or_slave ==
  /\ cpu = "eoi"
  /\ cpu' = "dispatch"
  /\ isr' = IF vec >= 40 THEN isr ELSE (isr \cap Slave) \cup AfterEOI(isr \ Slave)
  /\ UNCHANGED <<pc, vec, iflag, eflags, handlers, irr, devices, ticks>>

\* The EOI to 0x20, always.
MasterEOI ==
  /\ cpu = "eoi"
  /\ cpu' = "dispatch"
  /\ isr' = (isr \cap Slave) \cup AfterEOI(isr \ Slave)
  /\ UNCHANGED <<pc, vec, iflag, eflags, handlers, irr, devices, ticks>>

\* keyboard_callback reads port 0x60; a byte behind makes a new edge.
ReadPort60 ==
  /\ bytes' = IF bytes > 0 THEN bytes - 1 ELSE 0
  /\ irr' = IF bytes > 1 THEN irr \cup {KeyboardLine} ELSE irr

Dispatch ==
  /\ cpu = "dispatch"
  /\ cpu' = "iret"
  /\ ticks' = IF handlers[vec] = "timer_callback" THEN ticks + 1 ELSE ticks
  /\ IF handlers[vec] = "keyboard_callback"
     THEN ReadPort60
     ELSE UNCHANGED <<bytes, irr>>
  /\ UNCHANGED <<pc, vec, iflag, eflags, handlers, isr, events>>

Iret ==
  /\ cpu = "iret"
  /\ cpu' = "main"
  /\ iflag' = eflags
  /\ UNCHANGED <<pc, vec, eflags, handlers, pics, devices, ticks>>

irq_handler == SlaveEOI \/ MasterEOI \/ Dispatch \/ Iret

-----------------------------------------------------------------------------
\* The loader hands over with interrupts off and no handler registered.
intInit ==
  /\ pc = "idt"
  /\ cpu = "main"
  /\ vec = 0
  /\ iflag = FALSE
  /\ eflags = FALSE
  /\ handlers = [v \in 0 .. 255 |-> "none"]
  /\ irr = {} /\ isr = {}
  /\ bytes = 0
  /\ ticks = 0
  /\ events = 0

Kmain ==
  \/ IDT_Init \/ paging_init \/ Sti \/ timer_init \/ keyboard_init
  \/ ShellLock \/ ShellUnlock

Kernel ==
  \/ Kmain
  \/ isr_handler
  \/ \E n \in Lines : Accept(n)
  \/ irq_handler

intNext ==
  \/ Kernel
  \/ Fault
  \/ AcceptSpurious
  \/ \E n \in Lines : Raise(n)
  \/ KeyByte

intSpec == intInit /\ [][intNext]_intVars

\* The CPU runs until it is halted.
intFairSpec == intSpec /\ WF_intVars(Kernel)

-----------------------------------------------------------------------------
(* Properties.                                                             *)

intTypeOK ==
  /\ pc \in {"idt", "paging", "sti", "timer", "keyboard", "shell", "locked"}
  /\ cpu \in {"main", "exception", "irq", "eoi", "dispatch", "iret", "halted"}
  /\ vec \in 0 .. 47
  /\ iflag \in BOOLEAN /\ eflags \in BOOLEAN
  /\ handlers \in [0 .. 255 -> {"none", "page_fault", "timer_callback",
                                "keyboard_callback"}]
  /\ irr \subseteq Lines
  /\ isr \subseteq Lines \cup {Cascade}
  /\ bytes \in 0 .. MaxEvents
  /\ ticks \in 0 .. MaxEvents
  /\ events \in 0 .. MaxEvents

\* The EOIs of irq_handler, one non-specific command per controller, end the
\* service of the very line whose vector was taken: outside the stretch between
\* entry and EOI nothing is in service, so no line is ever left blocked, also
\* after a spurious interrupt, for which nothing was in service.
ServiceEndsBeforeHandler ==
  /\ cpu \notin {"irq", "eoi"} => isr = {}
  /\ cpu = "irq" => \/ isr = {} /\ vec = SPURIOUS
                    \/ \E n \in Lines : isr = {n, MasterLine(n)} /\ vec = IRQ(n)

\* No interrupt enters a handler, or the shell's critical section: at most one
\* stub is active, it was entered from a state with IF set, and returns to it.
NeverNested ==
  /\ cpu # "main" => ~iflag
  /\ cpu \notin {"main", "halted", "exception"} => eflags /\ pc # "locked"

\* A byte the controller presents is never stranded: it has an edge that will
\* still be taken, or the keyboard handler is about to read it.
ByteHasEdge ==
  bytes > 0 => \/ KeyboardLine \in irr
               \/ vec = IRQ(KeyboardLine) /\ cpu \in {"irq", "eoi", "dispatch"}

\* Ticks that have been requested or taken and not been counted yet.
TicksPending ==
  (IF TimerLine \in irr THEN 1 ELSE 0)
  + (IF vec = IRQ(TimerLine) /\ cpu \in {"irq", "eoi", "dispatch"} THEN 1 ELSE 0)

\* What the slave's EOI leaves in service is one line of the master, or nothing.
OneMasterLine ==
  cpu = "eoi" => \E m \in (Lines \cup {Cascade}) \ Slave : isr \subseteq {m}

\* Every tick counted or pending stems from an event, and is counted for the
\* timer's vector only.
TicksStem ==
  /\ ticks + TicksPending <= events
  /\ \A v \in 0 .. 255 : handlers[v] = "timer_callback" => v = IRQ(TimerLine)

\* The inductive strengthening of the type invariant and the two properties
\* before; the shell's critical section keeps IF clear.
intInv ==
  /\ intTypeOK
  /\ ServiceEndsBeforeHandler
  /\ NeverNested
  /\ OneMasterLine
  /\ pc = "locked" => ~iflag
  /\ bytes <= events
  /\ TicksStem

\* That of ByteHasEdge: bytes come only when the handler is registered.
keyInv ==
  /\ ByteHasEdge
  /\ bytes > 0 => pc \in {"shell", "locked"}
  /\ pc \in {"shell", "locked"} => handlers[IRQ(KeyboardLine)] = "keyboard_callback"

\* Every request is taken in the end, whatever its line: an EOI that was missed
\* would block it for ever.
RequestsAreTaken ==
  \A n \in Lines :
    n \in irr ~> (cpu = "irq" /\ vec = IRQ(n)) \/ cpu = "halted" \/ pc = "idt"

\* isr.c:58-59: "After every interrupt we need to send an EOI to the PICs or
\* they will not send another interrupt again".  The EOI is sent after every
\* interrupt; are the keyboard's bytes read once the keyboard is initialised?
KeyboardIsRead ==
  (pc = "shell" /\ bytes > 0) ~> bytes = 0 \/ cpu = "halted"
=============================================================================
