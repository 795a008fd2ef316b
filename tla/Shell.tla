-------------------------------- MODULE Shell --------------------------------
(***************************************************************************)
(* The shell (kernel/shell.c): lsh_loop edits a command line out of the    *)
(* keys it takes from the buffer of KbdBuffer, and parse_cli runs it.      *)
(*                                                                         *)
(* Two commands do not come back.  halt masks interrupts and halts; gui    *)
(* draws into the frame buffer at 0xFD000000 (kernel/vbe.c:7), which       *)
(* paging does not map, so the page fault ends in kpanic (kernel/isr.c:45) *)
(* with interrupts masked.  Of the other commands none changes any state   *)
(* but the screen.                                                         *)
(*                                                                         *)
(* Writing beyond cli[] hits whatever the linker put there: the mode       *)
(* "undefined" stands for all that may follow, and nothing is claimed of   *)
(* it.                                                                     *)
(***************************************************************************)
EXTENDS KbdBuffer

CONSTANTS
  CliSize,    \* char cli[256]
  HaltLine,   \* the command "halt", as the keys that spell it
  GuiLine     \* the command "gui"

ASSUME CliAssumption == CliSize \in Nat /\ CliSize >= 1
ASSUME ControlAssumption == {"BS", "NL", "TAB"} \subseteq Keys

VARIABLES
  cli,       \* the command line, indexed from 0
  cli_len,   \* its length
  mode,      \* "run", "halted", "panic" or "undefined"
  last       \* the line parse_cli looked at last (history)

shell == <<cli, cli_len, mode, last>>
shVars == <<bufVars, shell>>

Cells == 0 .. CliSize - 1
Controls == {"BS", "NL", "TAB"}

\* The C string in array a, which strcmp compares: up to the first NUL.
CString(a) ==
  LET n == CHOOSE i \in Cells : a[i] = NUL /\ \A j \in 0 .. i - 1 : a[j] # NUL
  IN  [i \in 1 .. n |-> a[i - 1]]

-----------------------------------------------------------------------------
\* Back to the head of the for loop.
Loop == rpc' = "poll" /\ UNCHANGED <<fifo, iflag, flags, key>>

Undefined ==
  /\ mode' = "undefined"
  /\ UNCHANGED <<bufVars, cli, cli_len, last>>

\* case '\t', and the test for key 0 before the switch.
IgnoreKey ==
  /\ rpc = "switch" /\ mode = "run"
  /\ key \in {NUL, "TAB"}
  /\ Loop
  /\ UNCHANGED shell

\* Fault variant of Backspace: takes a character back from an empty line.
Backspace_unguarded ==
  /\ rpc = "switch" /\ mode = "run"
  /\ key = "BS"
  /\ cli_len' = cli_len - 1
  /\ Loop
  /\ UNCHANGED <<cli, mode, last>>

Backspace ==
  /\ rpc = "switch" /\ mode = "run"
  /\ key = "BS"
  /\ cli_len' = IF cli_len > 0 THEN cli_len - 1 ELSE cli_len
  /\ Loop
  /\ UNCHANGED <<cli, mode, last>>

TypeChar ==
  /\ rpc = "switch" /\ mode = "run"
  /\ key \notin Controls \cup {NUL}
  /\ IF cli_len \in Cells
     THEN /\ cli' = [cli EXCEPT ![cli_len] = key]
          /\ cli_len' = cli_len + 1
          /\ Loop
          /\ UNCHANGED <<mode, last>>
     ELSE Undefined

\* Fault variant of Terminated: the line is not cut at its length.
Terminated_not == IF \E i \in Cells : cli[i] = NUL
                  THEN cli
                  ELSE [cli EXCEPT ![CliSize - 1] = NUL]

\* cli[cli_len] = '\0' at the start of parse_cli.
Terminated == [cli EXCEPT ![cli_len] = NUL]

\* Does the command in the terminated array a match w?  strcmp and length.
IsCommand(a, w) == CString(a) = w /\ cli_len = Len(w)

\* case '\n': parse_cli, then show_cmdline.
Enter ==
  /\ rpc = "switch" /\ mode = "run"
  /\ key = "NL"
  /\ IF cli_len \notin Cells
     THEN Undefined
     ELSE /\ last' = CString(Terminated)
          /\ IF IsCommand(Terminated, HaltLine) \/ IsCommand(Terminated, GuiLine)
             THEN /\ mode' = IF IsCommand(Terminated, HaltLine) THEN "halted"
                                                                ELSE "panic"
                  /\ iflag' = FALSE
                  /\ cli' = Terminated
                  /\ UNCHANGED <<fifo, flags, key, rpc, cli_len>>
             ELSE /\ cli' = [Terminated EXCEPT ![0] = NUL]
                  /\ cli_len' = 0
                  /\ Loop
                  /\ UNCHANGED mode

ShellStep == IgnoreKey \/ Backspace \/ TypeChar \/ Enter

-----------------------------------------------------------------------------
\* lsh_loop starts with show_cmdline; cli is in .bss.
shInit ==
  /\ bufInit
  /\ cli = [i \in Cells |-> NUL]
  /\ cli_len = 0
  /\ mode = "run"
  /\ last = <<>>

shNext ==
  \/ \E k \in Keys : Interrupt(k) /\ mode # "undefined" /\ UNCHANGED shell
  \/ ReaderStep /\ mode = "run" /\ UNCHANGED shell
  \/ ShellStep

shSpec == shInit /\ [][shNext]_shVars

\* The shell never blocks: its next step is always taken in the end.
shFairSpec ==
  shSpec /\ WF_shVars((ReaderStep /\ mode = "run" /\ UNCHANGED shell) \/ ShellStep)

-----------------------------------------------------------------------------
(* Properties.                                                             *)

shTypeOK ==
  /\ bufTypeOK
  /\ cli \in [Cells -> Keys \cup {NUL}]
  /\ cli_len \in 0 .. CliSize
  /\ mode \in {"run", "halted", "panic", "undefined"}
  /\ last \in Seq(Keys)

\* The inductive strengthening: the buffer is sound for as long as the shell
\* runs, nothing is delivered after it has stopped, and the characters of the
\* line are characters.
shInv ==
  /\ shTypeOK
  /\ mode = "run" => bufInv
  /\ mode \in {"halted", "panic"} => ~iflag
  /\ \A j \in 0 .. cli_len - 1 : cli[j] \in Keys \ Controls

\* The key the shell has taken and not yet acted on.
InHand ==
  IF rpc \in {"get_wrap", "get_unlock", "switch"} /\ key # NUL /\ mode = "run"
  THEN <<key>> ELSE <<>>

Line == [i \in 1 .. cli_len |-> cli[i - 1]]

Term == INSTANCE Terminal WITH
          Room <- Size - 1,
          LineSize <- CliSize,
          StopLines <- {HaltLine, GuiLine},
          pending <- InHand \o Contents,
          line <- Line,
          last <- last,
          mode <- IF mode \in {"halted", "panic"} THEN "stopped" ELSE mode

\* From the keyboard interrupt to the command that runs: for as long as no
\* line is longer than cli[], the line parse_cli compares is exactly what was
\* typed and not taken back, in order, whenever the keys arrived.
RefinesTerminal == Term!Spec

\* A typed Enter reaches parse_cli in the end, unless the shell stops before.
EnterIsRun ==
  (\E i \in 1 .. Len(Contents) : Contents[i] = "NL")
    ~> (rpc = "switch" /\ key = "NL") \/ mode # "run"
=============================================================================
