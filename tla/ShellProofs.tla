---------------------------- MODULE ShellProofs -----------------------------
(***************************************************************************)
(* The shell on top of the keyboard buffer, for every size of the buffer   *)
(* and of the command line: its types, and the refinement of Terminal.     *)
(***************************************************************************)
EXTENDS Shell, KbdBufferProofs

\* The edited part of cli[] is a sequence of keys.
LEMMA LineIsSeq ==
  ASSUME shInv
  PROVE  /\ Line \in Seq(Keys) /\ Len(Line) = cli_len
         /\ \A j \in 1 .. cli_len : Line[j] = cli[j - 1]
<1>1. cli_len \in Nat
  BY CliAssumption DEF shInv, shTypeOK
<1>2. \A j \in 1 .. cli_len : cli[j - 1] \in Keys
  BY <1>1 DEF shInv
<1>3. Line \in [1 .. cli_len -> Keys]
  BY <1>2 DEF Line
<1> QED  BY <1>1, <1>3 DEF Line

\* The string parse_cli compares ends at the NUL it has written.
LEMMA TerminatedIsLine ==
  ASSUME shInv, cli_len \in Cells
  PROVE  CString(Terminated) = Line
<1> DEFINE n == CHOOSE i \in Cells :
                  Terminated[i] = NUL /\ \A j \in 0 .. i - 1 : Terminated[j] # NUL
<1>1. /\ cli_len \in Nat /\ CliSize \in Nat /\ cli \in [Cells -> Keys \cup {NUL}]
      /\ \A j \in 0 .. cli_len - 1 : cli[j] \in Keys
  BY CliAssumption DEF shInv, shTypeOK, Cells
<1>2. /\ Terminated[cli_len] = NUL
      /\ \A j \in 0 .. cli_len - 1 : Terminated[j] = cli[j] /\ Terminated[j] # NUL
  BY <1>1, NULAssumption DEF Terminated, Cells
<1>3. /\ n \in Cells /\ Terminated[n] = NUL
      /\ \A j \in 0 .. n - 1 : Terminated[j] # NUL
  BY <1>2
<1> HIDE DEF n
<1>4. n = cli_len
  BY <1>1, <1>2, <1>3 DEF Cells
<1>5. CString(Terminated) = [i \in 1 .. n |-> Terminated[i - 1]]
  BY DEF CString, n
<1> QED  BY <1>1, <1>2, <1>4, <1>5 DEF Line

-----------------------------------------------------------------------------
(* The invariant.                                                          *)

\* The shell starts with an empty line and an empty buffer.
LEMMA ShellInit == shInit => shInv
BY InitEstablishes, CliAssumption
DEF shInit, shInv, shTypeOK, bufInv, Cells

\* The buffer's own steps.
LEMMA BufferSteps ==
  ASSUME shInv,
         \/ \E k \in Keys : Interrupt(k) /\ mode # "undefined" /\ UNCHANGED shell
         \/ ReaderStep /\ mode = "run" /\ UNCHANGED shell
  PROVE  shInv' /\ mode = "run" /\ bufInv /\ bufInv'
<1>1. mode = "run"
  BY DEF shInv, shTypeOK, Interrupt
<1>2. bufInv
  BY <1>1 DEF shInv
<1>3. bufInv'
  BY <1>2, InterruptPreserves, ReaderPreserves
<1>4. UNCHANGED <<cli, cli_len, mode, last>>
  BY DEF shell
<1>5. bufTypeOK'
  BY <1>3 DEF bufInv
<1> QED  BY <1>1, <1>2, <1>3, <1>4, <1>5 DEF shInv, shTypeOK

\* A turn of the loop ends like Consume.
LEMMA LoopKeepsBuffer ==
  ASSUME bufInv, rpc = "switch", Loop
  PROVE  bufInv'
BY ReaderPreserves DEF Loop, Consume

\* After an overlong line nothing is claimed.
LEMMA UndefinedSteps ==
  ASSUME shInv, Undefined
  PROVE  shInv'
BY DEF shInv, shTypeOK, Undefined, bufVars, bufTypeOK

\* A character, Backspace and Tab.
LEMMA EditSteps ==
  ASSUME shInv, IgnoreKey \/ Backspace \/ TypeChar
  PROVE  shInv'
<1>1. bufInv /\ mode = "run" /\ rpc = "switch"
  BY DEF shInv, IgnoreKey, Backspace, TypeChar
<1>2. ASSUME Loop  PROVE bufInv' /\ bufTypeOK'
  BY <1>1, <1>2, LoopKeepsBuffer DEF bufInv
<1>3. CASE IgnoreKey
  BY <1>2, <1>3 DEF shInv, shTypeOK, IgnoreKey, shell
<1>4. CASE Backspace
  <2>1. cli_len' \in 0 .. cli_len /\ cli_len \in 0 .. CliSize
    BY <1>4, CliAssumption DEF shInv, shTypeOK, Backspace
  <2> QED  BY <1>2, <1>4, <2>1, CliAssumption DEF shInv, shTypeOK, Backspace
<1>5. CASE TypeChar
  <2>1. CASE cli_len \in Cells
    <3>1. /\ cli' = [cli EXCEPT ![cli_len] = key] /\ cli_len' = cli_len + 1
          /\ Loop /\ mode' = mode /\ last' = last
      BY <1>5, <2>1 DEF TypeChar
    <3>2. key \in Keys \ Controls
      BY <1>5 DEF TypeChar, shInv, shTypeOK, bufTypeOK
    <3>3. cli \in [Cells -> Keys \cup {NUL}] /\ cli_len' \in 0 .. CliSize
      BY <2>1, <3>1, CliAssumption DEF shInv, shTypeOK, Cells
    <3>4. cli' \in [Cells -> Keys \cup {NUL}]
      BY <3>1, <3>2, <3>3
    <3>5. \A j \in 0 .. cli_len' - 1 : cli'[j] \in Keys \ Controls
      BY <2>1, <3>1, <3>2, <3>3, CliAssumption DEF shInv, Cells
    <3> QED  BY <1>1, <1>2, <3>1, <3>3, <3>4, <3>5 DEF shInv, shTypeOK
  <2>2. CASE cli_len \notin Cells
    BY <1>5, <2>2, UndefinedSteps DEF TypeChar
  <2> QED  BY <2>1, <2>2
<1> QED  BY <1>3, <1>4, <1>5

\* parse_cli: the shell clears its line, or stops with interrupts masked.
LEMMA EnterSteps ==
  ASSUME shInv, Enter
  PROVE  shInv'
<1>1. bufInv /\ mode = "run" /\ rpc = "switch"
  BY DEF shInv, Enter
<1>2. CASE cli_len \notin Cells
  BY <1>2, UndefinedSteps DEF Enter
<1>3. CASE cli_len \in Cells
  <2> DEFINE stops == IsCommand(Terminated, HaltLine) \/ IsCommand(Terminated, GuiLine)
  <2>1. last' \in Seq(Keys)
    BY <1>3, TerminatedIsLine, LineIsSeq DEF Enter
  <2>2. /\ cli \in [Cells -> Keys \cup {NUL}]
        /\ Terminated \in [Cells -> Keys \cup {NUL}]
        /\ \A j \in 0 .. cli_len - 1 : Terminated[j] \in Keys \ Controls
    BY <1>3 DEF shInv, shTypeOK, Terminated, Cells
  <2>3. CASE stops
    <3>1. /\ mode' \in {"halted", "panic"} /\ iflag' = FALSE /\ cli' = Terminated
          /\ UNCHANGED <<fifo, flags, key, rpc, cli_len>>
      BY <1>3, <2>3 DEF Enter, fifo
    <3>2. bufTypeOK'
      BY <1>1, <3>1 DEF bufInv, bufTypeOK, fifo
    <3> QED  BY <2>1, <2>2, <3>1, <3>2 DEF shInv, shTypeOK
  <2>4. CASE ~stops
    <3>1. /\ cli' = [Terminated EXCEPT ![0] = NUL] /\ cli_len' = 0
          /\ Loop /\ mode' = mode
      BY <1>3, <2>4 DEF Enter
    <3>2. cli' \in [Cells -> Keys \cup {NUL}]
      BY <2>2, <3>1
    <3>3. bufInv' /\ bufTypeOK'
      BY <1>1, <3>1, LoopKeepsBuffer DEF bufInv
    <3>4. cli_len' \in 0 .. CliSize /\ \A j \in 0 .. cli_len' - 1 : FALSE
      BY <3>1, CliAssumption
    <3> QED  BY <1>1, <2>1, <3>1, <3>2, <3>3, <3>4 DEF shInv, shTypeOK
  <2> QED  BY <2>3, <2>4
<1> QED  BY <1>2, <1>3

\* One step of the handler or of the shell.
LEMMA ShellStepHolds == shInv /\ [shNext]_shVars => shInv'
<1> SUFFICES ASSUME shInv, [shNext]_shVars  PROVE shInv'
  OBVIOUS
<1>1. CASE UNCHANGED shVars
  <2>1. UNCHANGED <<buffer, in_ptr, out_ptr, arrival, iflag, flags, key, rpc, cli, cli_len,
                    mode, last>>
    BY <1>1 DEF shVars, bufVars, shell
  <2>2. bufTypeOK' = bufTypeOK /\ bufInv' = bufInv
    BY <2>1 DEF bufTypeOK, bufInv, MaskedIffLocked, Locked, InUse, fifo_empty
  <2> QED  BY <2>1, <2>2 DEF shInv, shTypeOK
<1>2. CASE ShellStep
  BY <1>2, EditSteps, EnterSteps DEF ShellStep
<1> QED  BY <1>1, <1>2, BufferSteps DEF shNext

\* shInv holds in every reachable state.
THEOREM ShellInvariant == shSpec => []shInv
BY ShellInit, ShellStepHolds, PTL DEF shSpec

\* The shell's types: an index of cli[] never leaves it while anything is
\* claimed of the program.
THEOREM ShellTypes == shSpec => []shTypeOK
<1>1. shInv => shTypeOK
  BY DEF shInv
<1> QED  BY <1>1, ShellInvariant, PTL

-----------------------------------------------------------------------------
(* The refinement.  The oldest key of Terminal is the one the shell has in *)
(* hand, if any, and the rest is in the ring.                              *)

Pending == InHand \o Contents

\* At most one key is in hand.
LEMMA HandIsSeq ==
  ASSUME shInv, mode = "run"
  PROVE  InHand \in Seq(Keys) /\ Len(InHand) \in 0 .. 1
BY DEF InHand, shInv, shTypeOK, bufTypeOK

\* With those in the ring they are a sequence of keys.
LEMMA PendingIsSeq ==
  ASSUME shInv, mode = "run"
  PROVE  /\ Pending \in Seq(Keys)
         /\ Len(Pending) = Len(InHand) + Count
         /\ Contents \in Seq(Keys) /\ Len(Contents) = Count /\ Count \in 0 .. Size - 1
BY ContentsIsSeq, HandIsSeq, ConcatProperties DEF Pending, shInv

\* A key that finds room waits behind the others; one that does not is dropped.
LEMMA InterruptIsTypeKey ==
  ASSUME shInv, shInv', NEW k \in Keys, Interrupt(k), mode = "run", UNCHANGED shell
  PROVE  [Term!Next]_(Term!vars)
<1>1. bufInv /\ bufInv' /\ UNCHANGED <<cli, cli_len, mode, last>>
  BY DEF shInv, shell
<1>2. InHand' = InHand
  BY <1>1 DEF InHand, Interrupt, reader
<1>3. Line' = Line
  BY <1>1 DEF Line
<1>0. /\ arrival' = [key |-> k, bit |-> 1 - arrival.bit]
      /\ Contents' = IF Len(Contents) < Size - 1 THEN Append(Contents, k) ELSE Contents
      /\ Len(Contents) = Count
  BY <1>1, InterruptIsPut, ContentsIsSeq DEF Queue!Put
<1>4. CASE ~(Count < Size - 1)
  <2>1. Pending' = Pending
    BY <1>0, <1>2, <1>4 DEF Pending
  <2>2. Len(Pending) >= Size - 1
    <3>1. /\ Count \in Int /\ Len(InHand) \in 0 .. 1 /\ Size \in Int
          /\ Len(Pending) = Len(InHand) + Count
      BY PendingIsSeq, HandIsSeq, SizeAssumption
    <3> QED  BY <1>4, <3>1
  <2>3. Term!TypeKey(k)
    BY <1>0, <1>1, <1>3, <2>1, <2>2 DEF Term!TypeKey, Pending
  <2> QED  BY <2>3 DEF Term!Next
<1>5. CASE Count < Size - 1
  <2>1. Count < Size - 1 /\ Contents' = Append(Contents, k)
    BY <1>0, <1>5
  <2>2. /\ Contents \in Seq(Keys) /\ InHand \in Seq(Keys) /\ Len(InHand) \in 0 .. 1
        /\ Count \in Nat /\ Pending \in Seq(Keys) /\ Len(Pending) = Len(InHand) + Count
    BY PendingIsSeq, HandIsSeq
  <2>3. Pending' = Append(Pending, k)
    BY <1>2, <2>1, <2>2, AppendProperties, ConcatProperties DEF Pending
  <2>4. Len(Pending) <= Size - 1
    <3>1. Count < Size - 1 /\ Count \in Int /\ Size \in Int
      BY <2>1, <2>2, SizeAssumption
    <3>2. Len(InHand) \in Int /\ Len(InHand) <= 1 /\ Len(Pending) = Len(InHand) + Count
      <4>1. \A n \in 0 .. 1 : n \in Int /\ n <= 1
        OBVIOUS
      <4> QED  BY <4>1, HandIsSeq, PendingIsSeq
    <3> QED  BY <3>1, <3>2
  <2>5. Term!TypeKey(k)
    BY <1>0, <1>1, <1>3, <2>3, <2>4 DEF Term!TypeKey, Pending
  <2> QED  BY <2>5 DEF Term!Next
<1> QED  BY <1>4, <1>5

\* GetTake moves the oldest key from the ring into the shell's hand, and no
\* other step of kbd_keys_available and kbd_get_key is seen.
LEMMA ReaderIsStutter ==
  ASSUME shInv, shInv', ReaderStep, mode = "run", UNCHANGED shell
  PROVE  UNCHANGED Term!vars
<1>1. bufInv /\ bufInv' /\ UNCHANGED <<cli, cli_len, mode, last>>
  BY DEF shInv, shell
<1>2. Line' = Line
  BY <1>1 DEF Line
<1>3. CASE GetTake
  <2>1. /\ Contents # <<>> /\ key' = Head(Contents) /\ Contents' = Tail(Contents)
        /\ arrival' = arrival
    BY <1>1, <1>3, GetTakeIsGet DEF Queue!Get
  <2>2. InHand = <<>> /\ InHand' = <<key'>>
    <3>1. rpc = "get_locked" /\ rpc' = "get_wrap" /\ key' # NUL
      BY <1>1, <1>3 DEF GetTake, bufInv, fifo_empty
    <3> QED  BY <1>1, <3>1 DEF InHand
  <2>3. Contents \in Seq(Keys)
    BY PendingIsSeq
  <2>4. <<>> \o Contents = <<Head(Contents)>> \o Tail(Contents)
    BY <2>1, <2>3, ConcatProperties, HeadTailProperties
  <2> QED  BY <1>1, <1>2, <2>1, <2>2, <2>4 DEF Term!vars
<1>4. CASE GetWrap
  <2>1. UNCHANGED <<Contents, key, arrival>>
    BY <1>1, <1>4, GetWrapIsStutter
  <2>2. InHand' = InHand
    BY <1>1, <1>4 DEF InHand, GetWrap
  <2> QED  BY <1>1, <1>2, <2>1, <2>2 DEF Term!vars
<1>5. CASE PollLock \/ PollTest \/ GetLock \/ GetUnlock
  <2>1. UNCHANGED <<buffer, in_ptr, out_ptr, arrival, key>>
    BY <1>5 DEF PollLock, PollTest, GetLock, GetUnlock, fifo
  <2>2. Contents' = Contents
    BY <2>1 DEF Contents, Count, SlotOf
  <2>3. InHand' = InHand
    BY <1>1, <1>5, <2>1 DEF InHand, PollLock, PollTest, GetLock, GetUnlock
  <2> QED  BY <1>1, <1>2, <2>1, <2>2, <2>3 DEF Term!vars
<1> QED  BY <1>3, <1>4, <1>5 DEF ReaderStep

\* When the shell acts on its key, that is the oldest, and the ring is left alone.
LEMMA ActsOnOldest ==
  ASSUME shInv, rpc = "switch", mode = "run",
         UNCHANGED <<buffer, in_ptr, out_ptr, arrival>>,
         mode' # "run" \/ rpc' = "poll"
  PROVE  Term!Take(key) /\ key \in Keys
<1>1. key \in Keys /\ InHand = <<key>>
  BY DEF shInv, bufInv, bufTypeOK, InHand
<1>2. InHand' = <<>>
  BY DEF InHand
<1>3. Contents' = Contents
  BY DEF Contents, Count, SlotOf
<1>4. Contents \in Seq(Keys)
  BY PendingIsSeq
<1>5. <<key>> \o Contents # <<>> /\ Head(<<key>> \o Contents) = key
      /\ Tail(<<key>> \o Contents) = <<>> \o Contents
  BY <1>1, <1>4, ConcatProperties, HeadTailProperties
<1> QED  BY <1>1, <1>2, <1>3, <1>5 DEF Term!Take

\* Characters, Backspace and Tab edit the line as Terminal says.
LEMMA EditIsTerm ==
  ASSUME shInv, IgnoreKey \/ Backspace \/ TypeChar
  PROVE  Term!Next
<1>1. mode = "run" /\ rpc = "switch" /\ key # NUL
  BY DEF IgnoreKey, Backspace, TypeChar, shInv, bufInv
<1>2. ASSUME Loop  PROVE Term!Take(key) /\ key \in Keys
  BY <1>1, <1>2, ActsOnOldest DEF Loop, fifo
<1>3. /\ Line \in Seq(Keys) /\ Len(Line) = cli_len /\ cli_len \in Nat
      /\ cli_len \in 0 .. CliSize /\ CliSize \in Nat
  BY LineIsSeq, CliAssumption DEF shInv, shTypeOK
<1>4. CASE IgnoreKey
  <2>1. key = "TAB" /\ Loop /\ UNCHANGED <<cli, cli_len, mode, last>>
    BY <1>1, <1>4 DEF IgnoreKey, shell
  <2>2. Line' = Line
    BY <2>1 DEF Line
  <2>3. Term!Skip
    BY <1>1, <1>2, <2>1, <2>2 DEF Term!Skip
  <2> QED  BY <2>3 DEF Term!Next
<1>5. CASE Backspace
  <2>1. /\ key = "BS" /\ Loop /\ UNCHANGED <<cli, mode, last>>
        /\ cli_len' = IF cli_len > 0 THEN cli_len - 1 ELSE cli_len
    BY <1>5 DEF Backspace
  <2>2. Line' = IF Line = <<>> THEN Line ELSE SubSeq(Line, 1, Len(Line) - 1)
    <3>1. CASE cli_len = 0
      BY <1>3, <2>1, <3>1 DEF Line
    <3>2. CASE cli_len > 0
      BY <1>3, <2>1, <3>2 DEF Line
    <3> QED  BY <1>3, <3>1, <3>2
  <2>3. Term!Erase
    BY <1>1, <1>2, <2>1, <2>2 DEF Term!Erase
  <2> QED  BY <2>3 DEF Term!Next
<1>6. CASE TypeChar
  <2>1. key \in Keys \ Term!Controls
    BY <1>6 DEF TypeChar, Term!Controls, Controls, shInv, shTypeOK, bufTypeOK
  <2>2. CASE cli_len \in Cells
    <3>1. /\ cli' = [cli EXCEPT ![cli_len] = key] /\ cli_len' = cli_len + 1
          /\ Loop /\ UNCHANGED <<mode, last>>
      BY <1>6, <2>2 DEF TypeChar
    <3>2. Line' = Append(Line, key)
      <4>1. \A j \in 0 .. cli_len : cli'[j] = IF j = cli_len THEN key ELSE cli[j]
        BY <1>3, <2>2, <3>1 DEF shInv, shTypeOK, Cells
      <4>2. Line' = [i \in 1 .. cli_len + 1 |-> IF i = cli_len + 1 THEN key ELSE cli[i - 1]]
        BY <1>3, <3>1, <4>1 DEF Line
      <4>3. Line' \in Seq(Keys) /\ Len(Line') = cli_len + 1
        <5>1. \A i \in 1 .. cli_len : cli[i - 1] \in Keys
          BY <1>3, LineIsSeq, ElementOfSeq
        <5>2. Line' \in [1 .. cli_len + 1 -> Keys]
          BY <1>3, <2>1, <4>2, <5>1
        <5> QED  BY <1>3, <5>2
      <4>4. /\ Append(Line, key) \in Seq(Keys) /\ Len(Append(Line, key)) = cli_len + 1
            /\ \A i \in 1 .. cli_len : Append(Line, key)[i] = cli[i - 1]
            /\ Append(Line, key)[cli_len + 1] = key
        BY <1>3, <2>1, LineIsSeq, AppendProperties
      <4>5. \A i \in 1 .. cli_len + 1 : Line'[i] = Append(Line, key)[i]
        BY <1>3, <4>2, <4>4
      <4> QED  BY <4>3, <4>4, <4>5, SeqEqual
    <3>3. Len(Line) < CliSize
      BY <1>3, <2>2 DEF Cells
    <3>4. Term!Insert
      BY <1>1, <1>2, <2>1, <3>1, <3>2, <3>3 DEF Term!Insert
    <3> QED  BY <3>4 DEF Term!Next
  <2>3. CASE cli_len \notin Cells
    <3>1. /\ mode' = "undefined" /\ UNCHANGED <<cli, cli_len, last>>
          /\ UNCHANGED <<buffer, in_ptr, out_ptr, arrival>>
      BY <1>6, <2>3 DEF TypeChar, Undefined, bufVars
    <3>2. Line' = Line /\ ~(Len(Line) < CliSize)
      BY <1>3, <2>3, <3>1 DEF Line, Cells
    <3>3. Term!Take(key)
      BY <1>1, <3>1, ActsOnOldest
    <3>4. Term!Insert
      BY <1>1, <2>1, <3>1, <3>2, <3>3 DEF Term!Insert
    <3> QED  BY <3>4 DEF Term!Next
  <2> QED  BY <2>2, <2>3
<1> QED  BY <1>4, <1>5, <1>6

\* Enter runs exactly the line as edited.
LEMMA EnterIsRunning ==
  ASSUME shInv, Enter
  PROVE  Term!Run
<1>1. mode = "run" /\ rpc = "switch" /\ key = "NL"
  BY DEF Enter
<1>2. /\ Line \in Seq(Keys) /\ Len(Line) = cli_len /\ cli_len \in Nat
      /\ cli_len \in 0 .. CliSize /\ CliSize \in Nat
  BY LineIsSeq, CliAssumption DEF shInv, shTypeOK
<1>3. CASE cli_len \notin Cells
  <2>1. /\ mode' = "undefined" /\ UNCHANGED <<cli, cli_len, last>>
        /\ UNCHANGED <<buffer, in_ptr, out_ptr, arrival>>
    BY <1>3 DEF Enter, Undefined, bufVars
  <2>2. Line' = Line /\ ~(Len(Line) < CliSize)
    BY <1>2, <1>3, <2>1 DEF Line, Cells
  <2>3. Term!Take("NL")
    BY <1>1, <2>1, ActsOnOldest
  <2> QED  BY <1>1, <2>1, <2>2, <2>3 DEF Term!Run
<1>4. CASE cli_len \in Cells
  <2>1. Len(Line) < CliSize /\ CString(Terminated) = Line /\ last' = Line
    BY <1>2, <1>4, TerminatedIsLine DEF Enter, Cells
  <2>2. /\ IsCommand(Terminated, HaltLine) <=> Line = HaltLine
        /\ IsCommand(Terminated, GuiLine) <=> Line = GuiLine
    BY <1>2, <2>1 DEF IsCommand
  <2>3. CASE Line \in {HaltLine, GuiLine}
    <3>1. /\ mode' \in {"halted", "panic"} /\ cli' = Terminated
          /\ UNCHANGED <<buffer, in_ptr, out_ptr, arrival, cli_len>>
      BY <1>4, <2>2, <2>3 DEF Enter, fifo
    <3>2. Line' = Line
      <4>1. \A j \in 0 .. cli_len - 1 : cli'[j] = cli[j]
        BY <1>2, <1>4, <3>1 DEF Terminated, shInv, shTypeOK, Cells
      <4> QED  BY <1>2, <3>1, <4>1 DEF Line
    <3>3. Term!Take("NL")
      BY <1>1, <3>1, ActsOnOldest
    <3> QED  BY <1>1, <2>1, <2>3, <3>1, <3>2, <3>3 DEF Term!Run
  <2>4. CASE Line \notin {HaltLine, GuiLine}
    <3>1. cli_len' = 0 /\ Loop /\ mode' = mode
      BY <1>4, <2>2, <2>4 DEF Enter
    <3>2. Line' = <<>>
      BY <3>1 DEF Line
    <3>3. Term!Take("NL")
      BY <1>1, <3>1, ActsOnOldest DEF Loop, fifo
    <3> QED  BY <1>1, <2>1, <2>4, <3>1, <3>2, <3>3 DEF Term!Run
  <2> QED  BY <2>3, <2>4
<1> QED  BY <1>3, <1>4

\* From the keyboard interrupt to the command: what parse_cli runs is what was
\* typed and not taken back, for every size of the buffer and of cli[].
THEOREM ShellRefinesTerminal == shSpec => RefinesTerminal
<1>1. shInit => Term!Init
  BY SizeAssumption
  DEF shInit, bufInit, fifo_init, Term!Init, InHand, Contents, Count, Line
<1>2. shInv /\ shInv' /\ [shNext]_shVars => [Term!Next]_(Term!vars)
  <2> SUFFICES ASSUME shInv, shInv', [shNext]_shVars
               PROVE  [Term!Next]_(Term!vars)
    OBVIOUS
  <2>1. CASE \E k \in Keys : Interrupt(k) /\ mode # "undefined" /\ UNCHANGED shell
    BY <2>1, BufferSteps, InterruptIsTypeKey
  <2>2. CASE ReaderStep /\ mode = "run" /\ UNCHANGED shell
    BY <2>2, ReaderIsStutter
  <2>3. CASE ShellStep
    BY <2>3, EditIsTerm, EnterIsRunning DEF ShellStep, Term!Next
  <2>4. CASE UNCHANGED shVars
    BY <2>4 DEF shVars, bufVars, shell, Term!vars, InHand, Contents, Count, SlotOf, Line
  <2> QED  BY <2>1, <2>2, <2>3, <2>4 DEF shNext
<1> QED  BY <1>1, <1>2, ShellInvariant, PTL DEF shSpec, RefinesTerminal, Term!Spec
=============================================================================
