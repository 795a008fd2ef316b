------------------------------ MODULE Terminal ------------------------------
(***************************************************************************)
(* What keyboard and shell together promise to the person typing: keys are *)
(* edited into the command line in the order they were typed, Backspace    *)
(* takes back the last character, Enter runs exactly the line as edited,   *)
(* and a key is lost only while Room others wait.                          *)
(***************************************************************************)
EXTENDS Naturals, Sequences

CONSTANTS
  Keys,       \* the keys that can be typed
  Room,       \* keys that can wait while the shell is busy
  LineSize,   \* characters the command line holds
  StopLines   \* command lines after which the shell does not come back

VARIABLES
  arrival,    \* the key typed last, and a bit that turns at each
  pending,    \* keys typed and not yet acted on, oldest first
  line,       \* the command line as edited so far
  last,       \* the command line that was run last
  mode        \* "run", "stopped", or "undefined" after an overlong line

vars == <<arrival, pending, line, last, mode>>

Controls == {"BS", "NL", "TAB"}

Init ==
  /\ arrival.bit = 0
  /\ pending = <<>>
  /\ line = <<>>
  /\ last = <<>>
  /\ mode = "run"

\* One key more than Room may wait: the one the shell has in hand.
TypeKey(k) ==
  /\ arrival' = [key |-> k, bit |-> 1 - arrival.bit]
  /\ \/ Len(pending) <= Room /\ pending' = Append(pending, k)
     \/ Len(pending) >= Room /\ pending' = pending
  /\ UNCHANGED <<line, last, mode>>

\* The oldest waiting key is k, and it is acted on.
Take(k) ==
  /\ pending # <<>> /\ Head(pending) = k
  /\ pending' = Tail(pending)
  /\ UNCHANGED arrival

Insert ==
  /\ mode = "run"
  /\ \E c \in Keys \ Controls :
       /\ Take(c)
       /\ IF Len(line) < LineSize
          THEN line' = Append(line, c) /\ UNCHANGED mode
          ELSE line' = line /\ mode' = "undefined"
  /\ UNCHANGED last

Erase ==
  /\ mode = "run"
  /\ Take("BS")
  /\ line' = IF line = <<>> THEN line ELSE SubSeq(line, 1, Len(line) - 1)
  /\ UNCHANGED <<last, mode>>

Skip ==
  /\ mode = "run"
  /\ Take("TAB")
  /\ UNCHANGED <<line, last, mode>>

Run ==
  /\ mode = "run"
  /\ Take("NL")
  /\ IF Len(line) < LineSize
     THEN /\ last' = line
          /\ line' = IF line \in StopLines THEN line ELSE <<>>
          /\ mode' = IF line \in StopLines THEN "stopped" ELSE "run"
     ELSE mode' = "undefined" /\ UNCHANGED <<line, last>>

Next ==
  \/ \E k \in Keys : TypeKey(k)
  \/ Insert \/ Erase \/ Skip \/ Run

Spec == Init /\ [][Next]_vars
=============================================================================
