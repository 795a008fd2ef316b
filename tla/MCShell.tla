------------------------------ MODULE MCShell ------------------------------
(***************************************************************************)
(* The shell with a two-key buffer and a command line of three characters. *)
(***************************************************************************)
EXTENDS Shell

MCKeys == {"h", "x", "BS", "NL", "TAB"}
MCHaltLine == <<"h">>
MCGuiLine == <<"x", "h">>
=============================================================================
