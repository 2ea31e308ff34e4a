----------------------------- MODULE MCSafeMode -----------------------------
(***************************************************************************)
(* Safe Mode: the hand-off of a configuration to the main OS ("handoff")   *)
(* and the terminal's keyboard ("terminal").  They are two programs, each  *)
(* with the machine to itself; a behaviour works on one.                   *)
(*                                                                         *)
(* A row of three cells holds a `set` and a number of two cells, or fills  *)
(* up before.  With 16 for the largest u32 and f32, 17 overflows by        *)
(* addition and 110 by multiplication, .11 is a finite fraction over an    *)
(* infinite scale and .17 an infinite one.                                 *)
(***************************************************************************)
EXTENDS SafeModeHandoff

CONSTANTS Part, LINE_MAX, U32_MAX, F32_MAX

VARIABLES part, line, screen, config

Text == [b \in {"set window ", "set soft ", "reset", "0", "1", "7", "11", ".1", ".", "-", " "} |->
           CASE b = "set window " -> <<"set", " ", "window", " ">>
             [] b = "set soft "   -> <<"set", " ", "soft", " ">>
             [] b = "11"          -> <<"1", "1">>
             [] b = ".1"          -> <<".", "1">>
             [] OTHER             -> <<b>>]

Terminal == INSTANCE SafeModeTerminal

terminalVars == <<line, screen, config>>

SafeModeInit ==
    /\ part \in Part /\ Init /\ Terminal!Init
    /\ part = "terminal" => page = ColdPage

SafeModeNext ==
    \/ part = "handoff" /\ Next /\ UNCHANGED <<part, terminalVars>>
    \/ part = "terminal" /\ Terminal!Next /\ UNCHANGED <<part, vars>>

SafeModeSpec ==
    /\ SafeModeInit /\ [][SafeModeNext]_<<part, vars, terminalVars>>
    /\ WF_vars(part = "handoff" /\ BootStep /\ UNCHANGED <<part, terminalVars>>)
    /\ WF_vars(part = "handoff" /\ SaveStored /\ UNCHANGED <<part, terminalVars>>)

\* See SafeModeTerminal: Enter stores the number that stands on the screen.
TypedIsStored == Terminal!TypedIsStored
=============================================================================
