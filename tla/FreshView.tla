------------------------------ MODULE FreshView ------------------------------
(***************************************************************************)
(* What the list of systems promises about the devices of the machine, in  *)
(* terms of versions only: every change gives the devices a new version,   *)
(* the window shows some version that existed, never an older one after a  *)
(* newer one, and as long as it is told of changes it catches up.          *)
(***************************************************************************)
EXTENDS Naturals

VARIABLES
  source,  \* the version of the devices
  shown,   \* the version the window shows
  told     \* the window is running, is told of changes and can ask about them

vars == <<source, shown, told>>

Init ==
  /\ source = 0
  /\ shown = 0
  /\ told \in BOOLEAN

Change ==
  /\ source' = source + 1
  /\ UNCHANGED <<shown, told>>

\* The window shows what existed at some moment since its last display.
Show ==
  /\ shown' \in shown..source
  /\ UNCHANGED <<source, told>>

Stop ==
  /\ told' = FALSE
  /\ UNCHANGED <<source, shown>>

Next == Change \/ Show \/ Stop

CatchUp ==
  /\ told
  /\ shown # source
  /\ shown' = source
  /\ UNCHANGED <<source, told>>

Spec == Init /\ [][Next]_vars /\ WF_vars(CatchUp)
=============================================================================
