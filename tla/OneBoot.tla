------------------------------- MODULE OneBoot -------------------------------
(***************************************************************************)
(* What choosing a system for the next boot promises, in terms of the      *)
(* machine and of what the user is told only.  Anybody may change what the *)
(* firmware boots next, also while the program looks.  The program         *)
(* restarts the machine only in a selection in which it looked into the    *)
(* firmware and made sure that the next boot goes to the system asked for. *)
(* That is so unless the firmware changed while it looked; it remains so   *)
(* until the firmware changes again; and the system is booted once.        *)
(***************************************************************************)
CONSTANTS
  System,  \* the systems that can be asked for
  Nobody   \* no system

VARIABLES
  goes,    \* the system the firmware boots next, if it was told one
  asked,   \* the system the selection in progress is about
  calm,    \* the firmware has not changed since the program began to look
  says,    \* the system that is booted next, as far as the program's word holds
  sure,    \* the program made sure of it in this selection
  stopping \* the machine has been asked to restart

vars == <<goes, asked, calm, says, sure, stopping>>

Init ==
  /\ goes \in System \cup {Nobody}
  /\ asked = Nobody /\ says = Nobody
  /\ calm = FALSE /\ sure = FALSE /\ stopping = FALSE

\* A selection begins.
Ask ==
  /\ asked = Nobody
  /\ asked' \in System
  /\ says' = Nobody
  /\ UNCHANGED <<goes, calm, sure, stopping>>

\* The program begins to look what the firmware boots next.
Look ==
  /\ asked \in System
  /\ calm' = TRUE
  /\ UNCHANGED <<goes, asked, says, sure, stopping>>

\* The firmware changes, by the program or by anything else.
Change ==
  /\ goes' \in System \cup {Nobody}
  /\ says' = Nobody
  /\ calm' = FALSE
  /\ UNCHANGED <<asked, sure, stopping>>

MakeSure ==
  /\ asked \in System
  /\ calm => goes = asked
  /\ says' = IF calm THEN asked ELSE Nobody
  /\ sure' = TRUE
  /\ calm' = FALSE
  /\ UNCHANGED <<goes, asked, stopping>>

Restart ==
  /\ sure
  /\ stopping' = TRUE
  /\ UNCHANGED <<goes, asked, calm, says, sure>>

\* The selection ends; what it said may still hold.
End ==
  /\ asked' = Nobody
  /\ says' \in {says, Nobody}
  /\ calm' = FALSE /\ sure' = FALSE
  /\ UNCHANGED <<goes, stopping>>

\* The machine starts: whatever was booted next is so only once.
Boot ==
  /\ goes' = Nobody /\ asked' = Nobody /\ says' = Nobody
  /\ calm' = FALSE /\ sure' = FALSE /\ stopping' = FALSE

Next == Ask \/ Look \/ Change \/ MakeSure \/ Restart \/ End \/ Boot

Spec == Init /\ [][Next]_vars
=============================================================================
