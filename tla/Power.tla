-------------------------------- MODULE Power --------------------------------
(***************************************************************************)
(* The reboot on Linux (crates/bootsel-platform/src/linux/power.rs).  The  *)
(* program has a list of commands that may restart the machine. It starts *)
(* the first, waits for it with a deadline, and, because an accepted       *)
(* command proves nothing, then watches for a while whether the machine    *)
(* goes down.  If it is still there, the next command is tried.            *)
(*                                                                         *)
(* When a command fails, the program reads what it wrote on its standard   *)
(* error up to the end.  The end comes when the last process that holds    *)
(* the other side of the pipe is gone, and no deadline bounds the read.    *)
(*                                                                         *)
(* Time passes in ticks.  A deadline that has come is acted on before the  *)
(* next tick: the loops of the code poll many times in a tick.  The        *)
(* machine, the commands and the user act between two ticks as they like.  *)
(***************************************************************************)
EXTENDS Naturals, Sequences

CONSTANTS
  CommandDelay,      \* ticks given to a command that asks the user nothing
  PromptDelay,       \* ticks given to a command that asks for a password
  ObservationDelay,  \* ticks the machine has to go down once asked
  ShutdownDelays,    \* ticks the machine may really take to go down
  Never              \* no shutdown was asked for

ASSUME PowerAssumption ==
  /\ {CommandDelay, PromptDelay, ObservationDelay} \subseteq Nat
  /\ ShutdownDelays \subseteq Nat /\ Never \notin Nat

Command == {"systemctl", "dbus-send", "shutdown", "pkexec"}

VARIABLES
  host,      \* what is installed, whether systemd is PID 1, who runs this
  todo,      \* the methods left to try, the current one first
  phase,     \* "next", "wait" for the command, read its "stderr", "observe",
             \* or "failed"
  ticks,     \* ticks before the deadline of the phase
  child,     \* the command being waited for: "none", "prompt" or "running"
  leftover,  \* a command given up may still restart the machine
  left,      \* ticks before the machine is down, or Never
  waited,    \* ticks since the reboot was asked for, without those of "stderr"
  due        \* ticks the machine had left when a method first reported success

powerVars == <<host, todo, phase, ticks, child, leftover, left, waited, due>>

-----------------------------------------------------------------------------

\* A command is used only where it can work: systemctl under systemd,
\* shutdown as root, and shutdown through pkexec when both are there.
Usable(m) ==
  CASE m = "systemctl" -> host.systemd /\ m \in host.installed
    [] m = "dbus-send" -> m \in host.installed
    [] m = "shutdown" -> host.root /\ m \in host.installed
    [] m = "pkexec" -> {m, "shutdown"} \subseteq host.installed

IfUsable(m) == IF Usable(m) THEN <<m>> ELSE << >>

\* From the cleanest to the roughest.
Methods == IfUsable("systemctl") \o IfUsable("dbus-send") \o IfUsable("shutdown")
             \o IfUsable("pkexec")

Delay(m) == IF m = "pkexec" THEN PromptDelay ELSE CommandDelay

PowerInit ==
  /\ host \in [systemd : BOOLEAN, root : BOOLEAN, installed : SUBSET Command]
  /\ todo = Methods
  /\ phase = "next" /\ ticks = 0 /\ child = "none"
  /\ leftover = FALSE /\ left = Never /\ waited = 0 /\ due = Never

-----------------------------------------------------------------------------

\* The program.

\* The current method is given up and the next one comes up.
GiveUp == phase' = "next" /\ todo' = Tail(todo) /\ ticks' = 0 /\ child' = "none"

Spawn ==
  /\ phase = "next" /\ todo # << >>
  /\ phase' = "wait" /\ ticks' = Delay(Head(todo))
  /\ child' = IF Head(todo) = "pkexec" THEN "prompt" ELSE "running"
  /\ UNCHANGED <<host, todo, leftover, left, waited, due>>

SpawnFails ==
  /\ phase = "next" /\ todo # << >>
  /\ GiveUp
  /\ UNCHANGED <<host, leftover, left, waited, due>>

\* MUTANT: a method that reports success is believed for one tick only.
BelievedAtOnce == 1

\* Ticks the machine is watched for once a command has reported success.
Watch == ObservationDelay

\* The command exited with code 0, whether or not it did anything.
Succeeded ==
  /\ phase = "wait" /\ child = "running"
  /\ phase' = "observe" /\ ticks' = Watch /\ child' = "none"
  /\ due' = IF due = Never THEN left ELSE due
  /\ UNCHANGED <<host, todo, leftover, left, waited>>

\* The command failed, or the user dismissed the request for a password.  A
\* process that the command has left behind may still act.
Refused ==
  /\ phase = "wait"
  /\ phase' = "stderr" /\ ticks' = 0 /\ child' = "none"
  /\ leftover' \in {leftover, leftover \/ child = "running"}
  /\ UNCHANGED <<host, todo, left, waited, due>>

\* The end of its standard error: the method is given up.
StderrEnds ==
  /\ phase = "stderr"
  /\ GiveUp
  /\ UNCHANGED <<host, leftover, left, waited, due>>

\* The deadline: the command is killed.  What it has already sent, and a
\* command that pkexec runs as root and that cannot be killed, live on.
Killed ==
  /\ phase = "wait" /\ ticks = 0
  /\ GiveUp
  /\ leftover' = (leftover \/ child = "running")
  /\ UNCHANGED <<host, left, waited, due>>

\* The machine is still there.
NoEffect ==
  /\ phase = "observe" /\ ticks = 0
  /\ GiveUp
  /\ UNCHANGED <<host, leftover, left, waited, due>>

\* No method is left: the error goes back to the interface.
AllRefused ==
  /\ phase = "next" /\ todo = << >>
  /\ phase' = "failed"
  /\ UNCHANGED <<host, todo, ticks, child, leftover, left, waited, due>>

-----------------------------------------------------------------------------

\* The user, the commands and the machine.

Authenticated ==
  /\ child = "prompt"
  /\ child' = "running"
  /\ UNCHANGED <<host, todo, phase, ticks, leftover, left, waited, due>>

\* A command, even one given up, makes the machine go down.
GoesDown ==
  /\ child = "running" \/ leftover
  /\ left = Never
  /\ left' \in ShutdownDelays
  /\ UNCHANGED <<host, todo, phase, ticks, child, leftover, waited, due>>

\* MUTANT: the deadline is taken anew every time the command is polled.
DeadlineRenewed == IF phase = "wait" THEN Delay(Head(todo)) ELSE ticks - 1

\* The deadline of a phase is fixed when the phase begins.
TicksLeft == ticks - 1

Tick ==
  /\ left # 0
  /\ \/ /\ phase \in {"wait", "observe"} /\ ticks > 0
        /\ ticks' = TicksLeft
        /\ waited' = waited + 1
     \/ /\ phase = "stderr"
        /\ UNCHANGED <<ticks, waited>>
  /\ left' = IF left = Never THEN Never ELSE left - 1
  /\ UNCHANGED <<host, todo, phase, child, leftover, due>>

PowerNext ==
  \/ Spawn \/ SpawnFails \/ Succeeded \/ Refused \/ StderrEnds \/ Killed
  \/ NoEffect \/ AllRefused \/ Authenticated \/ GoesDown \/ Tick

-----------------------------------------------------------------------------

\* Waiting for the commands and watching the machine take, all methods
\* together, no more than the deadlines of the methods this machine has,
\* whatever the commands do and however long the user looks at the request for
\* a password.  The lock of the application is held all that time, and beyond
\* it while the standard error of a command that failed stays open.
DeadlinesBoundTheWaits ==
  LET Longest(m) == IF Usable(m) THEN Delay(m) + ObservationDelay ELSE 0
  IN  waited <= Longest("systemctl") + Longest("dbus-send") + Longest("shutdown")
                  + Longest("pkexec")

\* A method that reported success while the machine was going down, and fast
\* enough for the observation to see it, is the last one tried: no second
\* restart is asked for and no failure is reported while the machine leaves.
\* (A machine slower than the observation does get both.)
NoMethodAfterOneThatWorks ==
  phase \in {"next", "wait", "stderr", "failed"} /\ due # Never => due >= ObservationDelay

=============================================================================
