---------------------------- MODULE WindowsSession ----------------------------
(***************************************************************************)
(* The application on Windows: one helper per session, elevated by a UAC   *)
(* prompt, connected by a named pipe and greeted before anything else,     *)
(* through which the interface also reads the firmware.                    *)
(*                                                                         *)
(* Each process may end at any moment, the other finds the pipe closed.  A *)
(* snapshot takes two steps, because the helper reads the variables one by *)
(* one: first the global ones, then the entries.  The firmware is a UEFI.  *)
(*                                                                         *)
(* Until a helper is connected the interface reads the firmware itself, if *)
(* its process is elevated, and writes nothing.                            *)
(***************************************************************************)
EXTENDS Guard, Detect, Firmware

CONSTANTS
  Helper,          \* slots for helper processes
  None,            \* null value of the optional variables
  PROTOCOL_VERSION,\* the version the interface speaks
  Versions,        \* the versions an installed helper may speak
  ProbeLimit,      \* PROBE_LIMIT: entries below it are read even if unlisted
  Inventories,     \* the possible results of list_devices, {} for a failure
  Behaviours,      \* behaviours of the firmware (module Firmware)
  InitialStates,   \* contents of the firmware when the machine starts
  OrderEdits,      \* values other tools may give to BootOrder
  MaxEdits         \* bound on the number of changes other tools make

ASSUME WindowsAssumption ==
  /\ None \notin Helper \cup BootId /\ None \notin {"hello", "read", "boot"}
  /\ ProbeLimit \in Nat
  /\ Inventories \subseteq SUBSET Partition
  /\ \A s \in InitialStates : IsState(s)
  /\ OrderEdits \subseteq OrderValue
  /\ MaxEdits \in Nat

VARIABLES
  \* --- the machine
  nvram,     \* the boot variables of the firmware
  edits,     \* changes made so far by other tools
  \* --- the interface
  readOnly,  \* --dry-run
  pc,        \* where the command that holds the AppState mutex stands
  launching, \* the helper that launch_helper waits for
  channel,   \* the helper of ElevatedWindowsBackend; None: the local backend
  elevated,  \* Inner::elevated
  plan,      \* the stable identifier of the open confirmation dialog
  wanted,    \* the stable identifier the command is about
  target,    \* the Boot#### it was resolved to
  before,    \* the snapshot it was resolved in
  after,     \* the snapshot the guard accepted
  reply,     \* what the user was last told
  \* --- the helpers
  helper,
  \* --- history, read by properties only
  touched,   \* the current command changed the firmware
  verified,  \* the guard accepted the last selection,
  quiet      \* and nobody changed the firmware since the guard's read began

machineVars == <<nvram, edits>>

planVars == <<plan, wanted, target, before, after>>

sessionVars == <<readOnly, launching, channel, elevated>>

uiVars == <<sessionVars, pc, planVars, reply>>

history == <<touched, verified, quiet>>

vars == <<machineVars, uiVars, helper, history>>

-----------------------------------------------------------------------------
(* Data                                                                    *)

StableIds == {StableId(o) : o \in LoadOption}

\* privileged: enable_privilege, evaluated once per process.
FreeHelper == [pc |-> "free", version |-> None, privileged |-> FALSE,
               op |-> None, id |-> None, globals |-> None, before |-> None,
               answer |-> None]

\* "promise" is an error followed by "Aucune modification n'a ete effectuee".
Replies == {"none", "error", "promise", "programmed", "rebootFailed"}

\* MUTANT: a refusal, the one of the helper's guard included, is taken for a
\* write that did not happen.
RefusalPromises(answer) ==
  IF answer \in {"PrivilegeRequired", "NotUefi", "EntryNotFound", "WriteRefused",
                 "GuardViolation"}
  THEN "promise" ELSE "error"

\* translate and guarantees_no_write: what the user is told of an answer.  A
\* closed pipe is an input-output error.
ReplyTo(answer) ==
  IF answer \in {"PrivilegeRequired", "NotUefi", "EntryNotFound"}
  THEN "promise" ELSE "error"

\* How a read may fail in helper h: enable_privilege remembers its result for
\* the whole process, classify looks at the error of each call.
ReadFailures(h) ==
  IF helper[h].privileged THEN {"Internal", "PrivilegeRequired", "NotUefi"}
  ELSE {"Internal", "PrivilegeRequired"}

\* The variables a snapshot covers: an entry that BootOrder does not name is
\* looked for only below the limit.
Covered(order, v) ==
  \/ v \in {BootOrder, BootNext}
  \/ v \in BootId /\ v < ProbeLimit
  \/ order \in Seq(BootId) /\ Occurs(v, order)

Globals == [order |-> nvram[BootOrder], next |-> nvram[BootNext]]

\* The snapshot that ends now, whose global variables were read earlier.
Snapshot(globals) ==
  [v \in Var |-> IF v = BootOrder THEN globals.order
                 ELSE IF v = BootNext THEN globals.next
                 ELSE IF Covered(globals.order, v) THEN nvram[v] ELSE Absent]

Attached(h) == h \in {channel, launching}

-----------------------------------------------------------------------------
(* The interface: starting the helper                                      *)

\* The command ends, releases the mutex and tells the user something.
Finish(told) ==
  /\ pc' = "idle"
  /\ reply' = told

\* A command begins: what the history says of the last one is forgotten.
NewCommand == touched' = FALSE /\ verified' = FALSE /\ quiet' = FALSE

\* AppState::new, with --no-elevate or if the helper is missing.
StartLocally ==
  /\ pc = "start"
  /\ Finish("none")
  /\ UNCHANGED <<machineVars, sessionVars, planVars, helper, history>>

\* AppState::new, or request_elevation unless elevate returns early: create_pipe,
\* then the UAC prompt.
LaunchHelper ==
  /\ pc \in {"start", "idle"}
  /\ ~elevated
  /\ pc' = "prompt"
  /\ reply' = "none"
  /\ NewCommand
  /\ UNCHANGED <<machineVars, sessionVars, planVars, helper>>

\* The prompt is declined, which the user reads as a promise, or the process
\* cannot be created: the backend stays what it was.
PromptDeclined ==
  /\ pc = "prompt"
  /\ \E told \in {"promise", "error"} : Finish(told)
  /\ UNCHANGED <<machineVars, sessionVars, planVars, helper, history>>

\* spawn_elevated succeeds; wait_for_connection begins.
PromptAccepted(h) ==
  /\ pc = "prompt"
  /\ helper[h] = FreeHelper
  /\ \E version \in Versions, privileged \in BOOLEAN :
       helper' = [helper EXCEPT ![h] = [FreeHelper EXCEPT
         !.pc = "started", !.version = version, !.privileged = privileged]]
  /\ launching' = h
  /\ pc' = "connect"
  /\ UNCHANGED <<machineVars, readOnly, channel, elevated, planVars, reply,
                 history>>

\* exchange: the request is written to the pipe; if the helper is gone, the
\* write or the read that follows fails.
Asked(h, op, id) ==
  [helper EXCEPT ![h] = IF @.pc \in {"serving", "answered"}
                        THEN [@ EXCEPT !.pc = "run", !.op = op, !.id = id,
                                       !.globals = None, !.before = None,
                                       !.answer = None]
                        ELSE @]

\* The helper waits for the next request, or has gone.
Released(h) ==
  [helper EXCEPT ![h] =
     IF @.pc = "gone" THEN @
     ELSE [FreeHelper EXCEPT !.pc = "serving", !.version = helper[h].version,
                             !.privileged = helper[h].privileged]]

\* ConnectNamedPipe returns: the helper opened the pipe, before or during the
\* call.  The handshake begins.  (No other outcome ends the call.)
Connected ==
  /\ pc = "connect"
  /\ helper[launching].pc \in {"serving", "gone"}
  /\ pc' = "hello"
  /\ helper' = Asked(launching, "hello", None)
  /\ UNCHANGED <<machineVars, sessionVars, planVars, reply, history>>

\* MUTANT: the end of the pipe is not noticed.
AnswersOnly(h) == helper[h].pc = "answered"

\* exchange returns.
HasAnswered(h) == helper[h].pc \in {"answered", "gone"}

\* The answer of helper h, or "Broken" if it closed the pipe without one.
AnswerOf(h) == IF helper[h].pc = "gone" THEN "Broken" ELSE helper[h].answer

\* MUTANT: any answer to the greeting is taken for a greeting.
AnyGreeting(answer, version) == answer # "Broken"

\* handshake: the answer is a greeting in the version of the interface.
GoodGreeting(answer, version) == answer = "Hello" /\ version = PROTOCOL_VERSION

HandshakeSucceeds ==
  /\ pc = "hello"
  /\ HasAnswered(launching)
  /\ GoodGreeting(AnswerOf(launching), helper[launching].version)
  /\ channel' = launching
  /\ launching' = None
  /\ elevated' = TRUE
  /\ helper' = Released(launching)
  /\ Finish("none")
  /\ UNCHANGED <<machineVars, readOnly, planVars, history>>

\* The channel is dropped, which closes the pipe.
HandshakeFails ==
  /\ pc = "hello"
  /\ HasAnswered(launching)
  /\ ~GoodGreeting(AnswerOf(launching), helper[launching].version)
  /\ launching' = None
  /\ helper' = [helper EXCEPT ![launching] =
       IF @.pc = "gone" THEN FreeHelper ELSE Released(launching)[launching]]
  /\ Finish("error")
  /\ UNCHANGED <<machineVars, readOnly, channel, elevated, planVars, history>>

-----------------------------------------------------------------------------
(* The interface: commands on the channel                                  *)

\* prepare_selection asks for a snapshot; so does refresh, which then only
\* shows it.
Prepare(sid) ==
  /\ pc = "idle"
  /\ channel # None
  /\ pc' = "prepare"
  /\ helper' = Asked(channel, "read", None)
  /\ wanted' = sid
  /\ target' = None /\ before' = None /\ after' = None /\ plan' = None
  /\ reply' = "none"
  /\ NewCommand
  /\ UNCHANGED <<machineVars, sessionVars>>

\* The entry i of snapshot s that sid designates, if it may be selected.
Resolves(s, sid, devices, i) == Found(s, sid, i) /\ Selectable(s[i], devices)

\* No entry of s does, with some result of list_devices.
NoneResolves(s, sid) ==
  \E devices \in Inventories : ~\E i \in BootId : Resolves(s, sid, devices, i)

PrepareEnds ==
  /\ pc = "prepare"
  /\ HasAnswered(channel)
  /\ \/ /\ AnswerOf(channel) = "State"
        /\ \E devices \in Inventories, i \in BootId :
             Resolves(helper[channel].before, wanted, devices, i)
        /\ plan' = wanted
        /\ Finish("none")
     \/ /\ AnswerOf(channel) = "State" =>
             NoneResolves(helper[channel].before, wanted)
        /\ plan' = None
        /\ Finish("error")
  /\ helper' = Released(channel)
  /\ wanted' = None
  /\ UNCHANGED <<machineVars, sessionVars, target, before, after, history>>

\* read_state of the interface's own process: no snapshot if the process is not
\* elevated or the firmware is not readable.  Read at once here, since all it
\* decides is whether a dialog opens: this backend writes nothing.
LocalReads == {Snapshot(Globals), None}

\* prepare_selection before a helper is connected, or without one.
PrepareLocally(sid) ==
  /\ pc = "idle"
  /\ channel = None
  /\ \E s \in LocalReads :
       \/ /\ s # None
          /\ \E devices \in Inventories, i \in BootId : Resolves(s, sid, devices, i)
          /\ plan' = sid
          /\ Finish("none")
       \/ /\ s # None => NoneResolves(s, sid)
          /\ plan' = None
          /\ Finish("error")
  /\ wanted' = None /\ target' = None /\ before' = None /\ after' = None
  /\ NewCommand
  /\ UNCHANGED <<machineVars, sessionVars, helper>>

\* commit_selection there: WindowsBootBackend refuses the write, for want of the
\* privilege, if the target is not refused before it or the read has not failed.
ConfirmLocally ==
  /\ pc = "idle"
  /\ channel = None
  /\ plan # None
  /\ ~readOnly
  /\ plan' = None
  /\ \E told \in {"promise", "error"} : Finish(told)
  /\ NewCommand
  /\ UNCHANGED <<machineVars, sessionVars, wanted, target, before, after,
                 helper>>

\* The dialog is closed without confirmation.
CancelSelection ==
  /\ pc = "idle"
  /\ plan # None
  /\ plan' = None
  /\ UNCHANGED <<machineVars, sessionVars, pc, wanted, target, before, after,
                 reply, helper, history>>

\* Step 1 of commit_selection: a backend in read-only mode goes no further.
ConfirmReadOnly ==
  /\ pc = "idle"
  /\ plan # None
  /\ readOnly
  /\ plan' = None
  /\ Finish("promise")
  /\ NewCommand
  /\ UNCHANGED <<machineVars, sessionVars, wanted, target, before, after,
                 helper>>

\* Step 3 of commit_selection asks for a snapshot.
Confirm ==
  /\ pc = "idle"
  /\ channel # None
  /\ plan # None
  /\ ~readOnly
  /\ pc' = "before"
  /\ wanted' = plan
  /\ plan' = None
  /\ helper' = Asked(channel, "read", None)
  /\ reply' = "none"
  /\ NewCommand
  /\ UNCHANGED <<machineVars, sessionVars, target, before, after>>

\* Steps 4 to 7: the target is resolved and the write requested.
Resolved ==
  /\ pc = "before"
  /\ HasAnswered(channel)
  /\ AnswerOf(channel) = "State"
  /\ \E devices \in Inventories, i \in BootId :
       /\ Resolves(helper[channel].before, wanted, devices, i)
       /\ target' = i
       /\ helper' = Asked(channel, "boot", i)
  /\ before' = helper[channel].before
  /\ pc' = "write"
  /\ UNCHANGED <<machineVars, sessionVars, plan, wanted, after, reply, touched,
                 verified, quiet>>

\* The target vanished or may not be selected: all guarantee that nothing was
\* written.  Or the snapshot could not be read.
NotResolved ==
  /\ pc = "before"
  /\ HasAnswered(channel)
  /\ \/ /\ AnswerOf(channel) = "State"
        /\ NoneResolves(helper[channel].before, wanted)
        /\ Finish("promise")
     \/ /\ AnswerOf(channel) # "State"
        /\ Finish(ReplyTo(AnswerOf(channel)))
  /\ helper' = Released(channel)
  /\ UNCHANGED <<machineVars, sessionVars, planVars, history>>

\* set_boot_next succeeds; step 8 asks for the second snapshot.
Written ==
  /\ pc = "write"
  /\ HasAnswered(channel)
  /\ AnswerOf(channel) = "Written"
  /\ helper' = Asked(channel, "read", None)
  /\ pc' = "after"
  /\ UNCHANGED <<machineVars, sessionVars, planVars, reply, history>>

NotWritten ==
  /\ pc = "write"
  /\ HasAnswered(channel)
  /\ AnswerOf(channel) # "Written"
  /\ Finish(ReplyTo(AnswerOf(channel)))
  /\ helper' = Released(channel)
  /\ UNCHANGED <<machineVars, sessionVars, planVars, history>>

\* MUTANT: the helper's own verdict is trusted.
HelperTrusted(s) == TRUE

GuardAccepts(s) == VerifyOnlyBootNextChanged(before, s, target) = "Ok"

Verified ==
  /\ pc = "after"
  /\ HasAnswered(channel)
  /\ AnswerOf(channel) = "State"
  /\ GuardAccepts(helper[channel].before)
  /\ after' = helper[channel].before
  /\ helper' = Released(channel)
  /\ pc' = "reboot"
  /\ verified' = TRUE
  /\ UNCHANGED <<machineVars, sessionVars, plan, wanted, target, before, reply,
                 touched, quiet>>

NotVerified ==
  /\ pc = "after"
  /\ HasAnswered(channel)
  /\ \/ /\ AnswerOf(channel) = "State"
        /\ ~GuardAccepts(helper[channel].before)
        /\ Finish("error")
     \/ /\ AnswerOf(channel) # "State"
        /\ Finish(ReplyTo(AnswerOf(channel)))
  /\ helper' = Released(channel)
  /\ UNCHANGED <<machineVars, sessionVars, planVars, history>>

\* power::reboot: ExitWindowsEx is accepted, which does not mean that Windows
\* stops, or refused.  Both times the user is told that BootNext is set.
Reboot ==
  /\ pc = "reboot"
  /\ \E told \in {"programmed", "rebootFailed"} : Finish(told)
  /\ UNCHANGED <<machineVars, sessionVars, planVars, helper, history>>

-----------------------------------------------------------------------------
(* The helper                                                              *)

\* MUTANT: the next snapshot starts from the variables of this one.
ReplyKeepsGlobals(h, answer, state) ==
  helper' = [helper EXCEPT ![h] =
    IF Attached(h) THEN [@ EXCEPT !.pc = "answered", !.answer = answer,
                                  !.before = state]
    ELSE FreeHelper]

\* The pipe is open on this side: the helper's writes do not fail.
Reply(h, answer, state) ==
  helper' = [helper EXCEPT ![h] =
    IF Attached(h) THEN [@ EXCEPT !.pc = "answered", !.answer = answer,
                                  !.globals = None, !.before = state]
    ELSE FreeHelper]

\* What a step of helper h that changes no variable leaves alone.
OnlyHelper == UNCHANGED <<machineVars, uiVars, touched, verified>>

\* Connection::connect: the pipe exists as long as its creator waits for it.
HelperConnects(h) ==
  /\ helper[h].pc = "started"
  /\ helper' = [helper EXCEPT ![h] = IF launching = h
                                     THEN [@ EXCEPT !.pc = "serving"]
                                     ELSE FreeHelper]
  /\ OnlyHelper /\ UNCHANGED quiet

\* A helper of another version does not greet.
HelperHello(h) ==
  /\ helper[h].pc = "run"
  /\ helper[h].op = "hello"
  /\ Reply(h, IF helper[h].version = PROTOCOL_VERSION THEN "Hello"
              ELSE "BadRequest", None)
  /\ OnlyHelper /\ UNCHANGED quiet

\* read_state, for ReadState and before or after the write of SetBootNext.
Reading(h) ==
  \/ helper[h].pc = "run" /\ helper[h].op \in {"read", "boot"}
  \/ helper[h].pc \in {"entries", "verify", "compare"}

HelperReadFails(h) ==
  /\ Reading(h)
  /\ \E e \in ReadFailures(h) : Reply(h, e, None)
  /\ OnlyHelper /\ UNCHANGED quiet

\* The first variables of a snapshot, those that are not entries.
HelperReadsGlobals(h) ==
  /\ Reading(h)
  /\ helper[h].pc \in {"run", "verify"}
  /\ helper[h].privileged
  /\ helper' = [helper EXCEPT ![h].globals = Globals,
       ![h].pc = IF @ = "run" THEN "entries" ELSE "compare"]
  /\ quiet' = (quiet \/ (h = channel /\ pc = "after"))
  /\ OnlyHelper

\* The entries of the first snapshot: it is the answer, or the entry to write
\* is looked up in it.
HelperReadsEntries(h) ==
  LET s == Snapshot(helper[h].globals) IN
  /\ helper[h].pc = "entries"
  /\ \/ helper[h].op = "read" /\ Reply(h, "State", s)
     \/ /\ helper[h].op = "boot"
        /\ ~ContainsEntry(s, helper[h].id)
        /\ Reply(h, "EntryNotFound", None)
     \/ /\ helper[h].op = "boot"
        /\ ContainsEntry(s, helper[h].id)
        /\ helper' = [helper EXCEPT ![h].pc = "write", ![h].globals = None,
                                    ![h].before = s]
  /\ OnlyHelper /\ UNCHANGED quiet

\* SetFirmwareEnvironmentVariableW succeeds.
HelperWrites(h) ==
  /\ helper[h].pc = "write"
  /\ \E b \in Behaviours :
       nvram' \in FirmwareEffects(nvram, BootNext, helper[h].id, b)
  /\ helper' = [helper EXCEPT ![h].pc = "verify"]
  /\ touched' = (touched \/ (h = channel /\ nvram' # nvram))
  /\ quiet' = (quiet /\ nvram' = nvram)
  /\ UNCHANGED <<edits, uiVars, verified>>

\* It fails, and says why.
HelperWriteRefused(h) ==
  /\ helper[h].pc = "write"
  /\ \E e \in {"WriteRefused", "PrivilegeRequired", "NotUefi"} : Reply(h, e, None)
  /\ OnlyHelper /\ UNCHANGED quiet

\* The entries of the second snapshot, and the verdict of the guard on it.
HelperVerifies(h) ==
  /\ helper[h].pc = "compare"
  /\ Reply(h, IF VerifyOnlyBootNextChanged(helper[h].before,
                   Snapshot(helper[h].globals), helper[h].id) = "Ok"
              THEN "Written" ELSE "GuardViolation", None)
  /\ OnlyHelper /\ UNCHANGED quiet

\* MUTANT: the end of the pipe is taken for an empty line, and skipped.
ServeIgnoresEof(h) == FALSE

\* The read of the next request finds the pipe closed: the loop ends.
EndOfPipe(h) == helper[h].pc = "serving" /\ ~Attached(h)

HelperExits(h) ==
  /\ EndOfPipe(h)
  /\ helper' = [helper EXCEPT ![h] = FreeHelper]
  /\ OnlyHelper /\ UNCHANGED quiet

\* The process is killed; an interface connected to it will find out.
HelperDies(h) ==
  /\ helper[h].pc \notin {"free", "gone"}
  /\ helper' = [helper EXCEPT ![h] =
       IF Attached(h) /\ @.pc # "started"
       THEN [FreeHelper EXCEPT !.pc = "gone"] ELSE FreeHelper]
  /\ OnlyHelper /\ UNCHANGED quiet

-----------------------------------------------------------------------------
(* The environment                                                         *)

EditValues(v) ==
  IF v = BootOrder THEN OrderEdits
  ELSE IF v = BootNext THEN BootId \cup {Absent}
  ELSE LoadOption \cup Unparsable \cup {Absent}

\* Another tool, or the firmware itself, changes one variable.
Edit ==
  /\ edits < MaxEdits
  /\ edits' = edits + 1
  /\ \E v \in Var : \E x \in EditValues(v) :
       x # nvram[v] /\ nvram' = [nvram EXCEPT ![v] = x]
  /\ quiet' = FALSE
  /\ UNCHANGED <<uiVars, helper, touched, verified>>

\* A process of the interface that has just started.
FreshInterface ==
  /\ pc' = "start" /\ reply' = "none"
  /\ launching' = None /\ channel' = None /\ elevated' = FALSE
  /\ plan' = None /\ wanted' = None /\ target' = None
  /\ before' = None /\ after' = None
  /\ NewCommand
  /\ UNCHANGED readOnly

\* The interface is closed or killed, which closes its end of the pipe; the
\* helper goes on with the request it has read.
InterfaceRestarts ==
  /\ FreshInterface
  /\ helper' = [h \in Helper |->
       CASE helper[h].pc = "gone" -> FreeHelper
         [] helper[h].pc = "answered" -> Released(h)[h]
         [] OTHER -> helper[h]]
  /\ UNCHANGED machineVars

\* The machine stops, for whatever reason, and starts again: every process is
\* gone and the firmware has used BootNext up.
MachineRestarts ==
  /\ FreshInterface
  /\ nvram' = [nvram EXCEPT ![BootNext] = Absent]
  /\ helper' = [h \in Helper |-> FreeHelper]
  /\ UNCHANGED edits

-----------------------------------------------------------------------------
Init ==
  /\ nvram \in InitialStates
  /\ edits = 0
  /\ readOnly \in BOOLEAN
  /\ pc = "start" /\ reply = "none"
  /\ launching = None /\ channel = None /\ elevated = FALSE
  /\ plan = None /\ wanted = None /\ target = None
  /\ before = None /\ after = None
  /\ helper = [h \in Helper |-> FreeHelper]
  /\ touched = FALSE /\ verified = FALSE /\ quiet = FALSE

User ==
  \/ StartLocally
  \/ LaunchHelper
  \/ PromptDeclined
  \/ \E h \in Helper : PromptAccepted(h)
  \/ \E sid \in StableIds : Prepare(sid)
  \/ \E sid \in StableIds : PrepareLocally(sid)
  \/ CancelSelection
  \/ ConfirmReadOnly
  \/ ConfirmLocally
  \/ Confirm

Interface ==
  \/ Connected
  \/ HandshakeSucceeds
  \/ HandshakeFails
  \/ PrepareEnds
  \/ Resolved
  \/ NotResolved
  \/ Written
  \/ NotWritten
  \/ Verified
  \/ NotVerified
  \/ Reboot

HelperStep(h) ==
  \/ HelperConnects(h)
  \/ HelperHello(h)
  \/ HelperReadFails(h)
  \/ HelperReadsGlobals(h)
  \/ HelperReadsEntries(h)
  \/ HelperWrites(h)
  \/ HelperWriteRefused(h)
  \/ HelperVerifies(h)
  \/ HelperExits(h)

Environment ==
  \/ \E h \in Helper : HelperDies(h)
  \/ Edit
  \/ InterfaceRestarts
  \/ MachineRestarts

Next ==
  \/ User
  \/ Interface
  \/ \E h \in Helper : HelperStep(h)
  \/ Environment

Spec == Init /\ [][Next]_vars

\* The code of a running process makes progress.  Nothing is assumed of the
\* user, who may never answer the UAC prompt, nor of other tools.
Fairness ==
  /\ WF_vars(Interface)
  /\ \A h \in Helper : WF_vars(HelperStep(h))

FairSpec == Spec /\ Fairness

-----------------------------------------------------------------------------
(* Properties                                                              *)

IsOptionalState(s) == s = None \/ IsState(s)

IsHelper(r) ==
  /\ r = [f \in DOMAIN FreeHelper |-> r[f]]
  /\ r.pc \in {"free", "started", "serving", "run", "entries", "write",
               "verify", "compare", "answered", "gone"}
  /\ r.version \in Versions \cup {None}
  /\ r.privileged \in BOOLEAN
  /\ r.op \in {"hello", "read", "boot", None}
  /\ r.id \in BootId \cup {None}
  /\ r.globals # None => /\ r.pc \in {"entries", "compare"}
                         /\ r.globals.order \in OrderValue
                         /\ r.globals.next \in NextValue
  /\ IsOptionalState(r.before)
  /\ r.answer \in {"Hello", "BadRequest", "State", "Written", "EntryNotFound",
                   "PrivilegeRequired", "NotUefi", "WriteRefused",
                   "GuardViolation", "Internal", None}

\* The variables of the machine, of the interface and of the history.
InterfaceTypeOK ==
  /\ IsState(nvram)
  /\ edits \in 0..MaxEdits
  /\ readOnly \in BOOLEAN
  /\ pc \in {"start", "prompt", "connect", "hello", "idle", "prepare",
             "before", "write", "after", "reboot"}
  /\ launching \in Helper \cup {None}
  /\ pc \in {"connect", "hello"} <=> launching # None
  /\ channel \in Helper \cup {None}
  /\ pc \in {"prepare", "before", "write", "after", "reboot"} => channel # None
  /\ elevated <=> channel # None
  /\ plan \in StableIds \cup {None}
  /\ wanted \in StableIds \cup {None}
  /\ target \in BootId \cup {None}
  /\ IsOptionalState(before) /\ IsOptionalState(after)
  /\ reply \in Replies
  /\ {touched, verified, quiet} \subseteq BOOLEAN

\* Every variable has its type, and a command that waits for an answer has a
\* helper to wait for.
SessionTypeOK ==
  /\ InterfaceTypeOK
  /\ helper = [h \in Helper |-> helper[h]]
  /\ \A h \in Helper : IsHelper(helper[h])

\* elevate.rs handshake: no request is served by a helper that speaks another
\* version of the protocol, whichever process was elevated.
ServedByGreeted ==
  \A h \in Helper :
    helper[h].op \in {"read", "boot"} => helper[h].version = PROTOCOL_VERSION

\* commands.rs confirm_and_reboot on Windows: the application reboots, and
\* tells the user where the next boot goes, only when that is true, as long as
\* nobody has changed the firmware since the guard's snapshot began to be read,
\* an orphaned helper of an earlier session included.
SessionLands ==
  verified /\ quiet =>
    /\ nvram[BootNext] = target
    /\ nvram[target] \in LoadOption
    /\ StableId(nvram[target]) = wanted

\* backend.rs guarantees_no_write on Windows: the user is told that nothing was
\* modified, although the current command modified the firmware, only when a
\* read that follows the write fails for want of the privilege or of a UEFI
\* firmware, in the helper's own check or in the interface's.  No refused or
\* disobeyed write, no verdict of a guard, no death of the helper in between and
\* no later command makes that promise false.
SessionPromiseFailsOnlyAtReads ==
  [][reply' = "promise" /\ touched' =>
       \/ reply = "promise" /\ touched
       \/ /\ pc \in {"write", "after"}
          /\ AnswerOf(channel) \in {"PrivilegeRequired", "NotUefi"}]_vars

\* elevate.rs exchange: once the pipe is connected, every command ends and
\* releases the mutex, unless the interface is restarted, also if the helper
\* dies in the middle of it.
ServedCommandsEnd ==
  pc \in {"hello", "prepare", "before", "write", "after", "reboot"}
    ~> pc \in {"idle", "start"}

\* pipe.rs read_line, service.rs serve: a helper that lost its interface, at
\* whatever point of a request, ends.
OrphansEnd ==
  \A h \in Helper :
    helper[h].pc # "free" /\ ~Attached(h) ~> helper[h].pc = "free"

(* The property below states what the repository says and the code does   *)
(* not do: a run of its own finds it violated.                             *)

\* elevate.rs says that CONNECT_TIMEOUT bounds the wait for the helper's
\* connection.
ConnectionEnds == pc = "connect" ~> pc # "connect"

=============================================================================
