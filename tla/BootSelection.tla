---------------------------- MODULE BootSelection ----------------------------
(***************************************************************************)
(* The two writes of the application on Linux, from the user's request to  *)
(* the reboot: commands.rs and select.rs in the unprivileged interface,    *)
(* the Linux backend, the pkexec call with its timeout, and the one-shot   *)
(* helper that is the only process to write.                               *)
(*                                                                         *)
(* Interface and helpers are separate processes that read the firmware one *)
(* variable after the other; other tools and other helpers may change it   *)
(* between any two steps, in the middle of a read and between a read and   *)
(* what is concluded from it; and any process may die.  A helper that the  *)
(* interface stopped waiting for, but could not kill, keeps running.       *)
(***************************************************************************)
EXTENDS Guard, Detect, Firmware

CONSTANTS
  Helper,        \* slots for helper processes, one per pkexec call alive
  Ui,            \* the interface, as one of the readers of the firmware
  None,          \* null value of the optional variables
  ReadErrors,    \* BackendErrors the interface's read_state may return
  Missing,       \* sets of variables that a single read may fail to read
  Removable,     \* the partitions of disks that may come and go
  Behaviours,    \* behaviours of the firmware (module Firmware)
  InitialStates, \* contents of the firmware when the machine starts
  OrderEdits,    \* values other tools may give to BootOrder
  MaxEdits       \* bound on the number of changes other tools make

ASSUME ReadErrorsAssumption ==
  ReadErrors \subseteq {"NotUefi", "PrivilegeRequired", "Io"}

ASSUME MissingAssumption == Missing \subseteq SUBSET Var

ASSUME InitialStatesAssumption == \A s \in InitialStates : IsState(s)

ASSUME EditsAssumption == OrderEdits \subseteq OrderValue /\ MaxEdits \in Nat

ASSUME RemovableAssumption == Removable \subseteq Partition

ASSUME NoneAssumption ==
  None \notin Helper \cup BootId
              \cup [Var -> OrderValue \cup NextValue \cup EntryValue]

ASSUME UiAssumption == Ui \notin Helper

VARIABLES
  \* --- the machine
  nvram,     \* the boot variables of the firmware
  plugged,   \* the partitions physically present
  host,      \* "up", or "stopping" once a reboot method took effect
  uefi,      \* firmware_mode(): fixed while the machine runs
  edits,     \* changes made so far by other tools
  \* --- the interface
  readOnly,  \* --dry-run: LinuxBootBackend::read_only
  pc,        \* where the command that holds the AppState mutex stands
  op,        \* "boot" (confirm_and_reboot) or "default" (set_default_system)
  plan,      \* the SelectionPlan of the open confirmation dialog
  wanted,    \* the stable identifier the command is about
  target,    \* the Boot#### it was resolved to
  inventory, \* the devices listed with the first snapshot
  before,    \* the snapshot the target was resolved in
  after,     \* the snapshot the guard accepted
  armed,     \* REBOOT_ARMED
  reply,     \* what the user was last told
  callee,    \* the helper the command waits for
  \* --- the helpers
  helper,
  \* --- the reads in progress
  seen,      \* what the read of each process may yield so far
  \* --- history, read by properties only
  touched,   \* the current command's helper changed the firmware
  settled    \* nobody changed the firmware since the read that a guard
             \* accepted began

machineVars == <<nvram, plugged, host, uefi, edits>>

commandVars == <<op, wanted, target, inventory, before, after>>

uiVars == <<readOnly, pc, plan, armed, reply, callee, commandVars>>

historyVars == <<touched, settled>>

vars == <<machineVars, uiVars, helper, seen, historyVars>>

-----------------------------------------------------------------------------
(* Data                                                                    *)

StableIds == {StableId(o) : o \in LoadOption}

Plan == [sid : StableIds, observed : BootId]

\* MUTANT: a refused write is believed to have changed nothing.
RefusalGuaranteesNoWrite(error) ==
  error \in {"NotUefi", "PrivilegeRequired", "TargetVanished", "DeviceMissing",
             "NotSelectable", "ReadOnlyMode", "WriteRefused"}

\* BackendError::guarantees_no_write
GuaranteesNoWrite(error) ==
  error \in {"NotUefi", "PrivilegeRequired", "TargetVanished", "DeviceMissing",
             "NotSelectable", "ReadOnlyMode"}

Errors == {"NotUefi", "PrivilegeRequired", "TargetVanished", "DeviceMissing",
           "NotSelectable", "ReadOnlyMode", "WriteRefused", "Guard", "Io"}

\* noWrite: the text ends with "aucune modification n'a ete effectuee".
Reply == [kind : {"none", "error", "rebootFailed", "defaultApplied"},
          error : Errors \cup {None}, noWrite : BOOLEAN]

Told(kind) == [kind |-> kind, error |-> None, noWrite |-> FALSE]

ToldError(error) ==
  [kind |-> "error", error |-> error, noWrite |-> GuaranteesNoWrite(error)]

\* A helper process: its place, the request it received, its own snapshot, and
\* how it ended: a Response, or the exit status of pkexec.
FreeHelper == [pc |-> "free", op |-> None, id |-> None, before |-> None,
               answer |-> None]

Answers == {"Written", "DefaultApplied", "Denied", "Died", "NotUefi",
            "EntryNotFound", "WriteRefused", "GuardViolation", "Internal"}

\* error_response: categories that cross the boundary between processes.
ErrorResponse(error) ==
  CASE error = "NotUefi" -> "NotUefi"
    [] error = "EntryNotFound" -> "EntryNotFound"
    [] error = "WriteRefused" -> "WriteRefused"
    [] error = "Guard" -> "GuardViolation"
    [] error \in {"FirmwareUnavailable", "NotSelectable", "Io"} -> "Internal"

\* MUTANT: the categories of the helper are not translated.
HelperCategoryKept(answer) ==
  IF answer = "Denied" THEN "PrivilegeRequired" ELSE answer

\* run_privileged and translate: what the interface makes of an answer.
Translate(answer) ==
  CASE answer = "Denied" -> "PrivilegeRequired"
    [] answer = "NotUefi" -> "NotUefi"
    [] answer = "EntryNotFound" -> "TargetVanished"
    [] answer \in {"WriteRefused", "GuardViolation"} -> "WriteRefused"
    [] answer \in {"Died", "Internal"} -> "Io"

-----------------------------------------------------------------------------
(* Reading the firmware                                                    *)

Reader == Helper \cup {Ui}

\* read_state opens the files of the variables one by one, in whatever order
\* the directory lists them, and its caller judges later: while a read is in
\* progress, seen[r] holds every snapshot in which each variable has a value it
\* had at some moment since the read began.
BeginRead(r) == seen' = [seen EXCEPT ![r] = {nvram}]

EndRead(r) == seen' = [seen EXCEPT ![r] = {}]

\* The snapshots of S, with what some variables became in t.
Grown(S, t) ==
  {[v \in Var |-> IF v \in c THEN t[v] ELSE s[v]] : s \in S, c \in SUBSET Var}

\* The firmware becomes t while reads are in progress.
Witnessed(t) == [r \in Reader |-> Grown(seen[r], t)]

\* A snapshot in which the variables of m could not be read.
Observed(s, m) == [v \in Var |-> IF v \in m THEN Absent ELSE s[v]]

\* What the read of r may yield when it ends now.
Snapshots(r) == {Observed(s, m) : s \in seen[r], m \in Missing}

\* list_devices().unwrap_or_default(): a failure yields an empty inventory.
Inventories == {plugged, {}}

-----------------------------------------------------------------------------
(* The interface: reading and resolving                                    *)

\* A command takes the mutex and begins to read the firmware.
Begin(command) ==
  /\ pc = "idle"
  /\ pc' = command
  /\ BeginRead(Ui)
  /\ UNCHANGED <<machineVars, readOnly, plan, armed, reply, callee, commandVars,
                 helper, historyVars>>

\* detect, and the search of the system sid in its list.
Resolvable(sid, s, devices, i) ==
  uefi /\ Found(s, sid, i) /\ Selectable(s[i], devices)

\* Detection failed, or the entry is gone or not selectable.
Unresolvable(sid) ==
  \/ ~uefi
  \/ ReadErrors # {}
  \/ \E s \in Snapshots(Ui), devices \in Inventories :
       ~\E i \in BootId : Resolvable(sid, s, devices, i)

PrepareBegins == Begin("prepare")

\* prepare_selection: the plan of the dialog, built from a fresh detection.
PrepareSelection(sid) ==
  /\ pc = "prepare"
  /\ \E s \in Snapshots(Ui), devices \in Inventories, i \in BootId :
       /\ Resolvable(sid, s, devices, i)
       /\ plan' = [sid |-> sid, observed |-> i]
  /\ pc' = "idle"
  /\ EndRead(Ui)
  /\ UNCHANGED <<machineVars, readOnly, armed, reply, callee, commandVars,
                 helper, historyVars>>

\* A failure only shows a message.
PrepareFails(sid) ==
  /\ pc = "prepare"
  /\ Unresolvable(sid)
  /\ pc' = "idle"
  /\ EndRead(Ui)
  /\ UNCHANGED <<machineVars, readOnly, plan, armed, reply, callee, commandVars,
                 helper, historyVars>>

\* The dialog is closed without confirmation.
CancelSelection ==
  /\ pc = "idle"
  /\ plan # None
  /\ plan' = None
  /\ UNCHANGED <<machineVars, readOnly, pc, armed, reply, callee, commandVars,
                 helper, seen, historyVars>>

\* The local variables of a command that is over.
Forget ==
  /\ op' = "boot" /\ wanted' = None /\ target' = None
  /\ inventory' = {} /\ before' = None /\ after' = None
  /\ settled' = FALSE

\* The command ends and releases the mutex.
Finish(told) ==
  /\ pc' = "idle"
  /\ reply' = told
  /\ callee' = None
  /\ Forget

\* The command goes on to call the helper about entry i of snapshot s.
Proceed(o, sid, i, s, devices) ==
  /\ pc' = "call"
  /\ reply' = Told("none")
  /\ op' = o /\ wanted' = sid /\ target' = i
  /\ inventory' = devices /\ before' = s /\ after' = None
  /\ EndRead(Ui)
  /\ touched' = FALSE /\ settled' = FALSE
  /\ UNCHANGED <<machineVars, readOnly, armed, callee, helper>>

\* MUTANT: the number shown in the dialog is trusted.
ResolveByNumber(s, p, i) == i = p.observed /\ i \in Entries(s)

\* Steps 4 and 6 of commit_selection: the plan's stable identifier is looked
\* up in the fresh snapshot; the number shown in the dialog plays no part.
Resolve(s, p, i) == Found(s, p.sid, i) /\ ContainsEntry(s, i)

\* MUTANT: the entry is not validated again.
StillSelectableSkipped(o, devices) == TRUE

\* Step 5 of commit_selection.
StillSelectable(o, devices) == Selectable(o, devices)

\* commit_selection may stop with error e before any call.
CommitFails(e) ==
  \/ readOnly /\ e = "ReadOnlyMode"
  \/ ~readOnly /\ ~uefi /\ e = "NotUefi"
  \/ /\ ~readOnly /\ uefi
     /\ \/ e \in ReadErrors
        \/ /\ e = "TargetVanished"
           /\ \E s \in Snapshots(Ui) : Matches(s, plan.sid) = {}
        \/ \E s \in Snapshots(Ui), devices \in Inventories, i \in BootId :
             /\ Resolve(s, plan, i)
             /\ ~StillSelectable(s[i], devices)
             /\ e = RefusalOf(s[i], devices)

\* confirm_and_reboot takes the mutex, for the dialog that is open.
ConfirmBegins == plan # None /\ Begin("confirm")

ConfirmRefused ==
  /\ pc = "confirm"
  /\ plan' = None
  /\ \E e \in Errors : CommitFails(e) /\ Finish(ToldError(e))
  /\ touched' = FALSE
  /\ EndRead(Ui)
  /\ UNCHANGED <<machineVars, readOnly, armed, helper>>

\* Steps 1 to 6 of commit_selection.
ConfirmResolved ==
  /\ pc = "confirm"
  /\ ~readOnly
  /\ uefi
  /\ plan' = None
  /\ \E s \in Snapshots(Ui), devices \in Inventories, i \in BootId :
       /\ Resolve(s, plan, i)
       /\ StillSelectable(s[i], devices)
       /\ Proceed("boot", plan.sid, i, s, devices)

\* set_default_system: a fresh detection, then the same lookup.
DefaultBegins == Begin("default")

\* The system cannot be resolved; or the backend is read-only, the only refusal
\* that promises that nothing was written.
SetDefaultRefused(sid) ==
  /\ pc = "default"
  /\ \/ Unresolvable(sid) /\ Finish(Told("error"))
     \/ /\ readOnly
        /\ \E s \in Snapshots(Ui), devices \in Inventories, i \in BootId :
             Resolvable(sid, s, devices, i)
        /\ Finish(ToldError("ReadOnlyMode"))
  /\ touched' = FALSE
  /\ EndRead(Ui)
  /\ UNCHANGED <<machineVars, readOnly, plan, armed, helper>>

\* MUTANT: the Linux backend forgets that it is read-only.
DryRunIgnored == TRUE

\* The first test of LinuxBootBackend::set_default_system.
BackendMayWrite == ~readOnly

SetDefaultResolved(sid) ==
  /\ pc = "default"
  /\ BackendMayWrite
  /\ \E s \in Snapshots(Ui), devices \in Inventories, i \in BootId :
       /\ Resolvable(sid, s, devices, i)
       /\ Proceed("default", sid, i, s, devices)
  /\ UNCHANGED plan

-----------------------------------------------------------------------------
(* The interface: calling the helper                                       *)

\* run_privileged starts pkexec and sends it one request.
CallHelper(h) ==
  /\ pc = "call"
  /\ helper[h] = FreeHelper
  /\ helper' = [helper EXCEPT ![h] =
       [pc |-> "auth", op |-> op, id |-> target, before |-> None,
        answer |-> None]]
  /\ callee' = h
  /\ pc' = "wait"
  /\ UNCHANGED <<machineVars, readOnly, plan, armed, reply, commandVars, seen,
                 historyVars>>

\* The helper is not installed, cannot be staged, or pkexec cannot be started.
CallFails ==
  /\ pc = "call"
  /\ Finish(ToldError("Io"))
  /\ UNCHANGED <<machineVars, readOnly, plan, armed, helper, seen, touched>>

\* The helper has exited: its response or its exit status is translated.  After
\* a selection, the interface begins to read the firmware again.
TakeAnswer ==
  /\ pc = "wait"
  /\ helper[callee].pc = "answered"
  /\ helper' = [helper EXCEPT ![callee] = FreeHelper]
  /\ \/ /\ helper[callee].answer = "Written"
        /\ pc' = "verify" /\ callee' = None
        /\ BeginRead(Ui)
        /\ UNCHANGED <<reply, commandVars, settled>>
     \/ /\ helper[callee].answer = "DefaultApplied"
        /\ Finish(Told("defaultApplied"))
        /\ UNCHANGED seen
     \/ /\ helper[callee].answer \notin {"Written", "DefaultApplied"}
        /\ Finish(ToldError(Translate(helper[callee].answer)))
        /\ UNCHANGED seen
  /\ UNCHANGED <<machineVars, readOnly, plan, armed, touched>>

\* wait_with_timeout: after TIMEOUT_SECS the child is killed, and the result of
\* the kill is ignored.  Before the authentication pkexec still has the real
\* user id of the caller and dies; afterwards it runs as root and lives on.
KillChild(h) ==
  helper' = [helper EXCEPT ![h] = IF @.pc = "auth" THEN FreeHelper ELSE @]

\* MUTANT: the wait has no deadline.
NoTimeout == FALSE /\ UNCHANGED vars

Timeout ==
  /\ pc = "wait"
  /\ helper[callee].pc # "answered"
  /\ KillChild(callee)
  /\ Finish(ToldError("Io"))
  /\ UNCHANGED <<machineVars, readOnly, plan, armed, seen, touched>>

-----------------------------------------------------------------------------
(* The interface: verifying and rebooting                                  *)

\* Step 8 of commit_selection fails, at the read or at the guard.
VerifyFails ==
  /\ pc = "verify"
  /\ \/ \E e \in ReadErrors : Finish(ToldError(e))
     \/ \E s \in Snapshots(Ui) :
          /\ VerifyOnlyBootNextChanged(before, s, target) # "Ok"
          /\ Finish(ToldError("Guard"))
  /\ EndRead(Ui)
  /\ UNCHANGED <<machineVars, readOnly, plan, armed, helper, touched>>

\* MUTANT: the guard's verdict is not looked at.
GuardSkipped(s) == TRUE

GuardAccepts(s) == VerifyOnlyBootNextChanged(before, s, target) = "Ok"

\* Step 8 succeeds; confirm_and_reboot arms the lock.
VerifySucceeds ==
  /\ pc = "verify"
  /\ \E s \in Snapshots(Ui) : GuardAccepts(s) /\ after' = s
  /\ armed' = TRUE
  /\ pc' = "reboot"
  /\ EndRead(Ui)
  /\ settled' = (seen[Ui] = {nvram})
  /\ UNCHANGED <<machineVars, readOnly, plan, reply, callee, op, wanted, target,
                 inventory, before, helper, touched>>

\* power::reboot: the lock is armed and a method takes effect, at once or after
\* the eight seconds do_reboot waits for it.
RebootTakesEffect ==
  /\ pc = "reboot"
  /\ armed
  /\ host = "up"
  /\ host' = "stopping"
  /\ UNCHANGED <<nvram, plugged, uefi, edits, uiVars, helper, seen, historyVars>>

\* Every method failed, or took more than eight seconds: the user is told that
\* BootNext is set and the permanent order unchanged.
RebootFails ==
  /\ pc = "reboot"
  /\ pc' = "idle"
  /\ reply' = Told("rebootFailed")
  /\ inventory' = {} /\ before' = None /\ after' = None
  /\ UNCHANGED <<machineVars, readOnly, plan, armed, callee, op, wanted, target,
                 helper, seen, historyVars>>

-----------------------------------------------------------------------------
(* The helper                                                              *)

\* The process ends: its answer is read by the command that waits for it, and
\* by nobody if that command gave up.
Answer(h, a) ==
  /\ helper' = [helper EXCEPT ![h] =
       IF callee = h THEN [@ EXCEPT !.pc = "answered", !.answer = a]
       ELSE FreeHelper]
  /\ EndRead(h)

\* The user accepts the authentication request: pkexec starts the helper, which
\* begins to read the firmware.
Authenticate(h) ==
  /\ helper[h].pc = "auth"
  /\ helper' = [helper EXCEPT ![h] = [@ EXCEPT !.pc = "run"]]
  /\ BeginRead(h)
  /\ UNCHANGED <<machineVars, uiVars, historyVars>>

\* The user dismisses it, or may not administer: exit status 126 or 127.
Deny(h) ==
  /\ helper[h].pc = "auth"
  /\ Answer(h, "Denied")
  /\ UNCHANGED <<machineVars, uiVars, historyVars>>

\* The process is killed, or exits with any other status.
HelperDies(h) ==
  /\ helper[h].pc \in {"auth", "run", "write", "verify"}
  /\ Answer(h, "Died")
  /\ UNCHANGED <<machineVars, uiVars, historyVars>>

\* read_state of the helper fails in fewer ways than that of the interface.
HelperReadErrors == ReadErrors \cap {"NotUefi", "Io"}

\* What write_boot_next and write_default_system refuse before writing.
HelperRefusals(request, s) ==
  IF ~uefi THEN {"NotUefi"}
  ELSE IF ~ContainsEntry(s, request.id) THEN {"EntryNotFound"}
  ELSE IF request.op = "boot" THEN {}
  ELSE IF ~HasBootOrder(s) THEN {"FirmwareUnavailable"}
  ELSE IF ~Occurs(request.id, s[BootOrder]) THEN {"NotSelectable"}
  ELSE {}

HelperReads(h) ==
  /\ helper[h].pc = "run"
  /\ \E s \in Snapshots(h) :
       /\ HelperRefusals(helper[h], s) = {}
       /\ helper' = [helper EXCEPT ![h] =
            [@ EXCEPT !.pc = "write", !.before = s]]
  /\ EndRead(h)
  /\ UNCHANGED <<machineVars, uiVars, historyVars>>

HelperRefuses(h) ==
  /\ helper[h].pc = "run"
  /\ \E e \in HelperReadErrors
              \cup UNION {HelperRefusals(helper[h], s) : s \in Snapshots(h)} :
       Answer(h, ErrorResponse(e))
  /\ UNCHANGED <<machineVars, uiVars, historyVars>>

\* The variable and the value of the request's write.
WrittenVar(request) == IF request.op = "boot" THEN BootNext ELSE BootOrder

WrittenValue(request) ==
  IF request.op = "boot" THEN request.id
  ELSE MoveToFront(request.before[BootOrder], request.id)

\* write_variable succeeds, whatever the firmware makes of it; the helper begins
\* to read it again.
HelperWrites(h) ==
  /\ helper[h].pc = "write"
  /\ \E b \in Behaviours :
       nvram' \in FirmwareEffects(nvram, WrittenVar(helper[h]),
                                  WrittenValue(helper[h]), b)
  /\ helper' = [helper EXCEPT ![h] = [@ EXCEPT !.pc = "verify"]]
  /\ seen' = [Witnessed(nvram') EXCEPT ![h] = {nvram'}]
  /\ touched' = (touched \/ (callee = h /\ nvram' # nvram))
  /\ settled' = (settled /\ nvram' = nvram)
  /\ UNCHANGED <<plugged, host, uefi, edits, uiVars>>

\* Opening, clearing the immutable attribute or writing fails.
HelperWriteRefused(h) ==
  /\ helper[h].pc = "write"
  /\ Answer(h, ErrorResponse("WriteRefused"))
  /\ UNCHANGED <<machineVars, uiVars, historyVars>>

\* The helper's own guard, on its own two snapshots.
HelperVerdict(request, s) ==
  IF request.op = "boot"
  THEN VerifyOnlyBootNextChanged(request.before, s, request.id)
  ELSE VerifyOnlyBootOrderReordered(request.before, s, request.id)

HelperVerifies(h) ==
  /\ helper[h].pc = "verify"
  /\ \/ \E e \in HelperReadErrors : Answer(h, ErrorResponse(e))
     \/ \E s \in Snapshots(h) :
          IF HelperVerdict(helper[h], s) # "Ok" THEN Answer(h, ErrorResponse("Guard"))
          ELSE Answer(h, IF helper[h].op = "boot" THEN "Written" ELSE "DefaultApplied")
  /\ UNCHANGED <<machineVars, uiVars, historyVars>>

-----------------------------------------------------------------------------
(* The environment                                                         *)

EditValues(v) ==
  IF v = BootOrder THEN OrderEdits
  ELSE IF v = BootNext THEN BootId \cup {Absent}
  ELSE LoadOption \cup Unparsable \cup {Absent}

\* Another tool, or the firmware itself, changes one variable.
Edit ==
  /\ edits < MaxEdits
  /\ edits' = edits + 1
  /\ \E v \in Var : \E x \in EditValues(v) :
       /\ x # nvram[v]
       /\ nvram' = [nvram EXCEPT ![v] = x]
  /\ seen' = Witnessed(nvram')
  /\ settled' = FALSE
  /\ UNCHANGED <<plugged, host, uefi, uiVars, helper, touched>>

\* A disk appears or disappears.
PlugOrUnplug(p) ==
  /\ plugged' = IF p \in plugged THEN plugged \ {p} ELSE plugged \cup {p}
  /\ UNCHANGED <<nvram, host, uefi, edits, uiVars, helper, seen, historyVars>>

\* A process of the interface that has just started.
FreshInterface ==
  /\ Finish(Told("none"))
  /\ plan' = None
  /\ armed' = FALSE /\ touched' = FALSE

\* The interface is closed or killed; a running helper is not.
InterfaceRestarts ==
  /\ FreshInterface
  /\ helper' = [h \in Helper |->
       IF helper[h].pc = "answered" THEN FreeHelper ELSE helper[h]]
  /\ EndRead(Ui)
  /\ UNCHANGED <<machineVars, readOnly>>

\* The machine stops, by the application, the user or a power failure, and
\* starts again: every process is gone and the firmware has used BootNext up.
MachineRestarts ==
  /\ FreshInterface
  /\ nvram' = [nvram EXCEPT ![BootNext] = Absent]
  /\ host' = "up"
  /\ helper' = [h \in Helper |-> FreeHelper]
  /\ seen' = [r \in Reader |-> {}]
  /\ UNCHANGED <<plugged, uefi, edits, readOnly>>

-----------------------------------------------------------------------------
Init ==
  /\ nvram \in InitialStates
  /\ plugged \in {ps \in SUBSET Partition : Partition \ Removable \subseteq ps}
  /\ host = "up"
  /\ uefi \in BOOLEAN
  /\ edits = 0
  /\ readOnly \in BOOLEAN
  /\ pc = "idle" /\ plan = None /\ reply = Told("none") /\ callee = None
  /\ op = "boot" /\ wanted = None /\ target = None
  /\ inventory = {} /\ before = None /\ after = None
  /\ armed = FALSE
  /\ helper = [h \in Helper |-> FreeHelper]
  /\ seen = [r \in Reader |-> {}]
  /\ touched = FALSE /\ settled = FALSE

User ==
  \/ PrepareBegins
  \/ CancelSelection
  \/ ConfirmBegins
  \/ DefaultBegins

\* The steps of a command up to its answer, or to the reboot.
Command ==
  \/ \E sid \in StableIds : \/ PrepareSelection(sid)
                            \/ PrepareFails(sid)
                            \/ SetDefaultRefused(sid)
                            \/ SetDefaultResolved(sid)
  \/ ConfirmRefused
  \/ ConfirmResolved
  \/ \E h \in Helper : CallHelper(h)
  \/ CallFails
  \/ TakeAnswer
  \/ Timeout
  \/ VerifyFails
  \/ VerifySucceeds

Interface ==
  \/ Command
  \/ RebootTakesEffect
  \/ RebootFails

HelperStep(h) ==
  \/ HelperReads(h)
  \/ HelperRefuses(h)
  \/ HelperWrites(h)
  \/ HelperWriteRefused(h)
  \/ HelperVerifies(h)

Environment ==
  \/ \E h \in Helper : Authenticate(h) \/ Deny(h) \/ HelperDies(h)
  \/ Edit
  \/ \E p \in Removable : PlugOrUnplug(p)
  \/ InterfaceRestarts
  \/ MachineRestarts

Next ==
  \/ User
  \/ Interface
  \/ \E h \in Helper : HelperStep(h)
  \/ Environment

Spec == Init /\ [][Next]_vars

\* The code of a running process makes progress.  Nothing is assumed of the
\* user, who may never answer the authentication request, nor of other tools,
\* nor of the reboot, which may wait for a command's error output (Power).
Fairness ==
  /\ WF_vars(Command)
  /\ \A h \in Helper : WF_vars(HelperStep(h))

FairSpec == Spec /\ Fairness

-----------------------------------------------------------------------------
(* Properties                                                              *)

HelperPlaces == {"free", "auth", "run", "write", "verify", "answered"}

IsOptionalState(s) == s = None \/ IsState(s)

IsHelper(r) ==
  /\ r = [pc |-> r.pc, op |-> r.op, id |-> r.id, before |-> r.before,
          answer |-> r.answer]
  /\ r.pc \in HelperPlaces
  /\ r.op \in {"boot", "default", None}
  /\ r.id \in BootId \cup {None}
  /\ IsOptionalState(r.before)
  /\ r.answer \in Answers \cup {None}

MachineOK ==
  /\ IsState(nvram)
  /\ plugged \subseteq Partition
  /\ host \in {"up", "stopping"}
  /\ uefi \in BOOLEAN
  /\ edits \in 0..MaxEdits

\* The places of a command that has found the system it is about.
Underway == {"call", "wait", "verify", "reboot"}

InterfaceOK ==
  /\ readOnly \in BOOLEAN
  /\ pc \in {"idle", "prepare", "confirm", "default"} \cup Underway
  /\ op \in {"boot", "default"}
  /\ plan \in Plan \cup {None}
  /\ wanted \in StableIds \cup {None}
  /\ target \in BootId \cup {None}
  /\ inventory \subseteq Partition
  /\ IsOptionalState(before)
  /\ IsOptionalState(after)
  /\ armed \in BOOLEAN
  /\ reply \in Reply
  /\ callee \in Helper \cup {None}

HelpersOK ==
  /\ helper = [h \in Helper |-> helper[h]]
  /\ \A h \in Helper : IsHelper(helper[h])

SeenOK ==
  /\ seen = [r \in Reader |-> seen[r]]
  /\ \A r \in Reader : \A s \in seen[r] : IsState(s)

\* Every variable has its type.
TypeOK ==
  /\ MachineOK
  /\ InterfaceOK
  /\ HelpersOK
  /\ SeenOK
  /\ touched \in BOOLEAN
  /\ settled \in BOOLEAN

\* select.rs commit_selection and reboot_after: a reboot is attempted only if
\* the interface's own two snapshots, taken around the privileged call, agree
\* on everything but BootNext, and BootNext designates an entry that carries
\* the stable identifier the user confirmed and was selectable, whatever other
\* tools, the firmware or other helpers did in between.
RebootOnlyVerified ==
  pc = "reboot" =>
    /\ armed
    /\ \A v \in Var \ {BootNext} : after[v] = before[v]
    /\ after[BootNext] = target
    /\ after[target] \in LoadOption
    /\ StableId(after[target]) = wanted
    /\ Selectable(after[target], inventory)

\* commands.rs confirm_and_reboot: if nobody changes the firmware from the
\* moment the interface begins to read it back, then once the guard has accepted
\* the selection, and for as long as nobody changes it, the next boot goes to
\* the system the user confirmed, also when the automatic reboot failed and the
\* user is told so.  (Between two reads of a variable the guard cannot see.)
LandsOnConfirmed ==
  settled =>
    /\ nvram[BootNext] = target
    /\ nvram[target] \in LoadOption
    /\ StableId(nvram[target]) = wanted

\* backend.rs guarantees_no_write: the user is told that nothing was modified,
\* although the command's helper changed the firmware, only when the firmware
\* can no longer be read back after a write that succeeded: by the interface, or
\* by the helper, which then answers NotUefi.  No refusal, no denied or late
\* authentication, no process killed between its write and its answer, no
\* verdict of a guard and no later command makes that promise false.
PromiseFailsOnlyAtReadBack ==
  [][reply'.noWrite /\ touched' =>
       \/ reply.noWrite /\ touched
       \/ pc = "verify"
       \/ /\ pc = "wait"
          /\ helper[callee].answer = "NotUefi"
          /\ helper[callee].before # None]_vars

\* linux/mod.rs read_only: with --dry-run, the privileged process is never
\* started.
DryRunStartsNoHelper == readOnly => \A h \in Helper : helper[h].pc = "free"

\* select.rs and commands.rs: when the helper of the current command changes
\* the firmware, the entry it was told to use is, in the snapshot read for
\* this command, the one the user asked for, and a selectable one.
WritesOnlyWhatWasAsked ==
  [][~touched /\ touched' =>
       /\ before[target] \in LoadOption
       /\ StableId(before[target]) = wanted
       /\ Selectable(before[target], inventory)]_vars

\* linux_firmware.rs write_default_system: when the helper finds its write right,
\* whatever the firmware, other tools and other helpers did since its first
\* snapshot, then every variable but BootOrder had, at some moment since the
\* write, the value of that snapshot, and BootOrder started with the target and
\* held every identifier as often as before.  (If nobody changed the firmware
\* since the write, seen[h] is the firmware itself.)  Only a variable that a
\* read missed may escape.
DefaultVerified ==
  [][\A h \in Helper :
       helper[h].pc = "verify" /\ helper'[h].pc = "answered"
         /\ helper'[h].answer = "DefaultApplied" =>
       LET found == helper[h].before
       IN \E s \in seen[h] :
            /\ \A v \in Var \ {BootOrder} :
                 \/ s[v] = found[v]
                 \/ found[v] = Absent /\ \E m \in Missing : v \in m
            /\ HasBootOrder(s) /\ s[BootOrder][1] = helper[h].id
            /\ \A id \in BootId : Multiplicity(id, found[BootOrder])
                                   = Multiplicity(id, s[BootOrder])]_vars

\* The new list has first at its head and nowhere else; every other identifier
\* stands in it as often as in the old list, and they keep their order.
MovedToFront(old, new, first) ==
  /\ new[1] = first /\ Multiplicity(first, new) = 1
  /\ \A id \in BootId \ {first} : Multiplicity(id, old) = Multiplicity(id, new)
  /\ \A k, l \in 2..Len(new) : k < l =>
       \E m, n \in 1..Len(old) : m < n /\ old[m] = new[k] /\ old[n] = new[l]

\* linux_firmware.rs write_default_system: whatever the firmware makes of the
\* helper's write, and whoever changed BootOrder since the helper read it, the
\* permanent order is left alone or becomes the list the helper read with the
\* target moved to the front, even if that list repeats identifiers.
DefaultOnlyReorders ==
  [][\A h \in Helper :
       helper[h].pc = "write" /\ helper'[h].pc = "verify"
         /\ helper[h].op = "default" /\ nvram'[BootOrder] # nvram[BootOrder] =>
       MovedToFront(helper[h].before[BootOrder], nvram'[BootOrder],
                    helper[h].id)]_vars

\* The system the firmware boots next, if BootNext designates one.
Destination(s) ==
  IF s[BootNext] \in BootId /\ s[s[BootNext]] \in LoadOption
  THEN StableId(s[s[BootNext]]) ELSE None

Selection == INSTANCE OneBoot WITH
  System <- StableIds,
  Nobody <- None,
  goes <- Destination(nvram),
  asked <- IF pc \in Underway /\ op = "boot" THEN wanted ELSE None,
  calm <- pc = "verify" /\ seen[Ui] = {nvram},
  says <- IF settled THEN wanted ELSE None,
  sure <- pc = "reboot",
  stopping <- host = "stopping"

\* select.rs, commands.rs confirm_and_reboot and power.rs implement OneBoot:
\* the machine is restarted only by a selection, never by the permanent
\* command, and only after it has read the firmware back and found that it boots
\* the confirmed system next; what it found is so, unless a helper of an earlier
\* command or another tool changed the firmware while it was read.
BootsOnce == Selection!Spec

\* linux/elevate.rs wait_with_timeout: every command comes to its answer, which
\* releases the mutex, or to the reboot, even if the user never answers the
\* authentication.  (How long the reboot takes is a property of Power.)
CommandEnds == pc # "idle" ~> pc \in {"idle", "reboot"}

(* The properties below state what the repository says and the code does   *)
(* not do: each is checked by a run of its own and found violated.         *)

\* backend.rs guarantees_no_write: when the user is told that nothing was
\* modified, the command's helper changed nothing.
PromiseKept == reply.noWrite => ~touched

\* commands.rs says that the default system is resolved by its stable
\* identifier on a freshly read firmware: here, that the entry the helper put
\* first was, when the helper read it, the one the user chose.
DefaultIsTheChosenSystem ==
  pc = "wait" /\ helper[callee].answer = "DefaultApplied" =>
    /\ helper[callee].before[target] \in LoadOption
    /\ StableId(helper[callee].before[target]) = wanted

=============================================================================
