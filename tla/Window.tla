------------------------------- MODULE Window -------------------------------
(***************************************************************************)
(* The window of the application on Windows: app.js in the webview, the    *)
(* commands it calls, and the threads of hotplug.rs that tell it that a    *)
(* device came or went.                                                    *)
(*                                                                         *)
(* The commands are synchronous: the core serves them one at a time, in    *)
(* the order of the calls, and the webview receives the answers in that    *)
(* order.  Between a call and its answer the script handles every other    *)
(* event: clicks, Escape, timers, notifications and earlier answers.       *)
(*                                                                         *)
(* The buttons of the dialog have the class btn, whose display overrides   *)
(* the attribute hidden (styles.css): hiding them has no effect, disabling *)
(* the confirm button has.  The rename form is left out.                   *)
(***************************************************************************)
EXTENDS Naturals, Sequences

CONSTANTS
  Disk,         \* the disks that may be present; also names the row of each
  Listed,       \* those a firmware entry starts from
  Removable,    \* those that may come and go
  None,         \* no row, no plan
  MaxChanges,   \* bound on the changes of the devices
  MaxPrepares,  \* bound on the dialogs the user asks for
  MaxInputs,    \* bound on the sum of the two
  MaxCalls      \* the user does not click with more calls than this unanswered

ASSUME DiskAssumption ==
  Listed \subseteq Disk /\ Removable \subseteq Disk /\ None \notin Disk

ASSUME BoundsAssumption ==
  {MaxChanges, MaxPrepares, MaxInputs, MaxCalls} \subseteq Nat

VARIABLES
  \* --- the machine
  host,       \* "up" or "down"
  leaving,    \* a reboot was requested; another program may still veto it
  present,    \* the disks present
  changes,    \* how often that changed
  stuck,      \* the command in progress will never end
  \* --- hotplug.rs and main.rs
  watching,   \* watch() and message_loop started
  raw,        \* notifications the debounce thread has not received
  absorbing,  \* the debounce window is open
  events,     \* events it sent, on their way to the script
  \* --- the commands
  calls,      \* calls not served yet
  answers,    \* answers not received yet
  \* --- app.js
  view,       \* what the last AppView said, and of which version
  selected,   \* selectedId
  dialog,     \* the confirmation dialog and pendingPlan
  timers,     \* the targets of the reports whose 20 s timer runs
  \* --- bounds and history
  prepares,   \* dialogs asked for
  opened,     \* dialogs opened
  sent        \* calls of confirm_and_reboot

machineVars == <<host, leaving, present, changes, stuck>>

hotplugVars == <<watching, raw, absorbing, events>>

scriptVars == <<view, selected, dialog, timers>>

counters == <<prepares, opened, sent>>

vars == <<machineVars, hotplugVars, calls, answers, scriptVars, counters>>

-----------------------------------------------------------------------------
(* Data                                                                    *)

\* AppView: the disks seen by a detection, or none if it failed.
AppView == [known : BOOLEAN, disks : SUBSET Disk, seen : 0..MaxChanges]

\* Before the first answer there is nothing to show.
NoView == [known |-> FALSE, disks |-> {}, seen |-> 0]

Body == [kind : {"plan", "rebooting", "notRebooted"}, target : Disk \cup {None}]

Dialog == [open : BOOLEAN, plan : Disk \cup {None}, title : Disk \cup {None},
           body : Body, disabled : BOOLEAN]

Call == [cmd : {"refresh", "act", "elevate"}, id : {None}]
          \cup [cmd : {"prepare", "confirm"}, id : Disk]

Answer == [cmd : {"view", "plan", "report", "failed", "confirmFailed"},
           id : Disk \cup {None}, view : AppView]

\* A detection of the devices of this moment.  If they could not be listed, it
\* takes no entry for missing and shows no medium.  It may fail altogether.
Detections ==
  {[known |-> TRUE, disks |-> d, seen |-> changes] : d \in {present, Listed}}
    \cup {[known |-> FALSE, disks |-> {}, seen |-> changes]}

\* findEntry: entries live in the firmware, whether their disk is there or not.
FindEntry(v, id) == v.known /\ id \in Listed

\* findMedium: a disk without an entry has a row while it is present.
FindMedium(v, id) == id \in v.disks \ Listed

\* renderList: with the preferences of a new configuration, visible also lets
\* through the entries whose disk is missing.
Rows(v) == {d \in Disk : FindEntry(v, d) \/ FindMedium(v, d)}

\* renderEntryDetail: the buttons of a blocked entry are disabled.
Actionable(v, id) == FindEntry(v, id) /\ id \in v.disks

\* MUTANT: a vanished selection is kept.
KeepSelection(v, id) == id

\* The selection after render: the last definition of render forgets an
\* identifier that the new detection does not contain.
SelectionAfter(v, id) ==
  IF v.known /\ ~FindEntry(v, id) /\ ~FindMedium(v, id) THEN None ELSE id

-----------------------------------------------------------------------------
(* Devices and notifications                                               *)

\* message_loop, window_proc: each volume of the disk posts a message, which
\* becomes an event in the channel of the debounce thread, if there is one.
Notified(volumes) == IF watching THEN raw + volumes ELSE raw

\* A disk comes or goes.
PlugOrUnplug ==
  /\ host = "up"
  /\ changes < MaxChanges /\ changes + prepares < MaxInputs
  /\ \E d \in Removable : present' = (present \ {d}) \cup ({d} \ present)
  /\ changes' = changes + 1
  /\ \E volumes \in 1..2 : raw' = Notified(volumes)
  /\ UNCHANGED <<host, leaving, stuck, watching, absorbing, events, calls,
                 answers, scriptVars, counters>>

\* debounce_loop receives an event: the first opens the window, the others
\* are absorbed while it is open.
Absorb ==
  /\ host = "up"
  /\ raw > 0
  /\ raw' = raw - 1
  /\ absorbing' = TRUE
  /\ UNCHANGED <<machineVars, watching, events, calls, answers, scriptVars,
                 counters>>

\* MUTANT: the deadline consumes an event.
OneLess == raw - 1

\* The channel keeps what was not received before the deadline.
Unreceived == raw

\* The deadline, counted from the first event, is over: one event goes out,
\* which the thread of start_device_watcher relays to the script.
WindowEnds ==
  /\ host = "up"
  /\ absorbing
  /\ absorbing' = FALSE
  /\ events' = events + 1
  /\ raw' = Unreceived
  /\ UNCHANGED <<machineVars, watching, calls, answers, scriptVars, counters>>

\* MUTANT: one refresh at a time is thought to be enough.
RefreshUnlessPending ==
  IF \/ \E k \in DOMAIN calls : calls[k].cmd = "refresh"
     \/ \E k \in DOMAIN answers : answers[k].cmd = "view"
  THEN calls
  ELSE Append(calls, [cmd |-> "refresh", id |-> None])

RefreshCalled == Append(calls, [cmd |-> "refresh", id |-> None])

\* The listener of devices-changed calls refresh.
DevicesChanged ==
  /\ host = "up"
  /\ events > 0
  /\ events' = events - 1
  /\ calls' = RefreshCalled
  /\ UNCHANGED <<machineVars, watching, raw, absorbing, answers, scriptVars,
                 counters>>

-----------------------------------------------------------------------------
(* The user                                                                *)

CanClick ==
  /\ host = "up"
  /\ Len(calls) + Len(answers) < MaxCalls

\* A click on a row.
SelectRow ==
  /\ CanClick
  /\ \E d \in Rows(view) \ {selected} : selected' = d
  /\ UNCHANGED <<machineVars, hotplugVars, calls, answers, view,
                 dialog, timers, counters>>

\* The buttons that change something and answer with a new view: alias, name of
\* origin, default system; and elevation, when the entries could not be read.
Act ==
  /\ CanClick
  /\ \/ /\ selected # None
        /\ calls' = Append(calls, [cmd |-> "act", id |-> None])
     \/ /\ ~view.known
        /\ calls' = Append(calls, [cmd |-> "elevate", id |-> None])
  /\ UNCHANGED <<machineVars, hotplugVars, answers, scriptVars, counters>>

\* The button "Redémarrer sur ..." of the selected entry.  Nothing prevents a
\* second click before the answer, nor, by keyboard, a click behind the dialog.
AskDialog ==
  /\ CanClick
  /\ prepares < MaxPrepares /\ changes + prepares < MaxInputs
  /\ Actionable(view, selected)
  /\ calls' = Append(calls, [cmd |-> "prepare", id |-> selected])
  /\ prepares' = prepares + 1
  /\ UNCHANGED <<machineVars, hotplugVars, answers, scriptVars, opened,
                 sent>>

\* closeDialog
Closed(d) == [d EXCEPT !.open = FALSE, !.plan = None, !.disabled = FALSE]

\* Annuler, or Escape: possible at any moment, a call in progress or not.
Cancel ==
  /\ host = "up"
  /\ dialog.open
  /\ dialog' = Closed(dialog)
  /\ UNCHANGED <<machineVars, hotplugVars, calls, answers, view,
                 selected, timers, counters>>

\* The confirm button can be pressed.
Confirmable == dialog.open /\ ~dialog.disabled /\ dialog.plan # None

\* MUTANT: the button stays enabled during the call.
StaysEnabled(d) == d

Disabled(d) == [d EXCEPT !.disabled = TRUE]

\* MUTANT: the call is about the row selected now.
PlanOfSelection == selected

PlanToSend == dialog.plan

\* The click handler of the confirm button, up to its await.
Confirm ==
  /\ host = "up"
  /\ Confirmable
  /\ dialog' = Disabled(dialog)
  /\ calls' = Append(calls, [cmd |-> "confirm", id |-> PlanToSend])
  /\ sent' = sent + 1
  /\ UNCHANGED <<machineVars, hotplugVars, answers, view, selected,
                 timers, prepares, opened>>

-----------------------------------------------------------------------------
(* The commands                                                            *)

\* The answers the core may give to a call.  Whether a system can be prepared
\* and confirmed is up to the firmware.
AnswersTo(c) ==
  LET Told(kind, v) == [cmd |-> kind, id |-> c.id, view |-> v]
  IN CASE c.cmd = "refresh" -> {Told("view", v) : v \in Detections}
       [] c.cmd \in {"act", "elevate"} ->
            {Told("view", v) : v \in Detections} \cup {Told("failed", NoView)}
       [] c.cmd = "prepare" -> {Told("plan", NoView), Told("failed", NoView)}
       [] c.cmd = "confirm" ->
            {Told("report", NoView), Told("confirmFailed", NoView)}

\* A command holds the mutex from its first to its last step.  Only a
\* successful confirm_and_reboot requests a reboot.
Serve ==
  /\ host = "up" /\ ~stuck
  /\ calls # << >>
  /\ calls' = Tail(calls)
  /\ \E a \in AnswersTo(Head(calls)) :
       /\ answers' = Append(answers, a)
       /\ leaving' = (leaving \/ a.cmd = "report")
  /\ UNCHANGED <<host, present, changes, stuck, hotplugVars, scriptVars,
                 counters>>

\* elevate.rs, launch: the helper that the user has accepted never opens the
\* pipe, and the command, with the mutex, waits for it for ever.
NeverEnds ==
  /\ host = "up" /\ ~stuck
  /\ calls # << >> /\ Head(calls).cmd = "elevate"
  /\ stuck' = TRUE
  /\ UNCHANGED <<host, leaving, present, changes, hotplugVars, calls, answers,
                 scriptVars, counters>>

\* The session ends; everything in the window is gone.
GoDown ==
  /\ host = "up"
  /\ leaving
  /\ host' = "down"
  /\ UNCHANGED <<leaving, present, changes, stuck, hotplugVars, calls,
                 answers, scriptVars, counters>>

-----------------------------------------------------------------------------
(* The script receives an answer                                           *)

\* MUTANT: a report sets no timer, as in an earlier version.
NoTimer(target) == timers

TimerSet(target) == Append(timers, target)

\* openDialog
Opened(target) ==
  [dialog EXCEPT !.open = TRUE, !.plan = target, !.title = target,
                 !.body = [kind |-> "plan", target |-> target]]

\* A new view is rendered.
Rendered(a) ==
  /\ a.cmd = "view"
  /\ view' = a.view
  /\ selected' = SelectionAfter(a.view, selected)
  /\ UNCHANGED <<dialog, timers, opened>>

\* prepare_selection has answered: the dialog opens, over another one perhaps.
DialogOpens(a) ==
  /\ a.cmd = "plan"
  /\ dialog' = Opened(a.id)
  /\ opened' = opened + 1
  /\ UNCHANGED <<view, selected, timers>>

\* confirm_and_reboot has succeeded: the body of whatever dialog is there now
\* is rewritten.
Reported(a) ==
  /\ a.cmd = "report"
  /\ dialog' = [dialog EXCEPT !.body = [kind |-> "rebooting", target |-> a.id]]
  /\ timers' = TimerSet(a.id)
  /\ UNCHANGED <<view, selected, opened>>

\* confirm_and_reboot has failed: whatever dialog is open now is closed.
ConfirmFailed(a) ==
  /\ a.cmd = "confirmFailed"
  /\ dialog' = Closed(dialog)
  /\ UNCHANGED <<view, selected, timers, opened>>

\* Another command has failed: only the status line says so.
Failed(a) ==
  /\ a.cmd = "failed"
  /\ UNCHANGED <<scriptVars, opened>>

Receive ==
  /\ host = "up"
  /\ answers # << >>
  /\ answers' = Tail(answers)
  /\ LET a == Head(answers)
     IN \/ Rendered(a) \/ DialogOpens(a) \/ Reported(a)
        \/ ConfirmFailed(a) \/ Failed(a)
  /\ UNCHANGED <<machineVars, hotplugVars, calls, prepares, sent>>

\* Twenty seconds after a report: if a dialog is open, its body is rewritten.
TimerFires ==
  /\ host = "up"
  /\ timers # << >>
  /\ timers' = Tail(timers)
  /\ dialog' = IF dialog.open
               THEN [dialog EXCEPT !.body = [kind |-> "notRebooted",
                                             target |-> Head(timers)]]
               ELSE dialog
  /\ UNCHANGED <<machineVars, hotplugVars, calls, answers, view,
                 selected, counters>>

-----------------------------------------------------------------------------
(* Specification                                                           *)

Init ==
  /\ host = "up" /\ leaving = FALSE
  /\ \E s \in SUBSET Removable : present = Disk \ s
  /\ changes = 0 /\ stuck = FALSE
  /\ watching \in BOOLEAN
  /\ raw = 0 /\ absorbing = FALSE /\ events = 0
  /\ calls = <<[cmd |-> "refresh", id |-> None]>>
  /\ answers = << >>
  /\ view = NoView /\ selected = None
  /\ dialog = [open |-> FALSE, plan |-> None, title |-> None,
               body |-> [kind |-> "plan", target |-> None], disabled |-> FALSE]
  /\ timers = << >>
  /\ prepares = 0 /\ opened = 0 /\ sent = 0

Next ==
  \/ PlugOrUnplug \/ Absorb \/ WindowEnds \/ DevicesChanged
  \/ SelectRow \/ Act \/ AskDialog \/ Cancel \/ Confirm
  \/ Serve \/ NeverEnds \/ GoDown \/ Receive \/ TimerFires

\* The threads run, messages and events arrive, commands end, unless an
\* elevation waits for ever, and timers expire; nothing obliges the user or the
\* devices to do anything.
Spec ==
  /\ Init /\ [][Next]_vars
  /\ WF_vars(Absorb) /\ WF_vars(WindowEnds) /\ WF_vars(DevicesChanged)
  /\ WF_vars(Serve) /\ WF_vars(Receive) /\ WF_vars(TimerFires)

-----------------------------------------------------------------------------
(* Properties                                                              *)

\* Every variable keeps its type; the counters stay within their bounds.
WindowTypeOK ==
  /\ host \in {"up", "down"} /\ leaving \in BOOLEAN
  /\ present \subseteq Disk /\ changes \in 0..MaxChanges /\ stuck \in BOOLEAN
  /\ watching \in BOOLEAN /\ absorbing \in BOOLEAN
  /\ raw \in Nat /\ events \in Nat
  /\ calls \in Seq(Call) /\ answers \in Seq(Answer)
  /\ view \in AppView /\ selected \in Disk \cup {None}
  /\ dialog \in Dialog /\ timers \in Seq(Disk)
  /\ prepares \in 0..MaxPrepares /\ opened \in Nat /\ sent \in Nat

\* app.js, confirm handler: whatever dialogs opened, closed or were replaced
\* meanwhile, each dialog leads to at most one call of confirm_and_reboot.
OneConfirmPerDialog == sent <= opened

\* app.js, openDialog and the confirm handler: confirm_and_reboot is called
\* only while a dialog is shown, and for the system its title names.
ConfirmsOnlyWhatTheTitleNames ==
  [][sent' # sent =>
       /\ dialog.open
       /\ calls'[Len(calls')] = [cmd |-> "confirm", id |-> dialog.title]]_vars

\* app.js, render: the selection is always something the current view lists,
\* also after its device was unplugged, so that no button acts on a ghost.
SelectionIsListed ==
  view.known /\ selected # None =>
    FindEntry(view, selected) \/ FindMedium(view, selected)

\* app.js, the timer of a report: the dialog does not say for ever that the
\* machine is rebooting.
RebootingEnds ==
  (host = "up" /\ dialog.open /\ dialog.body.kind = "rebooting")
    ~> (host = "down" \/ ~dialog.open \/ dialog.body.kind # "rebooting")

\* hotplug.rs, main.rs and the listener of app.js: the window implements
\* FreshView.  No view is replaced by an older one, and with a running watcher
\* the last change of the devices reaches the window, however the
\* notifications are grouped, unless a command never ends.
Fresh == INSTANCE FreshView WITH
  source <- changes, shown <- view.seen,
  told <- watching /\ host = "up" /\ ~stuck

ShowsTheDevices == Fresh!Spec

\* index.html:74, "Dialogue de confirmation. Enonce exactement ce qui sera
\* fait.": a dialog that can be confirmed describes what confirming does.
DialogSaysWhatWillBeDone ==
  Confirmable => dialog.body = [kind |-> "plan", target |-> dialog.plan]

=============================================================================
