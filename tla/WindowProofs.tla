---------------------------- MODULE WindowProofs ----------------------------
(***************************************************************************)
(* The safety properties of Window, for any disks and any bounds, and the  *)
(* safety part of its refinement of FreshView.                             *)
(***************************************************************************)
EXTENDS Window, TLAPS

\* The dialog that is shown was opened for the system of its title, and one
\* that can be confirmed was opened and not confirmed yet.
DialogInv ==
  /\ dialog.plan # None => dialog.open /\ dialog.title = dialog.plan
  /\ sent + (IF Confirmable THEN 1 ELSE 0) <= opened

\* The views on their way to the window are of versions that exist, none older
\* than the one shown or than one before it.
ViewsInOrder ==
  /\ view.seen <= changes
  /\ \A k \in DOMAIN answers :
       answers[k].cmd = "view" =>
         view.seen <= answers[k].view.seen /\ answers[k].view.seen <= changes
  /\ \A j, k \in DOMAIN answers :
       j <= k /\ answers[j].cmd = "view" /\ answers[k].cmd = "view" =>
         answers[j].view.seen <= answers[k].view.seen

\* A dialog opens, and a reboot is reported, for a disk.
AnswersNameDisks ==
  \A k \in DOMAIN answers :
    answers[k].cmd \in {"plan", "report"} => answers[k].id \in Disk

WindowInv ==
  /\ WindowTypeOK /\ AnswersNameDisks
  /\ DialogInv /\ SelectionIsListed /\ ViewsInOrder

-----------------------------------------------------------------------------
(* Data                                                                    *)

\* There is a view before the first answer.
LEMMA NoViewType == NoView \in AppView
  BY BoundsAssumption DEF NoView, AppView

\* A detection gives a view.
LEMMA DetectionsType ==
  ASSUME WindowTypeOK
  PROVE  Detections \subseteq AppView
<1>1. /\ changes \in 0..MaxChanges
      /\ \A d \in {present, Listed} : d \in SUBSET Disk
  BY DiskAssumption DEF WindowTypeOK
<1>2. \A k \in BOOLEAN, d \in SUBSET Disk :
        [known |-> k, disks |-> d, seen |-> changes] \in AppView
  BY <1>1 DEF AppView
<1>3. {} \in SUBSET Disk
  OBVIOUS
<1> QED
  BY <1>1, <1>2, <1>3 DEF Detections

\* An answer is about the system of its call, and a view is of this moment.
LEMMA AnswersToCall ==
  ASSUME WindowTypeOK, NEW c \in Call, NEW a \in AnswersTo(c)
  PROVE  /\ a \in Answer
         /\ a.cmd = "view" => a.view.seen = changes
         /\ a.cmd \in {"plan", "report"} => a.id \in Disk
<1>1. \A v \in Detections : v \in AppView /\ v.seen = changes
  BY DetectionsType DEF Detections
<1>2. /\ c.id \in Disk \cup {None} /\ c.cmd \in {"refresh", "act", "elevate", "prepare", "confirm"}
      /\ c.cmd \in {"prepare", "confirm"} => c.id \in Disk
  BY DEF Call
<1>3. CASE c.cmd = "refresh"
  BY <1>1, <1>2, <1>3 DEF AnswersTo, Answer
<1>4. CASE c.cmd \in {"act", "elevate"}
  BY <1>1, <1>2, <1>4, NoViewType DEF AnswersTo, Answer
<1>5. CASE c.cmd = "prepare"
  BY <1>2, <1>5, NoViewType DEF AnswersTo, Answer, WindowTypeOK
<1>6. CASE c.cmd = "confirm"
  BY <1>2, <1>6, NoViewType DEF AnswersTo, Answer, WindowTypeOK
<1> QED
  BY <1>2, <1>3, <1>4, <1>5, <1>6

-----------------------------------------------------------------------------
(* The type invariant                                                      *)

\* The types hold initially.
LEMMA TypeInit == Init => WindowTypeOK
<1> SUFFICES ASSUME Init PROVE WindowTypeOK
  OBVIOUS
<1>1. calls \in Seq(Call)
  BY DEF Init, Call
<1>2. answers \in Seq(Answer) /\ timers \in Seq(Disk)
  BY DEF Init
<1>3. dialog \in Dialog
  BY DEF Init, Dialog, Body
<1>4. present \subseteq Disk /\ changes \in 0..MaxChanges /\ prepares \in 0..MaxPrepares
  BY BoundsAssumption DEF Init
<1> QED
  BY <1>1, <1>2, <1>3, <1>4, NoViewType DEF Init, WindowTypeOK

\* The devices and the threads that report them.
LEMMA DevicesType ==
  ASSUME WindowTypeOK, PlugOrUnplug \/ Absorb \/ WindowEnds \/ DevicesChanged
  PROVE  WindowTypeOK'
<1>1. CASE PlugOrUnplug
  <2>1. present' \subseteq Disk
    BY <1>1, DiskAssumption DEF WindowTypeOK, PlugOrUnplug
  <2>2. changes' \in 0..MaxChanges
    BY <1>1, BoundsAssumption DEF WindowTypeOK, PlugOrUnplug
  <2>3. raw' \in Nat
    BY <1>1 DEF WindowTypeOK, PlugOrUnplug, Notified
  <2> QED
    BY <1>1, <2>1, <2>2, <2>3 DEF WindowTypeOK, PlugOrUnplug, scriptVars, counters
<1>2. CASE Absorb
  BY <1>2 DEF WindowTypeOK, Absorb, machineVars, scriptVars, counters
<1>3. CASE WindowEnds
  <2>1. raw' \in Nat /\ events' \in Nat
    BY <1>3 DEF WindowTypeOK, WindowEnds, Unreceived
  <2> QED
    BY <1>3, <2>1 DEF WindowTypeOK, WindowEnds, machineVars, scriptVars, counters
<1>4. CASE DevicesChanged
  <2>1. [cmd |-> "refresh", id |-> None] \in Call
    BY DEF Call
  <2>2. calls' \in Seq(Call)
    BY <1>4, <2>1 DEF WindowTypeOK, DevicesChanged, RefreshCalled
  <2> QED
    BY <1>4, <2>2 DEF WindowTypeOK, DevicesChanged, machineVars, scriptVars, counters
<1> QED
  BY <1>1, <1>2, <1>3, <1>4

\* The user.
LEMMA UserType ==
  ASSUME WindowTypeOK, SelectRow \/ Act \/ AskDialog \/ Cancel \/ Confirm
  PROVE  WindowTypeOK'
<1>1. CASE SelectRow
  BY <1>1 DEF WindowTypeOK, SelectRow, Rows, machineVars, hotplugVars, counters
<1>2. CASE Act
  <2>1. \A cmd \in {"act", "elevate"} : [cmd |-> cmd, id |-> None] \in Call
    BY DEF Call
  <2>2. PICK cmd \in {"act", "elevate"} :
          calls' = Append(calls, [cmd |-> cmd, id |-> None])
    BY <1>2 DEF Act
  <2>3. calls' \in Seq(Call)
    BY <2>1, <2>2 DEF WindowTypeOK
  <2> QED
    BY <1>2, <2>3 DEF WindowTypeOK, Act, machineVars, hotplugVars, scriptVars, counters
<1>3. CASE AskDialog
  <2>1. [cmd |-> "prepare", id |-> selected] \in Call
    BY <1>3, DiskAssumption DEF Call, AskDialog, Actionable, FindEntry
  <2>2. calls' \in Seq(Call)
    BY <1>3, <2>1 DEF WindowTypeOK, AskDialog
  <2>3. prepares' \in 0..MaxPrepares
    BY <1>3, BoundsAssumption DEF WindowTypeOK, AskDialog
  <2> QED
    BY <1>3, <2>2, <2>3 DEF WindowTypeOK, AskDialog, machineVars, hotplugVars, scriptVars
<1>4. CASE Cancel
  <2>1. dialog' \in Dialog
    BY <1>4 DEF WindowTypeOK, Cancel, Closed, Dialog
  <2> QED
    BY <1>4, <2>1 DEF WindowTypeOK, Cancel, machineVars, hotplugVars, counters
<1>5. CASE Confirm
  <2>1. dialog' \in Dialog
    BY <1>5 DEF WindowTypeOK, Confirm, Disabled, Dialog
  <2>2. [cmd |-> "confirm", id |-> dialog.plan] \in Call
    BY <1>5 DEF Call, Confirm, Confirmable, WindowTypeOK, Dialog
  <2>3. calls' \in Seq(Call)
    BY <1>5, <2>2 DEF WindowTypeOK, Confirm, PlanToSend
  <2>4. sent' \in Nat
    BY <1>5 DEF WindowTypeOK, Confirm
  <2> QED
    BY <1>5, <2>1, <2>3, <2>4 DEF WindowTypeOK, Confirm, machineVars, hotplugVars
<1> QED
  BY <1>1, <1>2, <1>3, <1>4, <1>5

\* The core and the end of the session.
LEMMA CoreType ==
  ASSUME WindowTypeOK, Serve \/ NeverEnds \/ GoDown
  PROVE  WindowTypeOK'
<1>1. CASE Serve
  <2>1. Head(calls) \in Call /\ calls' \in Seq(Call)
    BY <1>1 DEF Serve, WindowTypeOK
  <2>2. PICK a \in AnswersTo(Head(calls)) :
          answers' = Append(answers, a) /\ leaving' = (leaving \/ a.cmd = "report")
    BY <1>1 DEF Serve
  <2>3. answers' \in Seq(Answer) /\ leaving' \in BOOLEAN
    BY <2>1, <2>2, AnswersToCall DEF WindowTypeOK
  <2> QED
    BY <1>1, <2>1, <2>3 DEF Serve, WindowTypeOK, hotplugVars, scriptVars, counters
<1>2. CASE NeverEnds \/ GoDown
  BY <1>2 DEF WindowTypeOK, NeverEnds, GoDown, hotplugVars, scriptVars, counters
<1> QED
  BY <1>1, <1>2

\* The answer that is received, and those that stay on their way.
LEMMA HeadAnswer ==
  ASSUME WindowTypeOK, answers # << >>
  PROVE  /\ Head(answers) = answers[1] /\ 1 \in DOMAIN answers
         /\ Head(answers) \in Answer
         /\ Tail(answers) \in Seq(Answer)
         /\ \A k \in DOMAIN Tail(answers) :
              k \in Nat /\ k + 1 \in DOMAIN answers
                /\ Tail(answers)[k] = answers[k + 1]
<1>1. answers \in Seq(Answer)
  BY DEF WindowTypeOK
<1> QED
  BY <1>1

\* An answer is received: what the script does with it.
LEMMA ReceiveType ==
  ASSUME WindowTypeOK, AnswersNameDisks, Receive
  PROVE  WindowTypeOK'
<1> DEFINE a == Head(answers)
<1>1. a \in Answer /\ answers' \in Seq(Answer)
  BY HeadAnswer DEF Receive
<1>2. a.cmd \in {"plan", "report"} => a.id \in Disk
  BY HeadAnswer DEF AnswersNameDisks, Receive
<1>3. /\ a.view \in AppView
      /\ Rendered(a) \/ DialogOpens(a) \/ Reported(a) \/ ConfirmFailed(a) \/ Failed(a)
  BY <1>1 DEF Receive, Answer
<1>4. view' \in AppView
  BY <1>3 DEF WindowTypeOK, Rendered, DialogOpens, Reported, ConfirmFailed,
              Failed, scriptVars
<1>5. selected' \in Disk \cup {None}
  BY <1>3 DEF WindowTypeOK, Rendered, DialogOpens, Reported, ConfirmFailed,
              Failed, scriptVars, SelectionAfter
<1>6. timers' \in Seq(Disk)
  <2>1. timers' = timers \/ (timers' = Append(timers, a.id) /\ a.cmd = "report")
    BY <1>3 DEF Rendered, DialogOpens, Reported, ConfirmFailed, Failed,
                scriptVars, TimerSet
  <2> QED
    BY <1>2, <2>1 DEF WindowTypeOK
<1>7. opened' \in Nat
  BY <1>3 DEF WindowTypeOK, Rendered, DialogOpens, Reported, ConfirmFailed, Failed
<1>8. dialog' \in Dialog
  <2>1. CASE Rendered(a) \/ Failed(a)
    BY <2>1 DEF WindowTypeOK, Rendered, Failed, scriptVars
  <2>2. CASE DialogOpens(a)
    <3>1. [kind |-> "plan", target |-> a.id] \in Body
      BY <1>2, <2>2 DEF DialogOpens, Body
    <3> QED
      BY <1>2, <2>2, <3>1 DEF WindowTypeOK, DialogOpens, Opened, Dialog
  <2>3. CASE Reported(a)
    <3>1. [kind |-> "rebooting", target |-> a.id] \in Body
      BY <1>2, <2>3 DEF Reported, Body
    <3> QED
      BY <2>3, <3>1 DEF WindowTypeOK, Reported, Dialog
  <2>4. CASE ConfirmFailed(a)
    BY <2>4 DEF WindowTypeOK, ConfirmFailed, Closed, Dialog
  <2> QED
    BY <1>3, <2>1, <2>2, <2>3, <2>4
<1> QED
  BY <1>1, <1>4, <1>5, <1>6, <1>7, <1>8
  DEF WindowTypeOK, Receive, machineVars, hotplugVars

\* A timer fires.
LEMMA TimerType ==
  ASSUME WindowTypeOK, TimerFires
  PROVE  WindowTypeOK'
<1>1. Head(timers) \in Disk /\ timers' \in Seq(Disk)
  BY DEF WindowTypeOK, TimerFires
<1>2. [kind |-> "notRebooted", target |-> Head(timers)] \in Body
  BY <1>1 DEF Body
<1>3. dialog' \in Dialog
  BY <1>2 DEF WindowTypeOK, TimerFires, Dialog
<1> QED
  BY <1>1, <1>3 DEF WindowTypeOK, TimerFires, machineVars, hotplugVars, counters

\* A step that changes nothing keeps the types.
LEMMA StutterType ==
  ASSUME WindowTypeOK, UNCHANGED vars
  PROVE  WindowTypeOK'
  BY DEF vars, machineVars, hotplugVars, scriptVars, counters, WindowTypeOK

\* Every step keeps the types.
LEMMA TypeStep ==
  ASSUME WindowTypeOK, AnswersNameDisks, [Next]_vars
  PROVE  WindowTypeOK'
  BY DevicesType, UserType, CoreType, ReceiveType, TimerType, StutterType DEF Next

-----------------------------------------------------------------------------
(* The answers on their way                                                *)

\* No answer is on its way initially.
LEMMA AnswersInit == Init => AnswersNameDisks /\ ViewsInOrder
  BY DEF Init, AnswersNameDisks, ViewsInOrder, NoView

\* The steps that neither answer nor receive an answer.
LEMMA QuietAnswers ==
  ASSUME WindowTypeOK, AnswersNameDisks, ViewsInOrder, [Next]_vars, ~Serve, ~Receive
  PROVE  AnswersNameDisks' /\ ViewsInOrder'
<1>1. answers' = answers /\ view' = view
  BY DEF Next, vars, machineVars, hotplugVars, scriptVars, counters, PlugOrUnplug,
         Absorb, WindowEnds, DevicesChanged, SelectRow, Act, AskDialog, Cancel,
         Confirm, NeverEnds, GoDown, TimerFires
<1>2. changes' = changes \/ changes' = changes + 1
  BY DEF Next, vars, machineVars, hotplugVars, scriptVars, counters, PlugOrUnplug,
         Absorb, WindowEnds, DevicesChanged, SelectRow, Act, AskDialog, Cancel,
         Confirm, NeverEnds, GoDown, TimerFires
<1>3. /\ changes \in Nat /\ view.seen \in Nat
      /\ \A k \in DOMAIN answers : answers[k].view.seen \in Nat
  <2>1. \A v \in AppView : v.seen \in Nat
    BY BoundsAssumption DEF AppView
  <2>2. \A k \in DOMAIN answers : answers[k].view \in AppView
    <3>1. answers \in Seq(Answer)
      BY DEF WindowTypeOK
    <3>2. \A k \in DOMAIN answers : answers[k] \in Answer
      BY <3>1
    <3> QED
      BY <3>2 DEF Answer
  <2> QED
    BY <2>1, <2>2, BoundsAssumption DEF WindowTypeOK
<1> QED
  BY <1>1, <1>2, <1>3 DEF AnswersNameDisks, ViewsInOrder

\* A command that is served adds the newest answer.
LEMMA ServeAnswers ==
  ASSUME WindowTypeOK, AnswersNameDisks, ViewsInOrder, Serve
  PROVE  AnswersNameDisks' /\ ViewsInOrder'
<1>1. Head(calls) \in Call
  BY DEF Serve, WindowTypeOK
<1>2. PICK a \in AnswersTo(Head(calls)) : answers' = Append(answers, a)
  BY DEF Serve
<1>3. /\ a \in Answer
      /\ a.cmd = "view" => a.view.seen = changes
      /\ a.cmd \in {"plan", "report"} => a.id \in Disk
  BY <1>1, AnswersToCall
<1> DEFINE n == Len(answers)
<1>4. /\ n \in Nat /\ DOMAIN answers = 1..n /\ DOMAIN answers' = 1..(n + 1)
      /\ answers'[n + 1] = a
      /\ \A k \in 1..n : answers'[k] = answers[k]
  BY <1>2, <1>3 DEF WindowTypeOK
<1>5. changes' = changes /\ view' = view /\ changes \in Nat
  BY BoundsAssumption DEF Serve, scriptVars, WindowTypeOK
<1>6. AnswersNameDisks'
  <2> SUFFICES ASSUME NEW k \in 1..(n + 1), answers'[k].cmd \in {"plan", "report"}
               PROVE  answers'[k].id \in Disk
    BY <1>4 DEF AnswersNameDisks
  <2>1. k \in 1..n \/ k = n + 1
    BY <1>4
  <2> QED
    BY <2>1, <1>3, <1>4 DEF AnswersNameDisks
<1>7. \A k \in 1..(n + 1) : answers'[k].cmd = "view" =>
        view.seen <= answers'[k].view.seen /\ answers'[k].view.seen <= changes
  <2> SUFFICES ASSUME NEW k \in 1..(n + 1), answers'[k].cmd = "view"
               PROVE  /\ view.seen <= answers'[k].view.seen
                      /\ answers'[k].view.seen <= changes
    OBVIOUS
  <2>1. k \in 1..n \/ k = n + 1
    BY <1>4
  <2> QED
    BY <2>1, <1>3, <1>4, <1>5 DEF ViewsInOrder
<1>8. \A j, k \in 1..(n + 1) :
        j <= k /\ answers'[j].cmd = "view" /\ answers'[k].cmd = "view" =>
          answers'[j].view.seen <= answers'[k].view.seen
  <2> SUFFICES ASSUME NEW j \in 1..(n + 1), NEW k \in 1..(n + 1), j <= k,
                      answers'[j].cmd = "view", answers'[k].cmd = "view"
               PROVE  answers'[j].view.seen <= answers'[k].view.seen
    OBVIOUS
  <2>1. CASE k \in 1..n
    <3>1. j \in 1..n
      BY <1>4, <2>1
    <3> QED
      BY <2>1, <3>1, <1>4 DEF ViewsInOrder
  <2>2. CASE k = n + 1
    <3>1. answers'[k].view.seen = changes
      BY <2>2, <1>3, <1>4
    <3> QED
      BY <3>1, <1>7
  <2> QED
    BY <2>1, <2>2, <1>4
<1> QED
  BY <1>4, <1>5, <1>6, <1>7, <1>8 DEF ViewsInOrder

\* The script takes the oldest answer.
LEMMA ReceiveAnswers ==
  ASSUME WindowTypeOK, AnswersNameDisks, ViewsInOrder, Receive
  PROVE  AnswersNameDisks' /\ ViewsInOrder' /\ view.seen <= view'.seen
<1> DEFINE a == Head(answers)
<1>1. /\ a = answers[1] /\ 1 \in DOMAIN answers /\ answers' = Tail(answers)
      /\ \A k \in DOMAIN Tail(answers) :
           k \in Nat /\ k + 1 \in DOMAIN answers /\ Tail(answers)[k] = answers[k + 1]
  BY HeadAnswer DEF Receive
<1>2. AnswersNameDisks'
  BY <1>1 DEF AnswersNameDisks
<1>3. changes' = changes /\ view.seen \in Nat
  BY BoundsAssumption DEF Receive, machineVars, WindowTypeOK, AppView
<1>4. CASE a.cmd = "view"
  <2>1. view' = a.view
    BY <1>4 DEF Receive, Rendered, DialogOpens, Reported, ConfirmFailed, Failed
  <2>2. view.seen <= a.view.seen /\ a.view.seen <= changes
    BY <1>1, <1>4 DEF ViewsInOrder
  <2>3. \A k \in DOMAIN Tail(answers) :
          answers[k + 1].cmd = "view" => a.view.seen <= answers[k + 1].view.seen
    BY <1>1, <1>4 DEF ViewsInOrder
  <2>4. ViewsInOrder'
    BY <1>1, <1>3, <2>1, <2>2, <2>3 DEF ViewsInOrder
  <2> QED
    BY <1>2, <2>1, <2>2, <2>4
<1>5. CASE a.cmd # "view"
  <2>1. view' = view
    BY <1>5 DEF Receive, Rendered, DialogOpens, Reported, ConfirmFailed, Failed,
                scriptVars
  <2>2. ViewsInOrder'
    BY <1>1, <1>3, <2>1 DEF ViewsInOrder
  <2> QED
    BY <1>2, <1>3, <2>1, <2>2
<1> QED
  BY <1>4, <1>5

\* Every step keeps the views in order.
LEMMA AnswersStep ==
  ASSUME WindowTypeOK, AnswersNameDisks, ViewsInOrder, [Next]_vars
  PROVE  AnswersNameDisks' /\ ViewsInOrder'
  BY QuietAnswers, ServeAnswers, ReceiveAnswers

-----------------------------------------------------------------------------
(* The dialog and the selection                                            *)

\* No dialog is shown initially, and nothing is selected.
LEMMA DialogInit == Init => DialogInv /\ SelectionIsListed
  BY DEF Init, DialogInv, Confirmable, SelectionIsListed, NoView

\* The steps that leave the dialog and its counters alone.
LEMMA DialogKept ==
  ASSUME DialogInv, UNCHANGED <<dialog, opened, sent>>
  PROVE  DialogInv'
  BY DEF DialogInv, Confirmable

\* The user and the timers: a confirmation uses up the dialog.
LEMMA DialogInput ==
  ASSUME WindowTypeOK, DialogInv, Cancel \/ Confirm \/ TimerFires
  PROVE  DialogInv'
<1>1. CASE Cancel
  <2>1. dialog'.plan = None /\ opened' = opened /\ sent' = sent
    BY <1>1 DEF Cancel, Closed, counters, WindowTypeOK, Dialog
  <2>2. sent <= opened
    BY DEF DialogInv, WindowTypeOK
  <2> QED
    BY <2>1, <2>2 DEF DialogInv, Confirmable, WindowTypeOK
<1>2. CASE Confirm
  <2>1. /\ dialog'.open = dialog.open /\ dialog'.plan = dialog.plan
        /\ dialog'.title = dialog.title /\ dialog'.disabled = TRUE
    BY <1>2 DEF Confirm, Disabled, WindowTypeOK, Dialog
  <2>2. Confirmable /\ sent' = sent + 1 /\ opened' = opened
    BY <1>2 DEF Confirm
  <2> QED
    BY <2>1, <2>2 DEF DialogInv, Confirmable, WindowTypeOK
<1>3. CASE TimerFires
  <2>1. /\ dialog'.open = dialog.open /\ dialog'.plan = dialog.plan
        /\ dialog'.title = dialog.title /\ dialog'.disabled = dialog.disabled
    BY <1>3 DEF TimerFires, WindowTypeOK, Dialog
  <2>2. opened' = opened /\ sent' = sent
    BY <1>3 DEF TimerFires, counters
  <2> QED
    BY <2>1, <2>2 DEF DialogInv, Confirmable
<1> QED
  BY <1>1, <1>2, <1>3

\* The answers: a plan opens the dialog for its system.
LEMMA DialogAnswer ==
  ASSUME WindowTypeOK, DialogInv, Receive
  PROVE  DialogInv'
<1> DEFINE a == Head(answers)
<1>1. Rendered(a) \/ DialogOpens(a) \/ Reported(a) \/ ConfirmFailed(a) \/ Failed(a)
  BY DEF Receive
<1>2. sent' = sent /\ sent \in Nat /\ opened \in Nat
  BY DEF Receive, WindowTypeOK
<1>3. CASE Rendered(a) \/ Failed(a)
  BY <1>2, <1>3, DialogKept DEF Rendered, Failed, scriptVars
<1>4. CASE DialogOpens(a)
  <2>1. /\ dialog'.open = TRUE /\ dialog'.plan = a.id /\ dialog'.title = a.id
        /\ dialog'.disabled = dialog.disabled /\ opened' = opened + 1
    BY <1>4 DEF DialogOpens, Opened, WindowTypeOK, Dialog
  <2>2. sent <= opened
    BY <1>2 DEF DialogInv
  <2> QED
    BY <1>2, <2>1, <2>2 DEF DialogInv, Confirmable
<1>5. CASE Reported(a)
  <2>1. /\ dialog'.open = dialog.open /\ dialog'.plan = dialog.plan
        /\ dialog'.title = dialog.title /\ dialog'.disabled = dialog.disabled
        /\ opened' = opened
    BY <1>5 DEF Reported, WindowTypeOK, Dialog
  <2> QED
    BY <1>2, <2>1 DEF DialogInv, Confirmable
<1>6. CASE ConfirmFailed(a)
  <2>1. dialog'.plan = None /\ opened' = opened
    BY <1>6 DEF ConfirmFailed, Closed, WindowTypeOK, Dialog
  <2>2. sent <= opened
    BY <1>2 DEF DialogInv
  <2> QED
    BY <1>2, <2>1, <2>2 DEF DialogInv, Confirmable
<1> QED
  BY <1>1, <1>3, <1>4, <1>5, <1>6

\* Every step keeps what is known of the dialog and of the selection.
LEMMA DialogStep ==
  ASSUME WindowTypeOK, DialogInv, [Next]_vars
  PROVE  DialogInv'
<1>1. CASE Cancel \/ Confirm \/ TimerFires
  BY <1>1, DialogInput
<1>2. CASE Receive
  BY <1>2, DialogAnswer
<1>3. CASE ~(Cancel \/ Confirm \/ TimerFires \/ Receive)
  <2>1. UNCHANGED <<dialog, opened, sent>>
    BY <1>3 DEF Next, vars, scriptVars, counters, PlugOrUnplug, Absorb, WindowEnds,
                DevicesChanged, SelectRow, Act, AskDialog, Serve, NeverEnds, GoDown
  <2> QED
    BY <2>1, DialogKept
<1> QED
  BY <1>1, <1>2, <1>3

\* What a new view does not list is not selected any more.
LEMMA SelectionStep ==
  ASSUME WindowTypeOK, SelectionIsListed, [Next]_vars
  PROVE  SelectionIsListed'
<1>1. CASE SelectRow
  BY <1>1 DEF SelectRow, Rows, SelectionIsListed, FindEntry, FindMedium
<1>2. CASE Receive
  <2>1. CASE Rendered(Head(answers))
    BY <2>1 DEF Rendered, SelectionAfter, SelectionIsListed, FindEntry, FindMedium
  <2>2. CASE ~Rendered(Head(answers))
    <3>1. UNCHANGED <<view, selected>>
      BY <1>2, <2>2 DEF Receive, DialogOpens, Reported, ConfirmFailed, Failed,
                        scriptVars
    <3> QED
      BY <3>1 DEF SelectionIsListed, FindEntry, FindMedium
  <2> QED
    BY <2>1, <2>2
<1>3. CASE ~SelectRow /\ ~Receive
  <2>1. UNCHANGED <<view, selected>>
    BY <1>3 DEF Next, vars, scriptVars, counters, PlugOrUnplug, Absorb, WindowEnds,
                DevicesChanged, Act, AskDialog, Cancel, Confirm, Serve,
                NeverEnds, GoDown, TimerFires
  <2> QED
    BY <2>1 DEF SelectionIsListed, FindEntry, FindMedium
<1> QED
  BY <1>1, <1>2, <1>3

-----------------------------------------------------------------------------
(* Theorems                                                                *)

\* The invariant holds initially.
LEMMA WindowInit == Init => WindowInv
  BY TypeInit, AnswersInit, DialogInit DEF WindowInv

\* Every step preserves the invariant.
LEMMA WindowStep == WindowInv /\ [Next]_vars => WindowInv'
  BY TypeStep, AnswersStep, DialogStep, SelectionStep DEF WindowInv

\* The conjunction of the five parts holds in every reachable state.
THEOREM WindowInvariance == Spec => []WindowInv
  BY WindowInit, WindowStep, PTL DEF Spec

\* Every variable of the window keeps its type, for any disks and bounds.
THEOREM WindowType == Spec => []WindowTypeOK
<1>1. WindowInv => WindowTypeOK
  BY DEF WindowInv
<1> QED
  BY <1>1, WindowInvariance, PTL

\* app.js, confirm handler: one dialog leads to at most one call of
\* confirm_and_reboot, whatever arrives or is cancelled in between.
THEOREM WindowOneConfirm == Spec => []OneConfirmPerDialog
<1>1. WindowInv => OneConfirmPerDialog
  BY DEF WindowInv, DialogInv, WindowTypeOK, OneConfirmPerDialog
<1> QED
  BY <1>1, WindowInvariance, PTL

\* app.js, render: the selection is always a row the last view lists.
THEOREM WindowSelection == Spec => []SelectionIsListed
<1>1. WindowInv => SelectionIsListed
  BY DEF WindowInv
<1> QED
  BY <1>1, WindowInvariance, PTL

\* A call of confirm_and_reboot is for the title of the dialog that is shown.
LEMMA ConfirmStep ==
  ASSUME WindowInv, [Next]_vars, sent' # sent
  PROVE  /\ dialog.open
         /\ calls'[Len(calls')] = [cmd |-> "confirm", id |-> dialog.title]
<1>1. Confirm
  BY DEF Next, vars, counters, PlugOrUnplug, Absorb, WindowEnds, DevicesChanged,
         SelectRow, Act, AskDialog, Cancel, Serve, NeverEnds, GoDown, Receive,
         TimerFires
<1>2. dialog.open /\ dialog.plan # None /\ dialog.title = dialog.plan
  BY <1>1 DEF Confirm, Confirmable, WindowInv, DialogInv
<1>3. calls \in Seq(Call)
  BY DEF WindowInv, WindowTypeOK
<1>4. calls' = Append(calls, [cmd |-> "confirm", id |-> dialog.plan])
  BY <1>1 DEF Confirm, PlanToSend
<1> QED
  BY <1>2, <1>3, <1>4

\* app.js, openDialog and the confirm handler: what is confirmed is what the
\* title of the dialog on the screen names, at the moment of the click.
THEOREM WindowConfirms == Spec => ConfirmsOnlyWhatTheTitleNames
<1>1. WindowInv /\ [Next]_vars =>
        [sent' # sent =>
           /\ dialog.open
           /\ calls'[Len(calls')] = [cmd |-> "confirm", id |-> dialog.title]]_vars
  BY ConfirmStep
<1> QED
  BY <1>1, WindowInvariance, PTL DEF Spec, ConfirmsOnlyWhatTheTitleNames

-----------------------------------------------------------------------------
(* The refinement of FreshView                                             *)

\* The initial states are those of FreshView.
LEMMA FreshInit == Init => Fresh!Init
  BY DEF Init, Fresh!Init, NoView

\* Every step of the window is a step of FreshView or changes nothing there.
LEMMA FreshStep ==
  ASSUME WindowInv, [Next]_vars
  PROVE  [Fresh!Next]_(Fresh!vars)
<1>1. CASE PlugOrUnplug
  <2>1. Fresh!Change
    BY <1>1 DEF PlugOrUnplug, Fresh!Change, scriptVars
  <2> QED
    BY <2>1 DEF Fresh!Next
<1>2. CASE NeverEnds \/ GoDown
  <2>1. Fresh!Stop
    BY <1>2 DEF NeverEnds, GoDown, Fresh!Stop, hotplugVars, scriptVars
  <2> QED
    BY <2>1 DEF Fresh!Next
<1>3. CASE Receive
  <2>1. view.seen <= view'.seen /\ ViewsInOrder' /\ WindowTypeOK'
    BY <1>3, ReceiveAnswers, ReceiveType DEF WindowInv
  <2>2. view.seen \in Nat /\ view'.seen \in Nat /\ changes \in Nat
    BY <2>1, BoundsAssumption DEF WindowInv, WindowTypeOK, AppView
  <2>3. /\ changes' = changes
        /\ (watching /\ host = "up" /\ ~stuck)'
             = (watching /\ host = "up" /\ ~stuck)
    BY <1>3 DEF Receive, machineVars, hotplugVars
  <2>4. view'.seen \in view.seen..changes
    BY <2>1, <2>2, <2>3 DEF ViewsInOrder
  <2>5. Fresh!Show
    BY <2>3, <2>4 DEF Fresh!Show
  <2> QED
    BY <2>5 DEF Fresh!Next
<1>4. CASE ~PlugOrUnplug /\ ~NeverEnds /\ ~GoDown /\ ~Receive
  <2>1. UNCHANGED <<changes, view, watching, host, stuck>>
    BY <1>4 DEF Next, vars, machineVars, hotplugVars, scriptVars, counters, Absorb,
                WindowEnds, DevicesChanged, SelectRow, Act, AskDialog, Cancel,
                Confirm, Serve, TimerFires
  <2> QED
    BY <2>1 DEF Fresh!vars
<1> QED
  BY <1>1, <1>2, <1>3, <1>4

\* hotplug.rs, commands.rs refresh and the listener of app.js: the window
\* implements the safety part of FreshView, so no view it shows is older than
\* one it has shown, nor newer than the devices.  (That it catches up is
\* liveness, which the run Window checks.)
THEOREM WindowRefines == Spec => Fresh!Init /\ [][Fresh!Next]_(Fresh!vars)
<1>1. WindowInv /\ [Next]_vars => [Fresh!Next]_(Fresh!vars)
  BY FreshStep
<1> QED
  BY <1>1, FreshInit, WindowInvariance, PTL DEF Spec

=============================================================================
