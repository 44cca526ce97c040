------------------------ MODULE WindowsSessionProofs ------------------------
(***************************************************************************)
(* Safety of WindowsSession, for any number of helpers, entries, devices   *)
(* and changes by other tools, any firmware and any versions.              *)
(***************************************************************************)
EXTENDS WindowsSession, FirmwareProofs

(* The inductive invariant                                                 *)

\* What the place of a helper says about its request and its answer.  It reads
\* and writes for an interface that greeted it, with the privilege, and knows
\* what it is about to write.
RequestInv(r) ==
  /\ r.op \in {"read", "boot"} => r.version = PROTOCOL_VERSION
  /\ r.pc \in {"run", "entries", "write", "verify", "compare", "answered"} =>
       r.op \in {"hello", "read", "boot"} /\ (r.op = "boot" => r.id \in BootId)
  /\ r.pc = "entries" => r.op \in {"read", "boot"}
  /\ r.pc \in {"write", "verify", "compare"} => r.op = "boot" /\ IsState(r.before)
  /\ r.pc \in {"entries", "write", "verify", "compare"} => r.privileged
  /\ r.pc \in {"entries", "compare"} =>
       r.globals.order \in OrderValue /\ r.globals.next \in NextValue
  /\ r.pc = "answered" =>
       /\ r.answer = "State" => IsState(r.before)
       /\ r.answer = "Written" => r.privileged
       /\ r.answer = "EntryNotFound" => r.op = "boot"

Legal(r) == IsHelper(r) /\ RequestInv(r)

\* The helper at the other end of the channel has been greeted, and is busy
\* with what the command in progress asked it.
Greeted(r) == r.pc = "gone" \/ (r.pc \notin {"free", "started"}
                                  /\ r.version = PROTOCOL_VERSION)

ReadRequested(r) ==
  r.pc = "gone" \/ (r.op = "read" /\ r.pc \in {"run", "entries", "answered"})

WriteRequested(r) ==
  \/ r.pc = "gone"
  \/ /\ r.op = "boot" /\ r.id = target
     /\ r.pc \in {"run", "entries", "write", "verify", "compare", "answered"}

\* The firmware was changed by the current command only if its helper wrote,
\* which it does not without an entry to write.
MayHaveWritten(r) ==
  \/ r.pc \in {"gone", "verify", "compare"}
  \/ r.pc = "answered" /\ r.answer # "EntryNotFound"

\* The last snapshot, as far as it is read, is true.
ReadsTruth(r) ==
  /\ r.pc # "run"
  /\ r.pc = "entries" => r.globals = Globals
  /\ r.pc = "answered" /\ r.answer = "State" => r.before = Snapshot(Globals)

ChannelHelper(r) ==
  /\ Greeted(r)
  /\ pc \in {"idle", "reboot"} => r.pc \in {"serving", "gone"}
  /\ pc \in {"prepare", "before", "after"} => ReadRequested(r)
  /\ pc = "write" => WriteRequested(r)
  /\ pc = "write" /\ touched => MayHaveWritten(r)
  /\ pc = "after" => r.pc = "gone" \/ r.privileged
  /\ pc = "after" /\ quiet => ReadsTruth(r)

ChannelInv ==
  /\ pc \in {"start", "prompt", "connect", "hello"} => channel = None
  /\ channel # None => ChannelHelper(helper[channel])

\* From its resolution on, the target is the selected system of its snapshot.
TargetKnown ==
  pc \in {"write", "after", "reboot"} =>
    /\ target \in BootId
    /\ IsState(before)
    /\ before[target] \in LoadOption
    /\ StableId(before[target]) = wanted

\* What the history says while a command is not yet as far.
HistoryInv ==
  /\ pc \in {"start", "prompt", "connect", "hello", "prepare", "before"} => ~touched
  /\ pc \in {"before", "write"} => ~quiet
  /\ verified => pc \in {"reboot", "idle"}
  /\ reply = "promise" => pc = "idle"

\* The helpers, and everything else.
HelpersOK ==
  /\ helper = [h \in Helper |-> helper[h]]
  /\ \A h \in Helper : Legal(helper[h])

CommandInv ==
  /\ ChannelInv /\ TargetKnown /\ HistoryInv
  /\ SessionLands

SessionInv == InterfaceTypeOK /\ HelpersOK /\ CommandInv

-----------------------------------------------------------------------------
(* Records                                                                 *)

\* A helper has the fields of an unused slot, also after an update.
IsRecord(r) == r = [f \in DOMAIN FreeHelper |-> r[f]]

\* r serves the interface next, has been asked something, or has answered.
ServingRecord(q, r) ==
  /\ q.pc = "serving" /\ q.version = r.version /\ q.privileged = r.privileged

RunningRecord(q, r, op, id) ==
  /\ q.pc = "run" /\ q.op = op /\ q.id = id
  /\ q.version = r.version /\ q.privileged = r.privileged

AnsweringRecord(q, r, answer, state) ==
  /\ q.pc = "answered" /\ q.answer = answer /\ q.before = state
  /\ q.version = r.version /\ q.privileged = r.privileged
  /\ q.op = r.op /\ q.id = r.id

\* An unused slot, and what is left of a dead helper, are legal.
LEMMA FreeIsLegal ==
  /\ Legal(FreeHelper)
  /\ Legal([FreeHelper EXCEPT !.pc = "gone"])
  /\ FreeHelper.pc = "free"
  /\ [FreeHelper EXCEPT !.pc = "gone"].pc = "gone"
  BY WindowsAssumption DEF Legal, IsHelper, FreeHelper, RequestInv,
       IsOptionalState

\* So is a helper that has just been launched.
LEMMA StartedIsLegal ==
  ASSUME NEW version \in Versions, NEW privileged \in BOOLEAN
  PROVE  Legal([FreeHelper EXCEPT !.pc = "started", !.version = version,
                                  !.privileged = privileged])
  BY WindowsAssumption DEF Legal, IsHelper, FreeHelper, RequestInv,
       IsOptionalState

\* What Released gives to a helper that answers to the interface.
LEMMA ServingIsLegal ==
  ASSUME NEW r, Legal(r)
  PROVE  LET q == [FreeHelper EXCEPT !.pc = "serving", !.version = r.version,
                                     !.privileged = r.privileged]
         IN  Legal(q) /\ ServingRecord(q, r)
<1> DEFINE q == [FreeHelper EXCEPT !.pc = "serving", !.version = r.version,
                                   !.privileged = r.privileged]
<1>1. /\ IsRecord(q)
      /\ q.pc = "serving" /\ q.version = r.version /\ q.privileged = r.privileged
      /\ q.op = None /\ q.id = None /\ q.globals = None /\ q.before = None
      /\ q.answer = None
  BY DEF FreeHelper, IsRecord
<1> HIDE DEF q
<1>2. IsHelper(q)
  BY <1>1 DEF Legal, IsHelper, IsRecord, IsOptionalState
<1>3. RequestInv(q)
  BY <1>1, WindowsAssumption DEF Legal, RequestInv
<1> QED
  BY <1>1, <1>2, <1>3 DEF Legal, ServingRecord, q

\* What Asked gives to one that waits for a request.
LEMMA AskedIsLegal ==
  ASSUME NEW r, Legal(r), NEW op \in {"hello", "read", "boot"},
         NEW id \in BootId \cup {None}, op = "boot" => id \in BootId,
         op # "hello" => r.version = PROTOCOL_VERSION
  PROVE  LET q == [r EXCEPT !.pc = "run", !.op = op, !.id = id, !.globals = None,
                            !.before = None, !.answer = None]
         IN  Legal(q) /\ RunningRecord(q, r, op, id)
<1> DEFINE D == DOMAIN FreeHelper
           m == [r EXCEPT !.pc = "run", !.op = op, !.id = id]
           q == [r EXCEPT !.pc = "run", !.op = op, !.id = id, !.globals = None,
                          !.before = None, !.answer = None]
<1>1. r = [f \in D |-> r[f]]
  BY DEF Legal, IsHelper
<1>2. /\ IsRecord(q)
      /\ q.pc = "run" /\ q.op = op /\ q.id = id
      /\ q.globals = None /\ q.before = None /\ q.answer = None
      /\ q.version = r.version /\ q.privileged = r.privileged
  <2>1. D = {"pc", "version", "privileged", "op", "id", "globals", "before",
             "answer"}
    BY DEF FreeHelper
  <2> HIDE DEF D
  <2>2. q = [m EXCEPT !.globals = None, !.before = None, !.answer = None]
    BY <1>1
  <2>3. m = [f \in D |-> m[f]]
    BY <1>1
  <2>4. /\ m.pc = "run" /\ m.op = op /\ m.id = id
        /\ m.version = r.version /\ m.privileged = r.privileged
    BY <1>1, <2>1
  <2>5. q = [f \in D |-> q[f]]
    <3> DEFINE n == [m EXCEPT !.globals = None, !.before = None, !.answer = None]
    <3> HIDE DEF q, m
    <3>1. n = [f \in D |-> n[f]]
      BY <2>3
    <3> QED
      BY <2>2, <3>1
  <2> HIDE DEF q, m
  <2> QED
    BY <2>1, <2>2, <2>3, <2>4, <2>5 DEF IsRecord, D
<1> HIDE DEF q
<1>3. r.version \in Versions \cup {None} /\ r.privileged \in BOOLEAN
  BY DEF Legal, IsHelper
<1>4. IsHelper(q)
  BY <1>2, <1>3 DEF IsHelper, IsRecord, IsOptionalState
<1>5. RequestInv(q)
  BY <1>2 DEF RequestInv
<1> QED
  BY <1>2, <1>4, <1>5 DEF Legal, RunningRecord, q

\* The answers of a helper that has served a request.
SessionAnswers == {"Hello", "BadRequest", "State", "Written", "EntryNotFound",
                   "PrivilegeRequired", "NotUefi", "WriteRefused",
                   "GuardViolation", "Internal"}

\* What Reply gives to it.
LEMMA ReplyIsLegal ==
  ASSUME NEW r, Legal(r), r.op \in {"hello", "read", "boot"},
         r.op = "boot" => r.id \in BootId,
         NEW answer \in SessionAnswers, NEW state,
         state = None \/ IsState(state), answer = "State" => IsState(state),
         answer = "Written" => r.privileged,
         answer = "EntryNotFound" => r.op = "boot"
  PROVE  LET q == [r EXCEPT !.pc = "answered", !.answer = answer,
                            !.globals = None, !.before = state]
         IN  Legal(q) /\ AnsweringRecord(q, r, answer, state)
<1> DEFINE q == [r EXCEPT !.pc = "answered", !.answer = answer,
                          !.globals = None, !.before = state]
<1> DEFINE D == DOMAIN FreeHelper
<1>1. r = [f \in D |-> r[f]]
  BY DEF Legal, IsHelper
<1>2. /\ IsRecord(q)
      /\ q.pc = "answered" /\ q.answer = answer /\ q.globals = None
      /\ q.before = state
      /\ q.version = r.version /\ q.privileged = r.privileged
      /\ q.op = r.op /\ q.id = r.id
  <2>1. D = {"pc", "version", "privileged", "op", "id", "globals", "before",
             "answer"}
    BY DEF FreeHelper
  <2> HIDE DEF D
  <2>2. q = [f \in D |-> q[f]]
    BY <1>1
  <2>3. /\ q.pc = "answered" /\ q.answer = answer /\ q.globals = None
        /\ q.before = state
        /\ q.version = r.version /\ q.privileged = r.privileged
        /\ q.op = r.op /\ q.id = r.id
    BY <1>1, <2>1
  <2> HIDE DEF q
  <2> QED
    BY <2>2, <2>3 DEF IsRecord, D
<1> HIDE DEF q
<1>3. /\ r.version \in Versions \cup {None} /\ r.privileged \in BOOLEAN
      /\ r.op \in {"hello", "read", "boot", None} /\ r.id \in BootId \cup {None}
      /\ r.op \in {"read", "boot"} => r.version = PROTOCOL_VERSION
  BY DEF Legal, IsHelper, RequestInv
<1>4. IsHelper(q)
  BY <1>2, <1>3 DEF IsHelper, IsRecord, IsOptionalState, SessionAnswers
<1>5. RequestInv(q)
  BY <1>2, <1>3 DEF RequestInv, SessionAnswers
<1> QED
  BY <1>2, <1>4, <1>5 DEF Legal, AnsweringRecord, q

-----------------------------------------------------------------------------
(* Steps of the helpers                                                    *)

\* What replacing one helper leaves of the others.
LEMMA OneHelper ==
  ASSUME HelpersOK, NEW h \in Helper, NEW q, Legal(q),
         helper' = [helper EXCEPT ![h] = q]
  PROVE  /\ HelpersOK'
         /\ helper'[h] = q
         /\ \A k \in Helper \ {h} : helper'[k] = helper[k]
  BY DEF HelpersOK

\* The interface sends a request to its helper.
LEMMA AskedStep ==
  ASSUME HelpersOK, NEW h \in Helper, NEW op \in {"hello", "read", "boot"},
         NEW id \in BootId \cup {None}, op = "boot" => id \in BootId,
         helper[h].pc \in {"serving", "answered"} /\ op # "hello" =>
           helper[h].version = PROTOCOL_VERSION,
         helper' = Asked(h, op, id)
  PROVE  /\ HelpersOK'
         /\ \A k \in Helper \ {h} : helper'[k] = helper[k]
         /\ IF helper[h].pc \in {"serving", "answered"}
            THEN RunningRecord(helper'[h], helper[h], op, id)
            ELSE helper'[h] = helper[h]
<1>1. CASE helper[h].pc \in {"serving", "answered"}
  <2> DEFINE r == helper[h]
             q == [r EXCEPT !.pc = "run", !.op = op, !.id = id, !.globals = None,
                            !.before = None, !.answer = None]
  <2>1. helper' = [helper EXCEPT ![h] = q]
    BY <1>1 DEF Asked
  <2>2. Legal(r) /\ (op # "hello" => r.version = PROTOCOL_VERSION)
    BY <1>1 DEF HelpersOK
  <2> HIDE DEF r
  <2>3. Legal(q) /\ RunningRecord(q, r, op, id)
    BY <2>2, AskedIsLegal
  <2> HIDE DEF q
  <2>4. /\ HelpersOK' /\ helper'[h] = q
        /\ \A k \in Helper \ {h} : helper'[k] = helper[k]
    BY <2>1, <2>3, OneHelper
  <2> QED
    BY <1>1, <2>3, <2>4 DEF r
<1>2. CASE helper[h].pc \notin {"serving", "answered"}
  BY <1>2 DEF Asked, HelpersOK
<1> QED
  BY <1>1, <1>2

\* The interface has read the answer of its helper.
LEMMA ReleasedStep ==
  ASSUME HelpersOK, NEW h \in Helper, helper' = Released(h)
  PROVE  /\ HelpersOK'
         /\ \A k \in Helper \ {h} : helper'[k] = helper[k]
         /\ IF helper[h].pc = "gone" THEN helper'[h] = helper[h]
            ELSE ServingRecord(helper'[h], helper[h])
<1>1. CASE helper[h].pc # "gone"
  <2> DEFINE r == helper[h]
             q == [FreeHelper EXCEPT !.pc = "serving", !.version = r.version,
                                     !.privileged = r.privileged]
  <2>1. helper' = [helper EXCEPT ![h] = q]
    BY <1>1 DEF Released
  <2>2. Legal(r)
    BY DEF HelpersOK
  <2> HIDE DEF r
  <2>3. Legal(q) /\ ServingRecord(q, r)
    BY <2>2, ServingIsLegal
  <2> HIDE DEF q
  <2>4. /\ HelpersOK' /\ helper'[h] = q
        /\ \A k \in Helper \ {h} : helper'[k] = helper[k]
    BY <2>1, <2>3, OneHelper
  <2> QED
    BY <1>1, <2>3, <2>4 DEF r
<1>2. CASE helper[h].pc = "gone"
  BY <1>2 DEF Released, HelpersOK
<1> QED
  BY <1>1, <1>2

\* A step of a helper that changes nothing else keeps the invariant if the
\* helper stays as the command in progress needs it.
LEMMA HelperOnly ==
  ASSUME SessionInv, NEW h \in Helper, NEW q, Legal(q),
         helper' = [helper EXCEPT ![h] = q], OnlyHelper,
         quiet' = quiet \/ (quiet' = TRUE /\ pc = "after" /\ h = channel),
         h = channel => ChannelHelper(helper[h])'
  PROVE  SessionInv'
<1>1. /\ HelpersOK' /\ helper'[h] = q
      /\ \A k \in Helper \ {h} : helper'[k] = helper[k]
  BY OneHelper DEF SessionInv
<1>2. UNCHANGED <<nvram, edits, readOnly, pc, launching, channel, elevated, plan,
                  wanted, target, before, after, reply, touched, verified>>
  BY DEF OnlyHelper, machineVars, uiVars, sessionVars, planVars
<1>3. InterfaceTypeOK'
  BY <1>2 DEF SessionInv, InterfaceTypeOK
<1>4. channel # None => ChannelHelper(helper[channel])'
  <2>1. CASE h = channel
    BY <1>2, <2>1
  <2>2. CASE channel # None /\ h # channel
    <3>1. helper'[channel] = helper[channel] /\ quiet' = quiet
      BY <1>1, <2>2 DEF SessionInv, InterfaceTypeOK
    <3> QED
      BY <1>2 DEF SessionInv, CommandInv, ChannelInv, ChannelHelper,
           WriteRequested, ReadsTruth, Snapshot, Globals
  <2> QED
    BY <2>1, <2>2
<1>5. ChannelInv' /\ TargetKnown' /\ HistoryInv'
  BY <1>2, <1>4 DEF SessionInv, CommandInv, ChannelInv, TargetKnown,
       HistoryInv
<1>6. SessionLands'
  BY <1>2 DEF SessionInv, CommandInv, HistoryInv, SessionLands
<1> QED
  BY <1>1, <1>3, <1>5, <1>6 DEF SessionInv, CommandInv

-----------------------------------------------------------------------------
(* Actions of the user and of the interface that ask no helper anything    *)

\* The local backend is kept: there is no channel.
LEMMA StartLocallyKeeps == SessionInv /\ StartLocally => SessionInv'
<1> SUFFICES ASSUME SessionInv, StartLocally PROVE SessionInv'
  OBVIOUS
<1>1. InterfaceTypeOK'
  BY DEF StartLocally, SessionInv, InterfaceTypeOK, machineVars, sessionVars,
       planVars, history, Finish, Replies
<1>2. HelpersOK'
  BY DEF StartLocally, SessionInv, HelpersOK
<1>3. CommandInv'
  BY DEF StartLocally, sessionVars, planVars, history, Finish, SessionInv,
       CommandInv, ChannelInv, TargetKnown, HistoryInv, SessionLands
<1> QED
  BY <1>1, <1>2, <1>3 DEF SessionInv

\* A prompt is shown only while there is no channel.
LEMMA LaunchHelperKeeps == SessionInv /\ LaunchHelper => SessionInv'
<1> SUFFICES ASSUME SessionInv, LaunchHelper PROVE SessionInv'
  OBVIOUS
<1>1. InterfaceTypeOK'
  BY DEF LaunchHelper, SessionInv, InterfaceTypeOK, machineVars, sessionVars,
       planVars, NewCommand, Replies
<1>2. HelpersOK'
  BY DEF LaunchHelper, SessionInv, HelpersOK
<1>3. CommandInv'
  BY DEF LaunchHelper, InterfaceTypeOK, sessionVars, planVars, NewCommand,
       SessionInv, CommandInv, ChannelInv, TargetKnown, HistoryInv,
       SessionLands
<1> QED
  BY <1>1, <1>2, <1>3 DEF SessionInv

\* The user declines: nothing was touched.
LEMMA PromptDeclinedKeeps == SessionInv /\ PromptDeclined => SessionInv'
<1> SUFFICES ASSUME SessionInv, PromptDeclined PROVE SessionInv'
  OBVIOUS
<1>1. InterfaceTypeOK'
  BY DEF PromptDeclined, SessionInv, InterfaceTypeOK, machineVars,
       sessionVars, planVars, history, Finish, Replies
<1>2. HelpersOK'
  BY DEF PromptDeclined, SessionInv, HelpersOK
<1>3. CommandInv'
  BY DEF PromptDeclined, sessionVars, planVars, history, Finish, SessionInv,
       CommandInv, ChannelInv, TargetKnown, HistoryInv, SessionLands
<1> QED
  BY <1>1, <1>2, <1>3 DEF SessionInv

\* The dialog is closed.
LEMMA CancelSelectionKeeps == SessionInv /\ CancelSelection => SessionInv'
<1> SUFFICES ASSUME SessionInv, CancelSelection PROVE SessionInv'
  OBVIOUS
<1>1. InterfaceTypeOK'
  BY DEF CancelSelection, SessionInv, InterfaceTypeOK, machineVars,
       sessionVars, history
<1>2. HelpersOK'
  BY DEF CancelSelection, SessionInv, HelpersOK
<1>3. CommandInv'
  BY DEF CancelSelection, machineVars, sessionVars, history, SessionInv,
       CommandInv, ChannelInv, ChannelHelper, TargetKnown, HistoryInv,
       SessionLands
<1> QED
  BY <1>1, <1>2, <1>3 DEF SessionInv

\* A read-only backend promises, and the command did nothing.
LEMMA ConfirmReadOnlyKeeps == SessionInv /\ ConfirmReadOnly => SessionInv'
<1> SUFFICES ASSUME SessionInv, ConfirmReadOnly PROVE SessionInv'
  OBVIOUS
<1>1. InterfaceTypeOK'
  BY DEF ConfirmReadOnly, SessionInv, InterfaceTypeOK, machineVars,
       sessionVars, Finish, NewCommand, Replies
<1>2. HelpersOK'
  BY DEF ConfirmReadOnly, SessionInv, HelpersOK
<1>3. CommandInv'
  BY DEF ConfirmReadOnly, sessionVars, Finish, NewCommand, SessionInv,
       CommandInv, ChannelInv, ChannelHelper, TargetKnown, HistoryInv,
       SessionLands
<1> QED
  BY <1>1, <1>2, <1>3 DEF SessionInv

\* A dialog opens on what the interface could read by itself, or does not.
LEMMA PrepareLocallyKeeps ==
  ASSUME SessionInv, NEW sid \in StableIds, PrepareLocally(sid)
  PROVE  SessionInv'
<1>1. InterfaceTypeOK'
  BY DEF PrepareLocally, SessionInv, InterfaceTypeOK, machineVars, sessionVars,
       Finish, NewCommand, Replies, IsOptionalState
<1>2. HelpersOK'
  BY DEF PrepareLocally, SessionInv, HelpersOK
<1>3. CommandInv'
  BY DEF PrepareLocally, sessionVars, Finish, NewCommand, SessionInv,
       CommandInv, ChannelInv, TargetKnown, HistoryInv, SessionLands
<1> QED
  BY <1>1, <1>2, <1>3 DEF SessionInv

\* Without a helper nothing is asked and the promise is free.
LEMMA ConfirmLocallyKeeps == SessionInv /\ ConfirmLocally => SessionInv'
<1> SUFFICES ASSUME SessionInv, ConfirmLocally PROVE SessionInv'
  OBVIOUS
<1>1. InterfaceTypeOK'
  BY DEF ConfirmLocally, SessionInv, InterfaceTypeOK, machineVars,
       sessionVars, Finish, NewCommand, Replies
<1>2. HelpersOK'
  BY DEF ConfirmLocally, SessionInv, HelpersOK
<1>3. CommandInv'
  BY DEF ConfirmLocally, sessionVars, Finish, NewCommand, SessionInv,
       CommandInv, ChannelInv, TargetKnown, HistoryInv, SessionLands
<1> QED
  BY <1>1, <1>2, <1>3 DEF SessionInv

\* The report leaves what was verified alone.
LEMMA RebootKeeps == SessionInv /\ Reboot => SessionInv'
<1> SUFFICES ASSUME SessionInv, Reboot PROVE SessionInv'
  OBVIOUS
<1>1. InterfaceTypeOK'
  BY DEF Reboot, SessionInv, InterfaceTypeOK, machineVars, sessionVars,
       planVars, history, Finish, Replies
<1>2. HelpersOK'
  BY DEF Reboot, SessionInv, HelpersOK
<1>3. CommandInv'
  BY DEF Reboot, machineVars, sessionVars, planVars, history, Finish,
       SessionInv, CommandInv, ChannelInv, ChannelHelper, TargetKnown,
       HistoryInv, SessionLands
<1> QED
  BY <1>1, <1>2, <1>3 DEF SessionInv

-----------------------------------------------------------------------------
(* Actions of the user and of the interface on a helper                    *)

\* The helper starts, and nobody is connected to it yet.
LEMMA PromptAcceptedKeeps ==
  ASSUME SessionInv, NEW h \in Helper, PromptAccepted(h)
  PROVE  SessionInv'
<1>1. HelpersOK'
  <2>1. PICK version \in Versions, privileged \in BOOLEAN :
          helper' = [helper EXCEPT ![h] =
            [FreeHelper EXCEPT !.pc = "started", !.version = version,
                               !.privileged = privileged]]
    BY DEF PromptAccepted
  <2> DEFINE q == [FreeHelper EXCEPT !.pc = "started", !.version = version,
                                     !.privileged = privileged]
  <2>2. Legal(q) /\ helper' = [helper EXCEPT ![h] = q] /\ HelpersOK
    BY <2>1, StartedIsLegal DEF SessionInv
  <2> HIDE DEF q
  <2> QED
    BY <2>2, OneHelper
<1>2. InterfaceTypeOK'
  BY WindowsAssumption DEF PromptAccepted, SessionInv, InterfaceTypeOK,
       machineVars, planVars, history
<1>3. CommandInv'
  BY DEF PromptAccepted, planVars, history, SessionInv, CommandInv,
       ChannelInv, TargetKnown, HistoryInv, SessionLands
<1> QED
  BY <1>1, <1>2, <1>3 DEF SessionInv

\* The channel's helper is asked for a snapshot.
LEMMA PrepareKeeps ==
  ASSUME SessionInv, NEW sid \in StableIds, Prepare(sid)
  PROVE  SessionInv'
<1>1. /\ HelpersOK'
      /\ IF helper[channel].pc \in {"serving", "answered"}
         THEN RunningRecord(helper'[channel], helper[channel], "read", None)
         ELSE helper'[channel] = helper[channel]
  <2>1. HelpersOK /\ channel \in Helper /\ helper' = Asked(channel, "read", None)
    BY DEF Prepare, SessionInv, InterfaceTypeOK
  <2>2. helper[channel].pc \in {"serving", "answered"} =>
          helper[channel].version = PROTOCOL_VERSION
    BY DEF Prepare, SessionInv, CommandInv, ChannelInv, ChannelHelper, Greeted
  <2> QED
    BY <2>1, <2>2, AskedStep
<1>2. InterfaceTypeOK'
  BY DEF Prepare, SessionInv, InterfaceTypeOK, machineVars, sessionVars,
       NewCommand, Replies, IsOptionalState
<1>3. CommandInv'
  BY <1>1 DEF Prepare, sessionVars, NewCommand, RunningRecord, SessionInv,
       CommandInv, ChannelInv, ChannelHelper, Greeted, ReadRequested,
       TargetKnown, HistoryInv, SessionLands
<1> QED
  BY <1>1, <1>2, <1>3 DEF SessionInv

\* The command forgets the last one and asks for the first snapshot.
LEMMA ConfirmKeeps == SessionInv /\ Confirm => SessionInv'
<1> SUFFICES ASSUME SessionInv, Confirm PROVE SessionInv'
  OBVIOUS
<1>1. /\ HelpersOK'
      /\ IF helper[channel].pc \in {"serving", "answered"}
         THEN RunningRecord(helper'[channel], helper[channel], "read", None)
         ELSE helper'[channel] = helper[channel]
  <2>1. HelpersOK /\ channel \in Helper /\ helper' = Asked(channel, "read", None)
    BY DEF Confirm, SessionInv, InterfaceTypeOK, CommandInv, ChannelInv
  <2>2. helper[channel].pc \in {"serving", "answered"} =>
          helper[channel].version = PROTOCOL_VERSION
    BY DEF Confirm, SessionInv, CommandInv, ChannelInv, ChannelHelper, Greeted
  <2> QED
    BY <2>1, <2>2, AskedStep
<1>2. InterfaceTypeOK'
  BY DEF Confirm, SessionInv, InterfaceTypeOK, machineVars, sessionVars,
       NewCommand, Replies, CommandInv, ChannelInv
<1>3. CommandInv'
  BY <1>1 DEF Confirm, sessionVars, NewCommand, RunningRecord, SessionInv,
       CommandInv, ChannelInv, ChannelHelper, Greeted, ReadRequested,
       TargetKnown, HistoryInv, SessionLands
<1> QED
  BY <1>1, <1>2, <1>3 DEF SessionInv

\* The greeting is asked of the helper that opened the pipe.
LEMMA ConnectedKeeps == SessionInv /\ Connected => SessionInv'
<1> SUFFICES ASSUME SessionInv, Connected PROVE SessionInv'
  OBVIOUS
<1>1. /\ HelpersOK'
      /\ IF helper[launching].pc \in {"serving", "answered"}
         THEN RunningRecord(helper'[launching], helper[launching],
                            "hello", None)
         ELSE helper'[launching] = helper[launching]
  <2>1. /\ HelpersOK /\ launching \in Helper
        /\ helper' = Asked(launching, "hello", None)
    BY DEF Connected, SessionInv, InterfaceTypeOK
  <2> QED
    BY <2>1, AskedStep
<1>2. InterfaceTypeOK'
  BY DEF Connected, SessionInv, InterfaceTypeOK, machineVars, sessionVars,
       planVars, history
<1>3. CommandInv'
  BY DEF Connected, sessionVars, planVars, history, SessionInv, CommandInv,
       ChannelInv, TargetKnown, HistoryInv, SessionLands
<1> QED
  BY <1>1, <1>2, <1>3 DEF SessionInv

\* A good greeting is what makes a helper the channel's.
LEMMA HandshakeSucceedsKeeps == SessionInv /\ HandshakeSucceeds => SessionInv'
<1> SUFFICES ASSUME SessionInv, HandshakeSucceeds PROVE SessionInv'
  OBVIOUS
<1>1. /\ HelpersOK'
      /\ IF helper[launching].pc = "gone"
         THEN helper'[launching] = helper[launching]
         ELSE ServingRecord(helper'[launching], helper[launching])
  <2>1. HelpersOK /\ launching \in Helper /\ helper' = Released(launching)
    BY DEF HandshakeSucceeds, SessionInv, InterfaceTypeOK
  <2> QED
    BY <2>1, ReleasedStep
<1>2. InterfaceTypeOK'
  BY DEF HandshakeSucceeds, SessionInv, InterfaceTypeOK, machineVars,
       planVars, history, Finish, Replies
<1>3. CommandInv'
  BY <1>1 DEF HandshakeSucceeds, planVars, history, Finish, ServingRecord,
       SessionInv, CommandInv, ChannelInv, ChannelHelper, Greeted,
       TargetKnown, HistoryInv, SessionLands, GoodGreeting
<1> QED
  BY <1>1, <1>2, <1>3 DEF SessionInv

\* A helper that does not greet is left alone.
LEMMA HandshakeFailsKeeps == SessionInv /\ HandshakeFails => SessionInv'
<1> SUFFICES ASSUME SessionInv, HandshakeFails PROVE SessionInv'
  OBVIOUS
<1>1. HelpersOK'
  <2>1. HelpersOK /\ launching \in Helper
    BY DEF HandshakeFails, SessionInv, InterfaceTypeOK
  <2>2. CASE helper[launching].pc = "gone"
    <3>1. helper' = [helper EXCEPT ![launching] = FreeHelper]
      BY <2>2 DEF HandshakeFails
    <3> QED
      BY <2>1, <3>1, FreeIsLegal, OneHelper
  <2>3. CASE helper[launching].pc # "gone"
    <3>1. helper' = Released(launching)
      BY <2>1, <2>3 DEF HandshakeFails, Released, HelpersOK
    <3> QED
      BY <2>1, <3>1, ReleasedStep
  <2> QED
    BY <2>2, <2>3
<1>2. InterfaceTypeOK'
  BY DEF HandshakeFails, SessionInv, InterfaceTypeOK, machineVars, planVars,
       history, Finish, Replies
<1>3. CommandInv'
  BY DEF HandshakeFails, planVars, history, Finish, SessionInv, CommandInv,
       ChannelInv, TargetKnown, HistoryInv, SessionLands
<1> QED
  BY <1>1, <1>2, <1>3 DEF SessionInv

\* The helper waits for the next request again.
LEMMA PrepareEndsKeeps == SessionInv /\ PrepareEnds => SessionInv'
<1> SUFFICES ASSUME SessionInv, PrepareEnds PROVE SessionInv'
  OBVIOUS
<1>1. /\ HelpersOK'
      /\ IF helper[channel].pc = "gone" THEN helper'[channel] = helper[channel]
         ELSE ServingRecord(helper'[channel], helper[channel])
  <2>1. HelpersOK /\ channel \in Helper /\ helper' = Released(channel)
    BY DEF PrepareEnds, SessionInv, InterfaceTypeOK
  <2> QED
    BY <2>1, ReleasedStep
<1>2. InterfaceTypeOK'
  BY DEF PrepareEnds, SessionInv, InterfaceTypeOK, machineVars, sessionVars,
       history, Finish, Replies
<1>3. CommandInv'
  BY <1>1 DEF PrepareEnds, InterfaceTypeOK, sessionVars, history, Finish,
       ServingRecord, SessionInv, CommandInv, ChannelInv, ChannelHelper,
       Greeted, TargetKnown, HistoryInv, SessionLands
<1> QED
  BY <1>1, <1>2, <1>3 DEF SessionInv

\* Nothing was asked that could have written.
LEMMA NotResolvedKeeps == SessionInv /\ NotResolved => SessionInv'
<1> SUFFICES ASSUME SessionInv, NotResolved PROVE SessionInv'
  OBVIOUS
<1>1. /\ HelpersOK'
      /\ IF helper[channel].pc = "gone" THEN helper'[channel] = helper[channel]
         ELSE ServingRecord(helper'[channel], helper[channel])
  <2>1. HelpersOK /\ channel \in Helper /\ helper' = Released(channel)
    BY DEF NotResolved, SessionInv, InterfaceTypeOK
  <2> QED
    BY <2>1, ReleasedStep
<1>2. InterfaceTypeOK'
  BY DEF NotResolved, SessionInv, InterfaceTypeOK, machineVars, sessionVars,
       planVars, history, Finish, Replies, ReplyTo
<1>3. CommandInv'
  BY <1>1 DEF NotResolved, sessionVars, planVars, history, Finish,
       ServingRecord, SessionInv, CommandInv, ChannelInv, ChannelHelper,
       Greeted, TargetKnown, HistoryInv, SessionLands
<1> QED
  BY <1>1, <1>2, <1>3 DEF SessionInv

\* The second snapshot is asked of a helper that had the privilege.
LEMMA WrittenKeeps == SessionInv /\ Written => SessionInv'
<1> SUFFICES ASSUME SessionInv, Written PROVE SessionInv'
  OBVIOUS
<1>1. /\ HelpersOK'
      /\ IF helper[channel].pc \in {"serving", "answered"}
         THEN RunningRecord(helper'[channel], helper[channel], "read", None)
         ELSE helper'[channel] = helper[channel]
  <2>1. HelpersOK /\ channel \in Helper /\ helper' = Asked(channel, "read", None)
    BY DEF Written, SessionInv, InterfaceTypeOK
  <2>2. helper[channel].pc \in {"serving", "answered"} =>
          helper[channel].version = PROTOCOL_VERSION
    BY DEF Written, SessionInv, InterfaceTypeOK, CommandInv, ChannelInv,
         ChannelHelper, Greeted
  <2> QED
    BY <2>1, <2>2, AskedStep
<1>2. helper[channel].pc = "answered" =>
        /\ helper[channel].answer = "Written" => helper[channel].privileged
        /\ helper[channel].answer = "EntryNotFound" =>
             helper[channel].op = "boot"
  BY DEF Written, SessionInv, InterfaceTypeOK, HelpersOK, Legal, RequestInv
<1>3. InterfaceTypeOK'
  BY DEF Written, SessionInv, InterfaceTypeOK, machineVars, sessionVars,
       planVars, history
<1>4. CommandInv'
  BY <1>1, <1>2 DEF Written, sessionVars, planVars, history, HasAnswered,
       AnswerOf, RunningRecord, SessionInv, CommandInv, ChannelInv,
       ChannelHelper, Greeted, ReadRequested, TargetKnown, HistoryInv,
       SessionLands
<1> QED
  BY <1>1, <1>3, <1>4 DEF SessionInv

\* The command ends with an answer that is not the one it waits for.
LEMMA NotWrittenKeeps == SessionInv /\ NotWritten => SessionInv'
<1> SUFFICES ASSUME SessionInv, NotWritten PROVE SessionInv'
  OBVIOUS
<1>1. /\ HelpersOK'
      /\ IF helper[channel].pc = "gone" THEN helper'[channel] = helper[channel]
         ELSE ServingRecord(helper'[channel], helper[channel])
  <2>1. HelpersOK /\ channel \in Helper /\ helper' = Released(channel)
    BY DEF NotWritten, SessionInv, InterfaceTypeOK
  <2> QED
    BY <2>1, ReleasedStep
<1>2. InterfaceTypeOK'
  BY DEF NotWritten, SessionInv, InterfaceTypeOK, machineVars, sessionVars,
       planVars, history, Finish, Replies, ReplyTo
<1>3. CommandInv'
  BY <1>1 DEF NotWritten, InterfaceTypeOK, sessionVars, history, Finish,
       HasAnswered, AnswerOf, ReplyTo, ServingRecord, SessionInv, CommandInv,
       ChannelInv, ChannelHelper, Greeted, MayHaveWritten, TargetKnown,
       HistoryInv, SessionLands
<1> QED
  BY <1>1, <1>2, <1>3 DEF SessionInv

\* The second snapshot was not read, or is refused.
LEMMA NotVerifiedKeeps == SessionInv /\ NotVerified => SessionInv'
<1> SUFFICES ASSUME SessionInv, NotVerified PROVE SessionInv'
  OBVIOUS
<1>1. /\ HelpersOK'
      /\ IF helper[channel].pc = "gone" THEN helper'[channel] = helper[channel]
         ELSE ServingRecord(helper'[channel], helper[channel])
  <2>1. HelpersOK /\ channel \in Helper /\ helper' = Released(channel)
    BY DEF NotVerified, SessionInv, InterfaceTypeOK
  <2> QED
    BY <2>1, ReleasedStep
<1>2. helper[channel].pc = "answered" =>
        /\ helper[channel].answer = "Written" => helper[channel].privileged
        /\ helper[channel].answer = "EntryNotFound" =>
             helper[channel].op = "boot"
  BY DEF NotVerified, SessionInv, InterfaceTypeOK, HelpersOK, Legal,
       RequestInv
<1>3. InterfaceTypeOK'
  BY DEF NotVerified, SessionInv, InterfaceTypeOK, machineVars, sessionVars,
       planVars, history, Finish, Replies, ReplyTo
<1>4. CommandInv'
  BY <1>1, <1>2 DEF NotVerified, InterfaceTypeOK, sessionVars, history,
       Finish, HasAnswered, AnswerOf, ReplyTo, ServingRecord, SessionInv,
       CommandInv, ChannelInv, ChannelHelper, Greeted, ReadRequested,
       TargetKnown, HistoryInv, SessionLands
<1> QED
  BY <1>1, <1>3, <1>4 DEF SessionInv

\* The target is an entry of the snapshot the helper answered.
LEMMA ResolvedKeeps == SessionInv /\ Resolved => SessionInv'
<1> SUFFICES ASSUME SessionInv, Resolved PROVE SessionInv'
  OBVIOUS
<1>1. PICK i \in BootId :
        /\ i \in Matches(helper[channel].before, wanted)
        /\ target' = i
        /\ helper' = Asked(channel, "boot", i)
  BY DEF Resolved, Resolves, Found
<1>2. /\ HelpersOK /\ channel \in Helper /\ channel # None
      /\ helper[channel].pc = "answered" /\ helper[channel].answer = "State"
      /\ IsState(helper[channel].before)
      /\ helper[channel].version = PROTOCOL_VERSION
  BY DEF Resolved, HasAnswered, AnswerOf, SessionInv, InterfaceTypeOK,
       HelpersOK, Legal, RequestInv, CommandInv, ChannelInv, ChannelHelper,
       Greeted
<1>3. HelpersOK' /\ RunningRecord(helper'[channel], helper[channel], "boot", i)
  BY <1>1, <1>2, AskedStep
<1>4. InterfaceTypeOK'
  BY <1>2 DEF Resolved, SessionInv, InterfaceTypeOK, machineVars, sessionVars,
       IsOptionalState
<1>5. before'[target'] \in LoadOption /\ StableId(before'[target']) = wanted'
  BY <1>1 DEF Resolved, Matches, Entries
<1>6. CommandInv'
  <2>1. TargetKnown'
    BY <1>1, <1>2, <1>5 DEF TargetKnown, Resolved
  <2>2. ChannelInv'
    BY <1>1, <1>2, <1>3 DEF Resolved, sessionVars, RunningRecord, SessionInv,
         CommandInv, ChannelInv, ChannelHelper, Greeted, WriteRequested,
         HistoryInv
  <2>3. HistoryInv' /\ SessionLands'
    BY DEF Resolved, SessionInv, CommandInv, HistoryInv, SessionLands
  <2> QED
    BY <2>1, <2>2, <2>3 DEF CommandInv
<1> QED
  BY <1>3, <1>4, <1>6 DEF SessionInv

\* What the guard accepts in a true snapshot, the firmware does.
LEMMA AcceptedIsTrue ==
  ASSUME SessionInv, pc = "after",
         VerifyOnlyBootNextChanged(before, Snapshot(Globals), target) = "Ok",
         IsState(Snapshot(Globals))
  PROVE  /\ nvram[BootNext] = target
         /\ nvram[target] \in LoadOption
         /\ StableId(nvram[target]) = wanted
<1>1. /\ IsState(before) /\ target \in BootId
      /\ before[target] \in LoadOption /\ StableId(before[target]) = wanted
  BY DEF SessionInv, CommandInv, TargetKnown
<1>2. Snapshot(Globals) = [before EXCEPT ![BootNext] = target]
  BY <1>1, BootNextVerdict
<1>3. before = [v \in Var |-> before[v]]
  BY <1>1 DEF IsState
<1>4. /\ Snapshot(Globals)[BootNext] = target
      /\ Snapshot(Globals)[target] = before[target]
  BY <1>1, <1>2, <1>3, NamesInVar
<1>5. Snapshot(Globals)[BootNext] = nvram[BootNext]
  BY NamesInVar DEF Snapshot, Globals
<1>6. Snapshot(Globals)[target] \in {nvram[target], Absent}
  BY <1>1, NamesInVar DEF Snapshot
<1>7. before[target] # Absent
  BY <1>1, AbsentAssumption
<1> QED
  BY <1>1, <1>4, <1>5, <1>6, <1>7

\* The application reports and reboots only for what is true if nobody wrote.
LEMMA VerifiedKeeps == SessionInv /\ Verified => SessionInv'
<1> SUFFICES ASSUME SessionInv, Verified PROVE SessionInv'
  OBVIOUS
<1>1. /\ HelpersOK'
      /\ IF helper[channel].pc = "gone" THEN helper'[channel] = helper[channel]
         ELSE ServingRecord(helper'[channel], helper[channel])
  <2>1. HelpersOK /\ channel \in Helper /\ helper' = Released(channel)
    BY DEF Verified, SessionInv, InterfaceTypeOK
  <2> QED
    BY <2>1, ReleasedStep
<1>2. /\ channel \in Helper
      /\ helper[channel].pc = "answered" /\ helper[channel].answer = "State"
      /\ IsState(helper[channel].before)
  BY DEF Verified, HasAnswered, AnswerOf, SessionInv, InterfaceTypeOK,
       HelpersOK, Legal, RequestInv
<1>3. InterfaceTypeOK'
  BY <1>2 DEF Verified, SessionInv, InterfaceTypeOK, machineVars, sessionVars,
       IsOptionalState
<1>4. ChannelInv' /\ TargetKnown' /\ HistoryInv'
  BY <1>1 DEF Verified, sessionVars, ServingRecord, SessionInv, CommandInv,
       ChannelInv, ChannelHelper, Greeted, TargetKnown, HistoryInv
<1>5. SessionLands'
  <2> SUFFICES ASSUME quiet
               PROVE  /\ nvram[BootNext] = target
                      /\ nvram[target] \in LoadOption
                      /\ StableId(nvram[target]) = wanted
    BY DEF SessionLands, Verified, machineVars
  <2>1. helper[channel].before = Snapshot(Globals) /\ pc = "after"
    BY <1>2 DEF Verified, SessionInv, InterfaceTypeOK, CommandInv, ChannelInv,
         ChannelHelper, ReadsTruth
  <2> QED
    BY <1>2, <2>1, AcceptedIsTrue DEF Verified, GuardAccepts
<1> QED
  BY <1>1, <1>3, <1>4, <1>5 DEF SessionInv, CommandInv

-----------------------------------------------------------------------------
(* Actions of a helper                                                     *)

\* A snapshot of a firmware is one, whenever its global variables were read.
LEMMA SnapshotType ==
  ASSUME IsState(nvram), NEW g, g.order \in OrderValue, g.next \in NextValue
  PROVE  IsState(Snapshot(g))
<1>1. /\ nvram[BootOrder] \in OrderValue /\ nvram[BootNext] \in NextValue
      /\ \A i \in BootId : nvram[i] \in EntryValue
  BY DEF IsState
<1>2. Snapshot(g) = [v \in Var |-> Snapshot(g)[v]]
  BY DEF Snapshot
<1>3. Snapshot(g)[BootOrder] = g.order /\ Snapshot(g)[BootNext] = g.next
  BY NamesInVar DEF Snapshot
<1>4. \A i \in BootId : Snapshot(g)[i] \in {nvram[i], Absent}
  BY NamesInVar DEF Snapshot
<1> QED
  BY <1>1, <1>2, <1>3, <1>4 DEF IsState, EntryValue

\* So are the global variables themselves.
LEMMA GlobalsType ==
  ASSUME IsState(nvram)
  PROVE  Globals.order \in OrderValue /\ Globals.next \in NextValue
  BY DEF IsState, Globals

\* What an answer does to the session: the pipe holds it, or nobody is left
\* to read it and the helper ends.
LEMMA ReplyStep ==
  ASSUME SessionInv, NEW h \in Helper, NEW answer \in SessionAnswers, NEW state,
         helper[h].pc \in {"run", "entries", "write", "verify", "compare"},
         state = None \/ IsState(state), answer = "State" => IsState(state),
         answer = "Written" => helper[h].privileged,
         answer = "EntryNotFound" => helper[h].op = "boot",
         h = channel /\ pc = "write" /\ touched =>
           answer # "EntryNotFound",
         h = channel /\ pc = "after" /\ quiet /\ answer = "State" =>
           state = Snapshot(Globals),
         Reply(h, answer, state), OnlyHelper, UNCHANGED quiet
  PROVE  SessionInv'
<1>1. CASE Attached(h)
  <2> DEFINE r == helper[h]
             q == [r EXCEPT !.pc = "answered", !.answer = answer,
                            !.globals = None, !.before = state]
  <2>1. helper' = [helper EXCEPT ![h] = q]
    BY <1>1 DEF Reply
  <2>2. /\ Legal(r) /\ r.op \in {"hello", "read", "boot"}
        /\ r.op = "boot" => r.id \in BootId
    BY DEF SessionInv, HelpersOK, Legal, RequestInv
  <2>3. Legal(q) /\ AnsweringRecord(q, r, answer, state)
    <3> HIDE DEF r
    <3>1. /\ answer = "Written" => r.privileged
          /\ answer = "EntryNotFound" => r.op = "boot"
      BY DEF r
    <3> QED
      BY <2>2, <3>1, ReplyIsLegal
  <2> HIDE DEF q
  <2>4. UNCHANGED <<nvram, pc, target, touched, quiet>>
    BY DEF OnlyHelper, machineVars, uiVars, planVars
  <2>5. h = channel => ChannelHelper(r)
    BY WindowsAssumption DEF SessionInv, CommandInv, ChannelInv
  <2>6. h = channel => ChannelHelper(helper[h])'
    BY <2>1, <2>3, <2>4, <2>5 DEF AnsweringRecord, ChannelHelper, Greeted,
         ReadRequested, WriteRequested, MayHaveWritten, ReadsTruth, Snapshot,
         Globals
  <2> QED
    BY <2>1, <2>3, <2>6, HelperOnly
<1>2. CASE ~Attached(h)
  <2>1. helper' = [helper EXCEPT ![h] = FreeHelper] /\ h # channel
    BY <1>2 DEF Reply, Attached
  <2> QED
    BY <2>1, FreeIsLegal, HelperOnly
<1> QED
  BY <1>1, <1>2

\* A helper that frees its slot was not the channel's.
LEMMA FreedKeeps ==
  ASSUME SessionInv, NEW h \in Helper, h # channel,
         helper' = [helper EXCEPT ![h] = FreeHelper], OnlyHelper, UNCHANGED quiet
  PROVE  SessionInv'
  BY FreeIsLegal, HelperOnly

\* The pipe is opened by a helper that nobody has asked anything yet.
LEMMA HelperConnectsKeeps ==
  ASSUME SessionInv, NEW h \in Helper, HelperConnects(h)
  PROVE  SessionInv'
<1>1. h # channel
  BY WindowsAssumption DEF HelperConnects, SessionInv, CommandInv, ChannelInv,
       ChannelHelper, Greeted
<1>2. CASE launching = h
  <2> DEFINE r == helper[h]
             q == [r EXCEPT !.pc = "serving"]
  <2>1. helper' = [helper EXCEPT ![h] = q] /\ Legal(r) /\ r.pc = "started"
    BY <1>2 DEF HelperConnects, SessionInv, HelpersOK
  <2> HIDE DEF r
  <2>2. Legal(q)
    <3>1. /\ q = [f \in DOMAIN FreeHelper |-> q[f]] /\ q.pc = "serving"
          /\ q.version = r.version /\ q.privileged = r.privileged
          /\ q.op = r.op /\ q.id = r.id /\ q.globals = r.globals
          /\ q.before = r.before /\ q.answer = r.answer
      BY <2>1 DEF Legal, IsHelper, FreeHelper
    <3> HIDE DEF q
    <3> QED
      BY <2>1, <3>1 DEF Legal, IsHelper, RequestInv
  <2> HIDE DEF q
  <2> QED
    BY <1>1, <2>1, <2>2, HelperOnly DEF HelperConnects
<1>3. CASE launching # h
  <2>1. helper' = [helper EXCEPT ![h] = FreeHelper]
    BY <1>3 DEF HelperConnects
  <2> QED
    BY <1>1, <2>1, FreedKeeps DEF HelperConnects
<1> QED
  BY <1>2, <1>3

\* The greeting is never the answer to a read or a write.
LEMMA HelperHelloKeeps ==
  ASSUME SessionInv, NEW h \in Helper, HelperHello(h)
  PROVE  SessionInv'
<1>1. h = channel => pc \notin {"write", "after"}
  BY WindowsAssumption DEF HelperHello, SessionInv, CommandInv, ChannelInv,
       ChannelHelper, ReadRequested, WriteRequested
<1> DEFINE answer == IF helper[h].version = PROTOCOL_VERSION THEN "Hello"
                     ELSE "BadRequest"
<1>2. answer \in SessionAnswers /\ answer \in {"Hello", "BadRequest"}
  BY DEF SessionAnswers
<1>3. helper[h].pc = "run" /\ Reply(h, answer, None) /\ OnlyHelper /\ UNCHANGED quiet
  BY DEF HelperHello
<1> HIDE DEF answer
<1> QED
  BY <1>1, <1>2, <1>3, ReplyStep

\* A read that fails leaves an answer, and no snapshot.
LEMMA HelperReadFailsKeeps ==
  ASSUME SessionInv, NEW h \in Helper, HelperReadFails(h)
  PROVE  SessionInv'
<1>1. PICK e \in ReadFailures(h) : Reply(h, e, None)
  BY DEF HelperReadFails
<1>2. /\ helper[h].pc \in {"run", "entries", "verify", "compare"}
      /\ OnlyHelper /\ UNCHANGED quiet
  BY DEF HelperReadFails, Reading
<1>3. e \in SessionAnswers /\ e \notin {"State", "Written", "EntryNotFound"}
  BY DEF ReadFailures, SessionAnswers
<1> QED
  BY <1>1, <1>2, <1>3, ReplyStep

\* The variables read now are those of the firmware.
LEMMA HelperReadsGlobalsKeeps ==
  ASSUME SessionInv, NEW h \in Helper, HelperReadsGlobals(h)
  PROVE  SessionInv'
<1> DEFINE r == helper[h]
           next == IF r.pc = "run" THEN "entries" ELSE "compare"
           q == [r EXCEPT !.globals = Globals, !.pc = next]
<1>1. /\ helper' = [helper EXCEPT ![h] = q] /\ OnlyHelper
      /\ quiet' = (quiet \/ (h = channel /\ pc = "after"))
  BY DEF HelperReadsGlobals
<1>2. /\ Legal(r) /\ r.privileged
      /\ (r.pc = "run" /\ r.op \in {"read", "boot"}) \/ r.pc = "verify"
  BY DEF HelperReadsGlobals, Reading, SessionInv, HelpersOK
<1>3. Globals.order \in OrderValue /\ Globals.next \in NextValue
  BY GlobalsType DEF SessionInv, InterfaceTypeOK
<1>4. h = channel => ChannelHelper(r)
  BY WindowsAssumption DEF SessionInv, CommandInv, ChannelInv
<1> HIDE DEF r
<1>5. /\ q = [f \in DOMAIN FreeHelper |-> q[f]]
      /\ q.pc = next /\ q.globals = Globals
      /\ q.version = r.version /\ q.privileged = r.privileged
      /\ q.op = r.op /\ q.id = r.id /\ q.before = r.before /\ q.answer = r.answer
  BY <1>2 DEF Legal, IsHelper, FreeHelper
<1> HIDE DEF q
<1>6. Legal(q)
  <2>1. IsHelper(q)
    BY <1>2, <1>3, <1>5 DEF Legal, IsHelper
  <2>2. RequestInv(q)
    BY <1>2, <1>3, <1>5 DEF Legal, RequestInv
  <2> QED
    BY <2>1, <2>2 DEF Legal
<1>7. UNCHANGED <<nvram, pc, target, touched, channel>>
  BY <1>1 DEF OnlyHelper, machineVars, uiVars, planVars, sessionVars
<1>8. h = channel => ChannelHelper(helper[h])'
  BY <1>1, <1>2, <1>4, <1>5, <1>6, <1>7, OneHelper DEF SessionInv,
       ChannelHelper, Greeted, ReadRequested, WriteRequested, MayHaveWritten,
       ReadsTruth, Globals
<1>9. quiet' = quiet \/ (quiet' = TRUE /\ pc = "after" /\ h = channel)
  <2>1. quiet \in BOOLEAN
    BY DEF SessionInv, InterfaceTypeOK
  <2> QED
    BY <1>1, <2>1
<1> QED
  BY <1>1, <1>6, <1>8, <1>9, HelperOnly

\* The snapshot that ends now is true if nobody has written since it began.
LEMMA HelperReadsEntriesKeeps ==
  ASSUME SessionInv, NEW h \in Helper, HelperReadsEntries(h)
  PROVE  SessionInv'
<1> DEFINE r == helper[h]
           s == Snapshot(r.globals)
<1>1. /\ Legal(r) /\ r.pc = "entries" /\ r.privileged
      /\ r.globals.order \in OrderValue /\ r.globals.next \in NextValue
      /\ OnlyHelper /\ UNCHANGED quiet
  BY DEF HelperReadsEntries, SessionInv, HelpersOK, Legal, RequestInv
<1>2. IsState(s)
  BY <1>1, SnapshotType DEF SessionInv, InterfaceTypeOK
<1>3. h = channel => ChannelHelper(r)
  BY WindowsAssumption DEF SessionInv, CommandInv, ChannelInv
<1>4. h = channel /\ pc = "after" /\ quiet => s = Snapshot(Globals)
  BY <1>1, <1>3 DEF ChannelHelper, ReadsTruth
<1>5. ~(h = channel /\ pc = "write" /\ touched)
  BY <1>1, <1>3 DEF ChannelHelper, MayHaveWritten
<1>6. {"State", "EntryNotFound"} \subseteq SessionAnswers
  BY DEF SessionAnswers
<1>7. CASE r.op = "read" /\ Reply(h, "State", s)
  BY <1>1, <1>2, <1>4, <1>5, <1>6, <1>7, ReplyStep
<1>8. CASE r.op = "boot" /\ Reply(h, "EntryNotFound", None)
  BY <1>1, <1>5, <1>6, <1>8, ReplyStep
<1>9. CASE /\ r.op = "boot"
           /\ helper' = [helper EXCEPT ![h].pc = "write", ![h].globals = None,
                                       ![h].before = s]
  <2> DEFINE q == [r EXCEPT !.pc = "write", !.globals = None, !.before = s]
  <2>1. helper' = [helper EXCEPT ![h] = q]
    BY <1>9
  <2> HIDE DEF s, r
  <2>2. /\ q = [f \in DOMAIN FreeHelper |-> q[f]]
        /\ q.pc = "write" /\ q.globals = None /\ q.before = s
        /\ q.version = r.version /\ q.privileged = r.privileged
        /\ q.op = r.op /\ q.id = r.id /\ q.answer = r.answer
    BY <1>1 DEF Legal, IsHelper, FreeHelper
  <2> HIDE DEF q
  <2>3. Legal(q)
    <3>1. IsHelper(q)
      BY <1>1, <1>2, <2>2 DEF Legal, IsHelper, IsOptionalState
    <3>2. RequestInv(q)
      BY <1>1, <1>2, <1>9, <2>2 DEF Legal, RequestInv
    <3> QED
      BY <3>1, <3>2 DEF Legal
  <2>4. UNCHANGED <<nvram, pc, target, touched, channel>>
    BY <1>1 DEF OnlyHelper, machineVars, uiVars, planVars, sessionVars
  <2>5. h = channel => ChannelHelper(helper[h])'
    BY <1>1, <1>3, <1>5, <1>9, <2>1, <2>2, <2>3, <2>4, OneHelper DEF
         SessionInv, ChannelHelper, Greeted, ReadRequested, WriteRequested
  <2> QED
    BY <1>1, <2>1, <2>3, <2>5, HelperOnly
<1> QED
  BY <1>7, <1>8, <1>9 DEF HelperReadsEntries

\* A refused write is reported as an error.
LEMMA HelperWriteRefusedKeeps ==
  ASSUME SessionInv, NEW h \in Helper, HelperWriteRefused(h)
  PROVE  SessionInv'
<1>1. PICK e \in {"WriteRefused", "PrivilegeRequired", "NotUefi"} :
        Reply(h, e, None)
  BY DEF HelperWriteRefused
<1>2. e \in SessionAnswers /\ e \notin {"State", "Written", "EntryNotFound"}
  BY DEF SessionAnswers
<1> QED
  BY <1>1, <1>2, ReplyStep DEF HelperWriteRefused

\* The helper's own verdict is one of two answers.
LEMMA HelperVerifiesKeeps ==
  ASSUME SessionInv, NEW h \in Helper, HelperVerifies(h)
  PROVE  SessionInv'
<1> DEFINE answer ==
      IF VerifyOnlyBootNextChanged(helper[h].before,
           Snapshot(helper[h].globals), helper[h].id) = "Ok"
      THEN "Written" ELSE "GuardViolation"
<1>1. answer \in SessionAnswers /\ answer \in {"Written", "GuardViolation"}
  BY DEF SessionAnswers
<1>2. /\ helper[h].pc = "compare" /\ Reply(h, answer, None)
      /\ OnlyHelper /\ UNCHANGED quiet
  BY DEF HelperVerifies
<1>3. helper[h].privileged
  BY <1>2 DEF SessionInv, HelpersOK, Legal, RequestInv
<1> HIDE DEF answer
<1> QED
  BY <1>1, <1>2, <1>3, ReplyStep

\* A helper that nobody is attached to is not the channel's.
LEMMA HelperExitsKeeps ==
  ASSUME SessionInv, NEW h \in Helper, HelperExits(h)
  PROVE  SessionInv'
  BY FreedKeeps DEF HelperExits, EndOfPipe, Attached

\* The channel's helper is gone, and its interface will find out.
LEMMA HelperDiesKeeps ==
  ASSUME SessionInv, NEW h \in Helper, HelperDies(h)
  PROVE  SessionInv'
<1>1. CASE Attached(h) /\ helper[h].pc # "started"
  <2> DEFINE q == [FreeHelper EXCEPT !.pc = "gone"]
  <2>1. helper' = [helper EXCEPT ![h] = q]
    BY <1>1 DEF HelperDies
  <2>2. Legal(q) /\ q.pc = "gone"
    BY FreeIsLegal
  <2> HIDE DEF q
  <2>3. ChannelHelper(helper[h])'
    BY <2>1, <2>2, OneHelper DEF SessionInv, ChannelHelper, Greeted,
         ReadRequested, WriteRequested, MayHaveWritten, ReadsTruth
  <2> QED
    BY <2>1, <2>2, <2>3, HelperOnly DEF HelperDies
<1>2. CASE ~(Attached(h) /\ helper[h].pc # "started")
  <2>1. helper' = [helper EXCEPT ![h] = FreeHelper]
    BY <1>2 DEF HelperDies
  <2>2. h # channel
    BY <1>2, WindowsAssumption DEF Attached, SessionInv, CommandInv,
         ChannelInv, ChannelHelper, Greeted
  <2> QED
    BY <2>1, <2>2, FreedKeeps DEF HelperDies
<1> QED
  BY <1>1, <1>2

\* A write, by the channel's helper or by an orphaned one: if it changed
\* anything, the last snapshot no longer counts.
LEMMA HelperWritesKeeps ==
  ASSUME SessionInv, NEW h \in Helper, HelperWrites(h)
  PROVE  SessionInv'
<1> DEFINE r == helper[h]
           q == [r EXCEPT !.pc = "verify"]
<1>1. /\ helper' = [helper EXCEPT ![h] = q] /\ Legal(r) /\ r.pc = "write"
      /\ r.op = "boot" /\ r.id \in BootId
  BY DEF HelperWrites, SessionInv, HelpersOK, Legal, RequestInv
<1>2. IsState(nvram')
  <2>1. PICK b \in Behaviours :
          nvram' \in FirmwareEffects(nvram, BootNext, helper[h].id, b)
    BY DEF HelperWrites
  <2>2. IsState(nvram)
    BY DEF SessionInv, InterfaceTypeOK
  <2> QED
    BY <1>1, <2>1, <2>2, EffectsAreStates
<1>3. h = channel => ChannelHelper(r)
  BY WindowsAssumption DEF SessionInv, CommandInv, ChannelInv
<1> HIDE DEF r
<1>4. /\ q = [f \in DOMAIN FreeHelper |-> q[f]]
      /\ q.pc = "verify"
      /\ q.version = r.version /\ q.privileged = r.privileged
      /\ q.op = r.op /\ q.id = r.id /\ q.globals = r.globals
      /\ q.before = r.before /\ q.answer = r.answer
  BY <1>1 DEF Legal, IsHelper, FreeHelper
<1> HIDE DEF q
<1>5. Legal(q)
  <2>1. IsHelper(q)
    BY <1>1, <1>4 DEF Legal, IsHelper
  <2>2. RequestInv(q)
    BY <1>1, <1>4 DEF Legal, RequestInv
  <2> QED
    BY <2>1, <2>2 DEF Legal
<1>6. /\ HelpersOK' /\ helper'[h] = q
      /\ \A k \in Helper \ {h} : helper'[k] = helper[k]
  BY <1>1, <1>5, OneHelper DEF SessionInv
<1>7. /\ touched' = (touched \/ (h = channel /\ nvram' # nvram))
      /\ quiet' = (quiet /\ nvram' = nvram)
      /\ UNCHANGED <<edits, readOnly, pc, launching, channel, elevated, plan,
                     wanted, target, before, after, reply, verified>>
      /\ touched \in BOOLEAN /\ quiet \in BOOLEAN
  BY DEF HelperWrites, uiVars, sessionVars, planVars, SessionInv,
       InterfaceTypeOK
<1>8. InterfaceTypeOK'
  BY <1>2, <1>7 DEF SessionInv, InterfaceTypeOK
<1>9. h = channel => pc = "write"
  BY <1>1, <1>3, WindowsAssumption DEF ChannelHelper, ReadRequested,
       SessionInv, InterfaceTypeOK, CommandInv, ChannelInv
<1>10. channel # None => ChannelHelper(helper[channel])'
  <2>1. CASE h = channel
    BY <1>1, <1>3, <1>4, <1>6, <1>7, <1>9, <2>1 DEF ChannelHelper, Greeted,
         WriteRequested, MayHaveWritten
  <2>2. CASE channel # None /\ h # channel
    <3>1. /\ helper'[channel] = helper[channel] /\ touched' = touched
          /\ quiet' => quiet /\ nvram' = nvram
          /\ ChannelHelper(helper[channel])
      BY <1>6, <1>7, <2>2 DEF SessionInv, InterfaceTypeOK, CommandInv,
           ChannelInv
    <3> QED
      BY <1>7, <3>1 DEF ChannelHelper, WriteRequested, ReadsTruth, Snapshot,
           Globals
  <2> QED
    BY <2>1, <2>2
<1>11. CommandInv'
  <2>1. ChannelInv' /\ TargetKnown'
    BY <1>7, <1>10 DEF SessionInv, CommandInv, ChannelInv, TargetKnown
  <2>2. HistoryInv'
    <3>1. touched' # touched => pc = "write"
      BY <1>7, <1>9
    <3> QED
      BY <1>7, <3>1 DEF SessionInv, CommandInv, HistoryInv
  <2>3. SessionLands'
    BY <1>7 DEF SessionInv, CommandInv, SessionLands
  <2> QED
    BY <2>1, <2>2, <2>3 DEF CommandInv
<1> QED
  BY <1>6, <1>8, <1>11 DEF SessionInv

-----------------------------------------------------------------------------
(* The environment                                                         *)

\* Another tool changes a variable: no snapshot is true any more.
LEMMA EditKeeps == SessionInv /\ Edit => SessionInv'
<1> SUFFICES ASSUME SessionInv, Edit PROVE SessionInv'
  OBVIOUS
<1>1. PICK v \in Var : \E x \in EditValues(v) : nvram' = [nvram EXCEPT ![v] = x]
  BY DEF Edit
<1>2. PICK x \in EditValues(v) : nvram' = [nvram EXCEPT ![v] = x]
  BY <1>1
<1>3. IsState(nvram')
  <2>1. IsState(nvram)
    BY DEF SessionInv, InterfaceTypeOK
  <2>2. /\ v = BootOrder => x \in OrderValue
        /\ v = BootNext => x \in NextValue
        /\ v \in BootId => x \in EntryValue
    BY <1>2, NamesInVar, WindowsAssumption DEF EditValues, NextValue, EntryValue
  <2> QED
    BY <1>2, <2>1, <2>2, StateUpdate
<1>4. edits' \in 0..MaxEdits
  BY WindowsAssumption DEF Edit, SessionInv, InterfaceTypeOK
<1>5. InterfaceTypeOK'
  BY <1>3, <1>4 DEF Edit, uiVars, sessionVars, planVars, SessionInv,
       InterfaceTypeOK
<1>6. HelpersOK' /\ CommandInv'
  BY DEF Edit, uiVars, sessionVars, planVars, SessionInv, HelpersOK,
       CommandInv, ChannelInv, ChannelHelper, WriteRequested, TargetKnown,
       HistoryInv, SessionLands
<1> QED
  BY <1>5, <1>6 DEF SessionInv

\* A new interface has no channel, and no history.
LEMMA FreshCommand == FreshInterface => CommandInv'
  BY DEF FreshInterface, NewCommand, CommandInv, ChannelInv, TargetKnown,
       HistoryInv, SessionLands

\* The helpers go on without their interface.
LEMMA InterfaceRestartsKeeps == SessionInv /\ InterfaceRestarts => SessionInv'
<1> SUFFICES ASSUME SessionInv, InterfaceRestarts PROVE SessionInv'
  OBVIOUS
<1>1. InterfaceTypeOK'
  BY DEF InterfaceRestarts, FreshInterface, NewCommand, machineVars,
       SessionInv, InterfaceTypeOK, Replies, IsOptionalState
<1>2. \A h \in Helper : Legal(helper'[h])
  <2> SUFFICES ASSUME NEW h \in Helper PROVE Legal(helper'[h])
    OBVIOUS
  <2>1. Legal(helper[h])
    BY DEF SessionInv, HelpersOK
  <2>2. CASE helper[h].pc = "answered"
    <3> DEFINE r == helper[h]
               q == [FreeHelper EXCEPT !.pc = "serving", !.version = r.version,
                                       !.privileged = r.privileged]
    <3>1. helper'[h] = q
      <4>1. helper'[h] = Released(h)[h]
        BY <2>2 DEF InterfaceRestarts
      <4>2. Released(h)[h] = q
        BY <2>2 DEF Released, SessionInv, HelpersOK
      <4> QED
        BY <4>1, <4>2
    <3> HIDE DEF r
    <3>2. Legal(q)
      BY <2>1, ServingIsLegal DEF r
    <3> HIDE DEF q
    <3> QED
      BY <3>1, <3>2
  <2>3. CASE helper[h].pc # "answered"
    <3>1. helper'[h] \in {FreeHelper, helper[h]}
      BY <2>3 DEF InterfaceRestarts
    <3> QED
      BY <2>1, <3>1, FreeIsLegal
  <2> QED
    BY <2>2, <2>3
<1>3. helper' = [h \in Helper |-> helper'[h]]
  BY DEF InterfaceRestarts
<1>4. CommandInv'
  BY FreshCommand DEF InterfaceRestarts
<1> QED
  BY <1>1, <1>2, <1>3, <1>4 DEF SessionInv, HelpersOK

\* The machine starts without any helper.
LEMMA MachineRestartsKeeps == SessionInv /\ MachineRestarts => SessionInv'
<1> SUFFICES ASSUME SessionInv, MachineRestarts PROVE SessionInv'
  OBVIOUS
<1>1. IsState(nvram')
  <2>1. IsState(nvram) /\ nvram' = [nvram EXCEPT ![BootNext] = Absent]
    BY DEF MachineRestarts, SessionInv, InterfaceTypeOK
  <2> QED
    BY <2>1, NamesInVar, StateUpdate DEF NextValue
<1>2. InterfaceTypeOK'
  BY <1>1 DEF MachineRestarts, FreshInterface, NewCommand, SessionInv,
       InterfaceTypeOK, Replies, IsOptionalState
<1>3. HelpersOK'
  BY FreeIsLegal DEF MachineRestarts, HelpersOK
<1>4. CommandInv'
  BY FreshCommand DEF MachineRestarts
<1> QED
  BY <1>2, <1>3, <1>4 DEF SessionInv

\* Nothing happens.
LEMMA SessionStutter == SessionInv /\ UNCHANGED vars => SessionInv'
<1> SUFFICES ASSUME SessionInv, UNCHANGED vars PROVE SessionInv'
  OBVIOUS
<1>1. UNCHANGED <<nvram, edits, readOnly, pc, launching, channel, elevated, plan,
                  wanted, target, before, after, reply, helper, touched,
                  verified, quiet>>
  BY DEF vars, machineVars, uiVars, sessionVars, planVars, history
<1>2. InterfaceTypeOK' /\ HelpersOK'
  BY <1>1 DEF SessionInv, InterfaceTypeOK, HelpersOK
<1>3. CommandInv'
  BY <1>1 DEF SessionInv, CommandInv, ChannelInv, ChannelHelper,
       WriteRequested, ReadsTruth, Snapshot, Globals, TargetKnown, HistoryInv,
       SessionLands
<1> QED
  BY <1>2, <1>3 DEF SessionInv

-----------------------------------------------------------------------------
(* The theorems                                                            *)

\* The session starts without a helper.
LEMMA SessionInit == Init => SessionInv
<1> SUFFICES ASSUME Init PROVE SessionInv
  OBVIOUS
<1>1. InterfaceTypeOK
  <2>1. IsState(nvram) /\ edits \in 0..MaxEdits
    BY WindowsAssumption DEF Init
  <2> QED
    BY <2>1 DEF Init, InterfaceTypeOK, Replies, IsOptionalState
<1>2. HelpersOK
  BY FreeIsLegal DEF Init, HelpersOK
<1>3. CommandInv
  BY DEF Init, CommandInv, ChannelInv, TargetKnown, HistoryInv, SessionLands
<1> QED
  BY <1>1, <1>2, <1>3 DEF SessionInv

\* Every step of the session keeps the invariant.
LEMMA SessionStep == SessionInv /\ [Next]_vars => SessionInv'
<1> SUFFICES ASSUME SessionInv, [Next]_vars PROVE SessionInv'
  OBVIOUS
<1>1. CASE User
  <2>1. CASE \E h \in Helper : PromptAccepted(h)
    BY <2>1, PromptAcceptedKeeps
  <2>2. CASE \E sid \in StableIds : Prepare(sid)
    BY <2>2, PrepareKeeps
  <2>3. CASE \E sid \in StableIds : PrepareLocally(sid)
    BY <2>3, PrepareLocallyKeeps
  <2> QED
    BY <1>1, <2>1, <2>2, <2>3, StartLocallyKeeps, LaunchHelperKeeps,
       PromptDeclinedKeeps, CancelSelectionKeeps, ConfirmReadOnlyKeeps,
       ConfirmKeeps, ConfirmLocallyKeeps DEF User
<1>2. CASE Interface
  BY <1>2, ConnectedKeeps, HandshakeSucceedsKeeps, HandshakeFailsKeeps,
     PrepareEndsKeeps, ResolvedKeeps, NotResolvedKeeps, WrittenKeeps,
     NotWrittenKeeps, VerifiedKeeps, NotVerifiedKeeps, RebootKeeps DEF Interface
<1>3. ASSUME NEW h \in Helper, HelperStep(h) PROVE SessionInv'
  BY <1>3, HelperConnectsKeeps, HelperHelloKeeps, HelperReadFailsKeeps,
     HelperReadsGlobalsKeeps, HelperReadsEntriesKeeps, HelperWritesKeeps,
     HelperWriteRefusedKeeps, HelperVerifiesKeeps, HelperExitsKeeps DEF HelperStep
<1>4. CASE Environment
  BY <1>4, HelperDiesKeeps, EditKeeps, InterfaceRestartsKeeps,
     MachineRestartsKeeps DEF Environment
<1>5. CASE UNCHANGED vars
  BY <1>5, SessionStutter
<1> QED
  BY <1>1, <1>2, <1>3, <1>4, <1>5 DEF Next

\* WindowsSession: the invariant holds in every state, for any number of
\* helpers, privileged or not, of any version, and any firmware.
THEOREM SessionInvariance == Spec => []SessionInv
<1>1. Init => SessionInv
  BY SessionInit
<1>2. SessionInv /\ [Next]_vars => SessionInv'
  BY SessionStep
<1> QED
  BY <1>1, <1>2, PTL DEF Spec

\* WindowsSession: type correctness, and a command in progress has a helper.
THEOREM SessionTypes == Spec => []SessionTypeOK
<1>1. SessionInv => SessionTypeOK
  BY DEF SessionInv, SessionTypeOK, HelpersOK, Legal
<1> QED
  BY <1>1, SessionInvariance, PTL

\* elevate.rs handshake: only a helper that was greeted in the version of the
\* interface ever serves a read or a write, also after its interface is gone.
THEOREM SessionServed == Spec => []ServedByGreeted
<1>1. SessionInv => ServedByGreeted
  BY DEF SessionInv, HelpersOK, Legal, RequestInv, ServedByGreeted
<1> QED
  BY <1>1, SessionInvariance, PTL

\* commands.rs confirm_and_reboot on Windows: what the application reboots for
\* and reports is where the firmware goes, unless somebody wrote since the
\* guard's snapshot began to be read.
THEOREM SessionLanding == Spec => []SessionLands
<1>1. SessionInv => SessionLands
  BY DEF SessionInv, CommandInv
<1> QED
  BY <1>1, SessionInvariance, PTL

\* The writes of the current command are those of the channel's helper while the
\* command waits for it.
LEMMA TouchStep ==
  ASSUME SessionInv, NEW h \in Helper, HelperWrites(h), touched' # touched
  PROVE  pc = "write"
<1>1. h = channel /\ helper[h].pc = "write"
  BY DEF HelperWrites, SessionInv, InterfaceTypeOK
<1>2. ChannelHelper(helper[h])
  BY <1>1, WindowsAssumption DEF SessionInv, CommandInv, ChannelInv
<1>3. pc \notin {"start", "prompt", "connect", "hello"}
  BY <1>1, WindowsAssumption DEF SessionInv, CommandInv, ChannelInv
<1> QED
  BY <1>1, <1>2, <1>3
     DEF ChannelHelper, ReadRequested, SessionInv, InterfaceTypeOK

\* backend.rs guarantees_no_write on Windows: the promise that nothing was
\* modified becomes false only when the firmware cannot be read back after the
\* write, for want of the privilege or of a UEFI firmware.
THEOREM SessionPromise == Spec => SessionPromiseFailsOnlyAtReads
<1> DEFINE Step ==
      reply' = "promise" /\ touched' =>
        \/ reply = "promise" /\ touched
        \/ /\ pc \in {"write", "after"}
           /\ AnswerOf(channel) \in {"PrivilegeRequired", "NotUefi"}
<1>1. ASSUME SessionInv, [Next]_vars PROVE Step
  <2>1. ASSUME touched' = FALSE \/ reply' # "promise" PROVE Step
    BY <2>1
  <2>2. ASSUME UNCHANGED <<reply, touched>> PROVE Step
    BY <2>2
  <2>3. CASE User
    <3>1. pc = "prompt" => touched = FALSE
      BY <1>1 DEF SessionInv, InterfaceTypeOK, CommandInv, HistoryInv
    <3> QED
      BY <2>1, <2>2, <2>3, <3>1
         DEF User, StartLocally, LaunchHelper, PromptDeclined, PromptAccepted,
             Prepare, PrepareLocally, CancelSelection, ConfirmReadOnly,
             ConfirmLocally, Confirm, NewCommand, Finish, history
  <2>4. CASE NotWritten
    <3>1. touched => AnswerOf(channel) # "EntryNotFound"
      BY <1>1, <2>4 DEF NotWritten, AnswerOf, HasAnswered, SessionInv,
                        InterfaceTypeOK, CommandInv, ChannelInv, ChannelHelper,
                        MayHaveWritten
    <3> QED
      BY <2>4, <3>1 DEF NotWritten, Finish, ReplyTo, history
  <2>5. CASE NotVerified
    <3>1. AnswerOf(channel) # "EntryNotFound"
      BY <1>1, <2>5 DEF NotVerified, AnswerOf, HasAnswered, SessionInv,
                        InterfaceTypeOK, HelpersOK, Legal, RequestInv,
                        CommandInv, ChannelInv, ChannelHelper, ReadRequested
    <3> QED
      BY <2>5, <3>1 DEF NotVerified, Finish, ReplyTo, history
  <2>6. CASE PrepareEnds \/ NotResolved
    <3>1. touched' = FALSE
      BY <1>1, <2>6 DEF PrepareEnds, NotResolved, history, SessionInv,
                        InterfaceTypeOK, CommandInv, HistoryInv
    <3> QED
      BY <2>1, <3>1
  <2>7. CASE \/ Connected \/ HandshakeSucceeds \/ HandshakeFails \/ Resolved
             \/ Written \/ Verified \/ Reboot
    BY <2>1, <2>2, <2>7
       DEF Connected, HandshakeSucceeds, HandshakeFails, Resolved, Written,
           Verified, Reboot, Finish, history
  <2>8. ASSUME NEW h \in Helper, HelperStep(h) PROVE Step
    <3>1. CASE HelperWrites(h)
      <4>1. CASE touched' = touched
        BY <2>2, <3>1, <4>1 DEF HelperWrites, uiVars
      <4>2. CASE touched' # touched
        <5>1. reply' # "promise"
          BY <1>1, <3>1, <4>2, TouchStep
             DEF HelperWrites, uiVars, SessionInv, CommandInv, HistoryInv
        <5> QED
          BY <2>1, <5>1
      <4> QED
        BY <4>1, <4>2
    <3>2. CASE ~HelperWrites(h)
      BY <2>2, <2>8, <3>2
         DEF HelperStep, HelperConnects, HelperHello, HelperReadFails,
             HelperReadsGlobals, HelperReadsEntries, HelperWriteRefused,
             HelperVerifies, HelperExits, OnlyHelper, uiVars
    <3> QED
      BY <3>1, <3>2
  <2>9. CASE Environment
    BY <2>1, <2>2, <2>9
       DEF Environment, HelperDies, Edit, InterfaceRestarts, MachineRestarts,
           FreshInterface, NewCommand, OnlyHelper, uiVars
  <2>10. CASE UNCHANGED vars
    BY <2>2, <2>10 DEF vars, uiVars, history
  <2> HIDE DEF Step
  <2> QED
    BY <1>1, <2>3, <2>4, <2>5, <2>6, <2>7, <2>8, <2>9, <2>10
       DEF Next, Interface
<1>2. SessionInv /\ [Next]_vars =>
        [reply' = "promise" /\ touched' =>
           \/ reply = "promise" /\ touched
           \/ /\ pc \in {"write", "after"}
              /\ AnswerOf(channel) \in {"PrivilegeRequired", "NotUefi"}]_vars
  BY <1>1
<1> QED
  BY <1>2, SessionInvariance, PTL DEF Spec, SessionPromiseFailsOnlyAtReads

=============================================================================
