------------------------- MODULE BootSelectionProofs -------------------------
(***************************************************************************)
(* Safety of BootSelection, for any number of helpers, entries, devices    *)
(* and changes by other tools, any firmware and any failure of a read.     *)
(***************************************************************************)
EXTENDS BootSelection, FirmwareProofs

(* The inductive invariant: the types, and what the places of the command  *)
(* and of the helpers say about their snapshots.                           *)

\* The entry the command is about was found and validated in its snapshot.
Resolved ==
  /\ IsState(before)
  /\ target \in BootId
  /\ before[target] \in LoadOption
  /\ StableId(before[target]) = wanted
  /\ Selectable(before[target], inventory)

CommandInv ==
  /\ callee # None => pc = "wait"
  /\ pc = "wait" => callee \in Helper
  /\ pc = "confirm" => plan # None
  /\ pc \in Underway => Resolved
  /\ pc = "reboot" =>
       /\ armed
       /\ IsState(after)
       /\ VerifyOnlyBootNextChanged(before, after, target) = "Ok"

\* A helper that runs has a request, and one that is about to write a snapshot
\* from which it can build what it writes.
RequestInv(r) ==
  /\ r.pc \in {"auth", "run", "write", "verify"} =>
       r.id \in BootId /\ r.op \in {"boot", "default"}
  /\ r.pc \in {"write", "verify"} =>
       IsState(r.before) /\ (r.op = "default" => HasBootOrder(r.before))
  /\ r.pc = "answered" => r.answer \in Answers

HelperInv == \A h \in Helper : RequestInv(helper[h])

\* What the firmware holds now is among what a read in progress may yield.
WatchInv == \A r \in Reader : seen[r] = {} \/ nvram \in seen[r]

IInv == TypeOK /\ CommandInv /\ HelperInv /\ WatchInv

-----------------------------------------------------------------------------
(* Facts about the operators                                               *)

\* A read that misses some variables still yields a snapshot.
LEMMA ReadsAreStates ==
  ASSUME SeenOK, NEW r \in Reader, NEW s \in Snapshots(r)
  PROVE  IsState(s)
<1>1. PICK x \in seen[r], m \in Missing :
        s = [v \in Var |-> IF v \in m THEN Absent ELSE x[v]]
  BY DEF Snapshots, Observed
<1>2. IsState(x)
  BY DEF SeenOK
<1>3. s = [v \in Var |-> s[v]]
  BY <1>1
<1>4. /\ s[BootOrder] \in OrderValue
      /\ s[BootNext] \in NextValue
      /\ \A i \in BootId : s[i] \in EntryValue
  BY <1>1, <1>2, NamesInVar DEF IsState, OrderValue, NextValue, EntryValue
<1> QED
  BY <1>3, <1>4 DEF IsState

\* Absent is the only value a partial read can show in the place of another.
LEMMA ReadShows ==
  ASSUME NEW r \in Reader, seen[r] = {nvram}, NEW s \in Snapshots(r),
         NEW v \in Var, s[v] # Absent
  PROVE  nvram[v] = s[v]
BY DEF Snapshots, Observed

\* A change during a read leaves what the read could yield, and adds the new
\* contents of the firmware.
LEMMA GrownSnapshots ==
  ASSUME NEW S, \A s \in S : IsState(s), NEW t, IsState(t)
  PROVE  /\ \A s \in Grown(S, t) : IsState(s)
         /\ S \subseteq Grown(S, t)
         /\ S # {} => t \in Grown(S, t)
         /\ S = {} => Grown(S, t) = {}
<1> DEFINE mix(s, c) == [v \in Var |-> IF v \in c THEN t[v] ELSE s[v]]
<1>1. Grown(S, t) = {mix(s, c) : s \in S, c \in SUBSET Var}
  BY DEF Grown
<1>2. ASSUME NEW s \in S, NEW c \in SUBSET Var
      PROVE  IsState(mix(s, c))
  <2>1. mix(s, c) = [v \in Var |-> mix(s, c)[v]]
    OBVIOUS
  <2>2. /\ mix(s, c)[BootOrder] \in OrderValue
        /\ mix(s, c)[BootNext] \in NextValue
        /\ \A i \in BootId : mix(s, c)[i] \in EntryValue
    BY NamesInVar DEF IsState
  <2> QED
    BY <2>1, <2>2 DEF IsState
<1>3. ASSUME NEW s \in S
      PROVE  s = mix(s, {}) /\ t = mix(s, Var)
  BY DEF IsState
<1>4. \A s \in Grown(S, t) : IsState(s)
  BY <1>1, <1>2
<1>5. ASSUME NEW s \in S
      PROVE  s \in Grown(S, t) /\ t \in Grown(S, t)
  <2>1. \A c \in SUBSET Var : mix(s, c) \in Grown(S, t)
    BY DEF Grown
  <2>2. {} \in SUBSET Var /\ Var \in SUBSET Var
    OBVIOUS
  <2> HIDE DEF mix
  <2> QED
    BY <1>3, <2>1, <2>2
<1>6. S = {} => Grown(S, t) = {}
  BY DEF Grown
<1> QED
  BY <1>4, <1>5, <1>6

\* What a request writes has the type of the variable it is written to.
LEMMA WrittenType ==
  ASSUME NEW r, RequestInv(r), r.pc = "write"
  PROVE  \/ WrittenVar(r) = BootNext /\ WrittenValue(r) \in BootId
         \/ WrittenVar(r) = BootOrder /\ WrittenValue(r) \in Seq(BootId)
<1>1. r.id \in BootId /\ r.op \in {"boot", "default"} /\ IsState(r.before)
        /\ (r.op = "default" => HasBootOrder(r.before))
  BY DEF RequestInv
<1>2. CASE r.op = "boot"
  BY <1>1, <1>2 DEF WrittenVar, WrittenValue
<1>3. CASE r.op = "default"
  <2>1. r.before[BootOrder] \in Seq(BootId)
    BY <1>1, <1>3 DEF IsState, OrderValue, HasBootOrder
  <2>2. MoveToFront(r.before[BootOrder], r.id) \in Seq(BootId)
    BY <1>1, <2>1, MoveToFrontType
  <2> QED
    BY <1>3, <2>2 DEF WrittenVar, WrittenValue
<1> QED
  BY <1>1, <1>2, <1>3

\* An entry found by its stable identifier is an entry and carries it.
LEMMA FoundIsEntry ==
  ASSUME NEW s, NEW sid, NEW i, Found(s, sid, i)
  PROVE  i \in BootId /\ s[i] \in LoadOption /\ StableId(s[i]) = sid
BY DEF Found, Matches, Entries

-----------------------------------------------------------------------------
(* The machine                                                             *)

\* The steps that change the machine.
LEMMA MachineSteps ==
  ASSUME [Next]_vars
  PROVE  \/ UNCHANGED machineVars
         \/ RebootTakesEffect
         \/ \E h \in Helper : HelperWrites(h)
         \/ Edit
         \/ \E p \in Removable : PlugOrUnplug(p)
         \/ MachineRestarts
<1>1. CASE User
  BY <1>1 DEF User, PrepareBegins, CancelSelection, ConfirmBegins,
              DefaultBegins, Begin
<1>2. CASE Interface
  BY <1>2 DEF Interface, Command, PrepareSelection, PrepareFails,
              SetDefaultRefused, SetDefaultResolved, ConfirmRefused,
              ConfirmResolved, Proceed, CallHelper, CallFails, TakeAnswer,
              Timeout, VerifyFails, VerifySucceeds, RebootFails
<1>3. CASE \E h \in Helper : HelperStep(h)
  BY <1>3 DEF HelperStep, HelperReads, HelperRefuses, HelperWriteRefused,
              HelperVerifies
<1>4. CASE Environment
  BY <1>4 DEF Environment, Authenticate, Deny, HelperDies, InterfaceRestarts
<1>5. CASE UNCHANGED vars
  BY <1>5 DEF vars, machineVars
<1> QED
  BY <1>1, <1>2, <1>3, <1>4, <1>5 DEF Next

\* Every step leaves the firmware a snapshot, and the machine typed.
LEMMA MachineType ==
  ASSUME IInv, [Next]_vars
  PROVE  MachineOK'
<1>1. MachineOK /\ IsState(nvram)
  BY DEF IInv, TypeOK, MachineOK
<1>2. CASE UNCHANGED machineVars
  BY <1>1, <1>2 DEF machineVars, MachineOK
<1>3. CASE RebootTakesEffect
  BY <1>1, <1>3 DEF RebootTakesEffect, MachineOK
<1>4. ASSUME NEW h \in Helper, HelperWrites(h)
      PROVE  MachineOK'
  <2>1. RequestInv(helper[h]) /\ helper[h].pc = "write"
    BY <1>4 DEF HelperWrites, IInv, HelperInv
  <2>2. PICK b \in Behaviours :
          nvram' \in FirmwareEffects(nvram, WrittenVar(helper[h]),
                                     WrittenValue(helper[h]), b)
    BY <1>4 DEF HelperWrites
  <2>3. IsState(nvram')
    BY <1>1, <2>1, <2>2, WrittenType, EffectsAreStates
  <2> QED
    BY <1>1, <1>4, <2>3 DEF HelperWrites, MachineOK
<1>5. CASE Edit
  <2>1. PICK v \in Var : \E x \in EditValues(v) : nvram' = [nvram EXCEPT ![v] = x]
    BY <1>5 DEF Edit
  <2>2. PICK x \in EditValues(v) : nvram' = [nvram EXCEPT ![v] = x]
    BY <2>1
  <2>3. /\ v = BootOrder => x \in OrderValue
        /\ v = BootNext => x \in NextValue
        /\ v \in BootId => x \in EntryValue
    BY <2>2, NamesInVar, EditsAssumption
       DEF EditValues, NextValue, EntryValue
  <2>4. IsState(nvram')
    BY <1>1, <2>2, <2>3, StateUpdate
  <2>5. edits' \in 0..MaxEdits
    BY <1>1, <1>5, EditsAssumption DEF Edit, MachineOK
  <2> QED
    BY <1>1, <1>5, <2>4, <2>5 DEF Edit, MachineOK
<1>6. ASSUME NEW p \in Removable, PlugOrUnplug(p)
      PROVE  MachineOK'
  BY <1>1, <1>6, RemovableAssumption DEF PlugOrUnplug, MachineOK
<1>7. CASE MachineRestarts
  <2>1. nvram' = [nvram EXCEPT ![BootNext] = Absent]
    BY <1>7 DEF MachineRestarts
  <2>2. Absent \in NextValue
    BY DEF NextValue
  <2>3. IsState(nvram')
    BY <1>1, <2>1, <2>2, NamesInVar, StateUpdate
  <2> QED
    BY <1>1, <1>7, <2>3 DEF MachineRestarts, MachineOK
<1> QED
  BY <1>2, <1>3, <1>4, <1>5, <1>6, <1>7, MachineSteps

-----------------------------------------------------------------------------
(* The reads in progress                                                   *)

\* A read begins, ends, or witnesses a change of the firmware.
LEMMA SeenSteps ==
  ASSUME [Next]_vars
  PROVE  \/ UNCHANGED <<nvram, seen>>
         \/ \E r \in Reader : (BeginRead(r) \/ EndRead(r)) /\ UNCHANGED nvram
         \/ \E h \in Helper : HelperWrites(h)
         \/ Edit
         \/ MachineRestarts
<1>0. Ui \in Reader /\ Helper \subseteq Reader
  BY DEF Reader
<1>1. CASE User
  BY <1>0, <1>1 DEF User, PrepareBegins, CancelSelection, ConfirmBegins,
                    DefaultBegins, Begin, machineVars
<1>2. CASE Interface
  BY <1>0, <1>2 DEF Interface, Command, PrepareSelection, PrepareFails,
                    SetDefaultRefused, SetDefaultResolved, ConfirmRefused,
                    ConfirmResolved, Proceed, CallHelper, CallFails, TakeAnswer,
                    Timeout, VerifyFails, VerifySucceeds, RebootTakesEffect,
                    RebootFails, machineVars
<1>3. CASE \E h \in Helper : HelperStep(h)
  BY <1>0, <1>3 DEF HelperStep, HelperReads, HelperRefuses, HelperWriteRefused,
                    HelperVerifies, Answer, machineVars
<1>4. CASE Environment
  BY <1>0, <1>4 DEF Environment, Authenticate, Deny, HelperDies, Answer,
                    PlugOrUnplug, InterfaceRestarts, machineVars
<1>5. CASE UNCHANGED vars
  BY <1>5 DEF vars, machineVars
<1> QED
  BY <1>1, <1>2, <1>3, <1>4, <1>5 DEF Next

\* Every step leaves every read with snapshots, the current one among them.
LEMMA SeenType ==
  ASSUME IInv, [Next]_vars
  PROVE  SeenOK' /\ WatchInv'
<1>1. SeenOK /\ WatchInv /\ IsState(nvram) /\ IsState(nvram')
  BY MachineType DEF IInv, TypeOK, MachineOK
<1>2. CASE UNCHANGED <<nvram, seen>>
  BY <1>1, <1>2 DEF SeenOK, WatchInv
<1>3. ASSUME NEW r \in Reader, BeginRead(r) \/ EndRead(r), UNCHANGED nvram
      PROVE  SeenOK' /\ WatchInv'
  BY <1>1, <1>3 DEF BeginRead, EndRead, SeenOK, WatchInv
<1>4. \A r \in Reader : /\ \A s \in Grown(seen[r], nvram') : IsState(s)
                        /\ \/ Grown(seen[r], nvram') = {}
                           \/ nvram' \in Grown(seen[r], nvram')
  BY <1>1, GrownSnapshots DEF SeenOK
<1>5. ASSUME NEW h \in Helper, HelperWrites(h)
      PROVE  SeenOK' /\ WatchInv'
  <2>1. seen' = [r \in Reader |-> IF r = h THEN {nvram'} ELSE Grown(seen[r], nvram')]
    BY <1>5 DEF HelperWrites, Witnessed
  <2> QED
    BY <1>1, <1>4, <2>1 DEF SeenOK, WatchInv
<1>6. CASE Edit
  <2>1. seen' = [r \in Reader |-> Grown(seen[r], nvram')]
    BY <1>6 DEF Edit, Witnessed
  <2> QED
    BY <1>4, <2>1 DEF SeenOK, WatchInv
<1>7. CASE MachineRestarts
  BY <1>7 DEF MachineRestarts, SeenOK, WatchInv
<1> QED
  BY <1>2, <1>3, <1>5, <1>6, <1>7, SeenSteps

-----------------------------------------------------------------------------
(* The helpers                                                             *)

\* The steps that change a helper: one process starts, moves or ends.
LEMMA HelperSteps ==
  ASSUME [Next]_vars
  PROVE  \/ UNCHANGED helper
         \/ \E h \in Helper :
              \/ CallHelper(h) \/ Authenticate(h) \/ Deny(h) \/ HelperDies(h)
              \/ HelperStep(h)
         \/ TakeAnswer
         \/ Timeout
         \/ InterfaceRestarts
         \/ MachineRestarts
<1>1. CASE User
  BY <1>1 DEF User, PrepareBegins, CancelSelection, ConfirmBegins,
              DefaultBegins, Begin
<1>2. CASE Interface
  BY <1>2 DEF Interface, Command, PrepareSelection, PrepareFails,
              SetDefaultRefused, SetDefaultResolved, ConfirmRefused,
              ConfirmResolved, Proceed, CallFails, VerifyFails, VerifySucceeds,
              RebootFails, RebootTakesEffect
<1>3. CASE Environment
  BY <1>3 DEF Environment, Edit, PlugOrUnplug
<1>4. CASE UNCHANGED vars
  BY <1>4 DEF vars
<1> QED
  BY <1>1, <1>2, <1>3, <1>4 DEF Next

\* One helper changes, and its new record is well-formed.
LEMMA OneHelper ==
  ASSUME HelpersOK, HelperInv, NEW h \in Helper, NEW r, IsHelper(r),
         RequestInv(r), helper' = [helper EXCEPT ![h] = r]
  PROVE  HelpersOK' /\ HelperInv'
BY DEF HelpersOK, HelperInv

\* An unused slot is a well-formed helper without a request.
LEMMA FreeHelperIsHelper == IsHelper(FreeHelper) /\ RequestInv(FreeHelper)
BY DEF IsHelper, RequestInv, FreeHelper, HelperPlaces, IsOptionalState

\* A record of a helper is the record of its fields, also after an update.
LEMMA HelperRecord ==
  ASSUME NEW r, IsHelper(r), NEW p
  PROVE  [r EXCEPT !.pc = p] =
           [pc |-> p, op |-> r.op, id |-> r.id, before |-> r.before,
            answer |-> r.answer]
<1>1. r \in [pc : {r.pc}, op : {r.op}, id : {r.id}, before : {r.before},
             answer : {r.answer}]
  BY DEF IsHelper
<1> QED
  BY <1>1

\* The record of a helper that takes its snapshot.
LEMMA HelperRecordRead ==
  ASSUME NEW r, IsHelper(r), NEW p, NEW b
  PROVE  [r EXCEPT !.pc = p, !.before = b] =
           [pc |-> p, op |-> r.op, id |-> r.id, before |-> b,
            answer |-> r.answer]
<1> DEFINE q == [r EXCEPT !.pc = p]
<1>1. q = [pc |-> p, op |-> r.op, id |-> r.id, before |-> r.before,
           answer |-> r.answer]
  BY HelperRecord
<1> HIDE DEF q
<1>2. q \in [pc : {p}, op : {r.op}, id : {r.id}, before : {r.before},
             answer : {r.answer}]
  BY <1>1
<1>3. [q EXCEPT !.before = b] =
        [pc |-> p, op |-> r.op, id |-> r.id, before |-> b, answer |-> r.answer]
  BY <1>1, <1>2
<1> QED
  BY <1>3 DEF q

\* The record of a helper that ends with an answer.
LEMMA HelperRecordAnswered ==
  ASSUME NEW r, IsHelper(r), NEW p, NEW a
  PROVE  [r EXCEPT !.pc = p, !.answer = a] =
           [pc |-> p, op |-> r.op, id |-> r.id, before |-> r.before,
            answer |-> a]
<1> DEFINE q == [r EXCEPT !.pc = p]
<1>1. q = [pc |-> p, op |-> r.op, id |-> r.id, before |-> r.before,
           answer |-> r.answer]
  BY HelperRecord
<1> HIDE DEF q
<1>2. q \in [pc : {p}, op : {r.op}, id : {r.id}, before : {r.before},
             answer : {r.answer}]
  BY <1>1
<1>3. [q EXCEPT !.answer = a] =
        [pc |-> p, op |-> r.op, id |-> r.id, before |-> r.before, answer |-> a]
  BY <1>1, <1>2
<1> QED
  BY <1>3 DEF q

\* A process that moves on, without or with a snapshot.
LEMMA MoveStep ==
  ASSUME HelpersOK, HelperInv, NEW h \in Helper,
         NEW p \in {"run", "verify"},
         p = "run" => helper[h].pc = "auth",
         p = "verify" => helper[h].pc = "write",
         helper' = [helper EXCEPT ![h] = [@ EXCEPT !.pc = p]]
  PROVE  HelpersOK' /\ HelperInv'
<1> DEFINE r == [helper[h] EXCEPT !.pc = p]
<1>1. IsHelper(helper[h]) /\ RequestInv(helper[h])
  BY DEF HelpersOK, HelperInv
<1>2. r = [pc |-> p, op |-> helper[h].op, id |-> helper[h].id,
           before |-> helper[h].before, answer |-> helper[h].answer]
  BY <1>1, HelperRecord
<1>3. helper' = [helper EXCEPT ![h] = r]
  BY DEF HelpersOK
<1> HIDE DEF r
<1>4. IsHelper(r) /\ RequestInv(r)
  BY <1>1, <1>2 DEF IsHelper, RequestInv, HelperPlaces
<1> QED
  BY <1>3, <1>4, OneHelper

\* A helper that takes its snapshot keeps a well-formed record.
LEMMA ReadRecord ==
  ASSUME NEW q, IsHelper(q), RequestInv(q), q.pc = "run",
         NEW s, IsState(s), q.op = "default" => HasBootOrder(s)
  PROVE  LET r == [q EXCEPT !.pc = "write", !.before = s]
         IN  IsHelper(r) /\ RequestInv(r)
<1> DEFINE r == [q EXCEPT !.pc = "write", !.before = s]
<1>1. r = [pc |-> "write", op |-> q.op, id |-> q.id, before |-> s,
           answer |-> q.answer]
  BY HelperRecordRead
<1> HIDE DEF r
<1>2. IsHelper(r) /\ RequestInv(r)
  BY <1>1 DEF IsHelper, RequestInv, HelperPlaces, IsOptionalState
<1> QED
  BY <1>2 DEF r

\* The same for the whole family of helpers.
LEMMA ReadStep ==
  ASSUME HelpersOK, HelperInv, NEW h \in Helper, helper[h].pc = "run",
         NEW s, IsState(s), helper[h].op = "default" => HasBootOrder(s),
         helper' = [helper EXCEPT ![h] =
                      [@ EXCEPT !.pc = "write", !.before = s]]
  PROVE  HelpersOK' /\ HelperInv'
<1> DEFINE r == [helper[h] EXCEPT !.pc = "write", !.before = s]
<1>1. IsHelper(helper[h]) /\ RequestInv(helper[h])
  BY DEF HelpersOK, HelperInv
<1>2. IsHelper(r) /\ RequestInv(r)
  BY <1>1, ReadRecord
<1>3. helper' = [helper EXCEPT ![h] = r]
  BY DEF HelpersOK
<1> HIDE DEF r
<1> QED
  BY <1>2, <1>3, OneHelper

\* A process that ends leaves a well-formed answer, or nothing.
LEMMA AnswerStep ==
  ASSUME HelpersOK, HelperInv, NEW h \in Helper, NEW a \in Answers, Answer(h, a)
  PROVE  HelpersOK' /\ HelperInv'
<1> DEFINE r == [helper[h] EXCEPT !.pc = "answered", !.answer = a]
<1>1. IsHelper(helper[h])
  BY DEF HelpersOK
<1>2. r = [pc |-> "answered", op |-> helper[h].op, id |-> helper[h].id,
           before |-> helper[h].before, answer |-> a]
  BY <1>1, HelperRecordAnswered
<1>3. \/ helper' = [helper EXCEPT ![h] = r]
      \/ helper' = [helper EXCEPT ![h] = FreeHelper]
  BY DEF Answer, HelpersOK
<1> HIDE DEF r
<1>4. IsHelper(r) /\ RequestInv(r)
  BY <1>1, <1>2 DEF IsHelper, RequestInv, HelperPlaces
<1> QED
  BY <1>3, <1>4, FreeHelperIsHelper, OneHelper

\* error_response maps every error of the helper to an answer.
LEMMA ErrorResponseType ==
  ASSUME NEW e \in {"NotUefi", "EntryNotFound", "WriteRefused", "Guard",
                    "FirmwareUnavailable", "NotSelectable", "Io"}
  PROVE  ErrorResponse(e) \in Answers
BY DEF ErrorResponse, Answers

\* Every step leaves the helpers typed, their requests well-formed.
LEMMA HelpersType ==
  ASSUME IInv, [Next]_vars
  PROVE  HelpersOK' /\ HelperInv'
<1>1. HelpersOK /\ HelperInv
  BY DEF IInv, TypeOK
<1>2. CASE UNCHANGED helper
  BY <1>1, <1>2 DEF HelpersOK, HelperInv
<1>3. ASSUME NEW h \in Helper, CallHelper(h)
      PROVE  HelpersOK' /\ HelperInv'
  <2> DEFINE r == [pc |-> "auth", op |-> op, id |-> target, before |-> None,
                   answer |-> None]
  <2>1. op \in {"boot", "default"} /\ target \in BootId
    BY <1>3 DEF CallHelper, IInv, TypeOK, InterfaceOK, CommandInv, Resolved
  <2>2. IsHelper(r) /\ RequestInv(r)
    BY <2>1 DEF IsHelper, RequestInv, HelperPlaces, IsOptionalState
  <2>3. helper' = [helper EXCEPT ![h] = r]
    BY <1>3 DEF CallHelper
  <2> QED
    BY <1>1, <2>2, <2>3, OneHelper
<1>4. ASSUME NEW h \in Helper, Authenticate(h)
      PROVE  HelpersOK' /\ HelperInv'
  BY <1>1, <1>4, MoveStep DEF Authenticate
<1>5. ASSUME NEW h \in Helper, Deny(h) \/ HelperDies(h) \/ HelperWriteRefused(h)
      PROVE  HelpersOK' /\ HelperInv'
  <2>1. PICK a \in Answers : Answer(h, a)
    BY <1>5, ErrorResponseType DEF Deny, HelperDies, HelperWriteRefused, Answers
  <2> QED
    BY <1>1, <2>1, AnswerStep
<1>6. ASSUME NEW h \in Helper, HelperReads(h)
      PROVE  HelpersOK' /\ HelperInv'
  <2>1. PICK s \in Snapshots(h) :
          /\ HelperRefusals(helper[h], s) = {}
          /\ helper' = [helper EXCEPT ![h] =
                          [@ EXCEPT !.pc = "write", !.before = s]]
    BY <1>6 DEF HelperReads
  <2>2. IsState(s)
    BY ReadsAreStates DEF IInv, TypeOK, Reader
  <2>3. helper[h].op = "default" => HasBootOrder(s)
    BY <2>1 DEF HelperRefusals
  <2> QED
    BY <1>1, <1>6, <2>1, <2>2, <2>3, ReadStep DEF HelperReads
<1>7. ASSUME NEW h \in Helper, HelperRefuses(h)
      PROVE  HelpersOK' /\ HelperInv'
  <2>1. PICK e \in HelperReadErrors
                     \cup UNION {HelperRefusals(helper[h], s) : s \in Snapshots(h)} :
          Answer(h, ErrorResponse(e))
    BY <1>7 DEF HelperRefuses
  <2>2. e \in {"NotUefi", "EntryNotFound", "FirmwareUnavailable",
               "NotSelectable", "Io"}
    BY DEF HelperReadErrors, HelperRefusals
  <2> QED
    BY <1>1, <2>1, <2>2, ErrorResponseType, AnswerStep
<1>8. ASSUME NEW h \in Helper, HelperWrites(h)
      PROVE  HelpersOK' /\ HelperInv'
  BY <1>1, <1>8, MoveStep DEF HelperWrites
<1>9. ASSUME NEW h \in Helper, HelperVerifies(h)
      PROVE  HelpersOK' /\ HelperInv'
  <2>1. \A e \in HelperReadErrors \cup {"Guard"} : ErrorResponse(e) \in Answers
    BY ErrorResponseType DEF HelperReadErrors
  <2>2. "Written" \in Answers /\ "DefaultApplied" \in Answers
    BY DEF Answers
  <2>3. PICK a \in Answers : Answer(h, a)
    BY <1>9, <2>1, <2>2 DEF HelperVerifies
  <2> QED
    BY <1>1, <2>3, AnswerStep
<1>10. CASE TakeAnswer \/ Timeout \/ InterfaceRestarts \/ MachineRestarts
  <2>1. \A h \in Helper : helper'[h] = FreeHelper \/ helper'[h] = helper[h]
    BY <1>1, <1>10 DEF TakeAnswer, Timeout, KillChild, InterfaceRestarts,
                       MachineRestarts, HelpersOK
  <2>2. helper' = [h \in Helper |-> helper'[h]]
    BY <1>1, <1>10 DEF TakeAnswer, Timeout, KillChild, InterfaceRestarts,
                       MachineRestarts, HelpersOK
  <2> QED
    BY <1>1, <2>1, <2>2, FreeHelperIsHelper DEF HelpersOK, HelperInv
<1> QED
  BY <1>2, <1>3, <1>4, <1>5, <1>6, <1>7, <1>8, <1>9, <1>10, HelperSteps
     DEF HelperStep

-----------------------------------------------------------------------------
(* The interface                                                           *)

\* What the user is told is a reply.
LEMMA RepliesAreReplies ==
  /\ \A kind \in {"none", "error", "rebootFailed", "defaultApplied"} :
       Told(kind) \in Reply
  /\ \A e \in Errors : ToldError(e) \in Reply
<1>1. \A e : GuaranteesNoWrite(e) \in BOOLEAN
  BY DEF GuaranteesNoWrite
<1> QED
  BY <1>1 DEF Told, ToldError, Reply

\* A command that ends leaves typed variables, and holds no snapshot.
LEMMA FinishType ==
  ASSUME NEW told \in Reply, Finish(told)
  PROVE  /\ pc' = "idle" /\ op' = "boot" /\ wanted' = None /\ target' = None
         /\ inventory' = {} /\ before' = None /\ after' = None
         /\ reply' \in Reply /\ callee' = None /\ settled' = FALSE
BY DEF Finish, Forget

\* A command that ends leaves the interface typed, with nothing resolved.
LEMMA FinishInterface ==
  ASSUME NEW told \in Reply, Finish(told), readOnly' \in BOOLEAN,
         plan' \in Plan \cup {None}, armed' \in BOOLEAN
  PROVE  InterfaceOK' /\ CommandInv' /\ settled' \in BOOLEAN
BY FinishType DEF InterfaceOK, CommandInv, IsOptionalState, Underway

\* Every failure of the helper is translated into an error of the interface.
LEMMA TranslateType ==
  ASSUME NEW a \in Answers \ {"Written", "DefaultApplied"}
  PROVE  Translate(a) \in Errors
BY DEF Translate, Answers, Errors

\* A command that has validated its target.
LEMMA ProceedStep ==
  ASSUME IInv, pc \in {"confirm", "default"},
         NEW o \in {"boot", "default"}, NEW sid \in StableIds,
         NEW s \in Snapshots(Ui), NEW devices \in Inventories, NEW i,
         Found(s, sid, i), Selectable(s[i], devices),
         Proceed(o, sid, i, s, devices), plan' \in Plan \cup {None}
  PROVE  InterfaceOK' /\ CommandInv' /\ touched' = FALSE /\ settled' = FALSE
<1>1. IsState(s)
  BY ReadsAreStates DEF IInv, TypeOK, Reader
<1>2. i \in BootId /\ s[i] \in LoadOption /\ StableId(s[i]) = sid
  BY FoundIsEntry
<1>3. devices \subseteq Partition
  BY DEF Inventories, IInv, TypeOK, MachineOK
<1>4. callee = None
  BY DEF IInv, CommandInv
<1>5. Told("none") \in Reply
  BY RepliesAreReplies
<1>6. InterfaceOK'
  BY <1>1, <1>2, <1>3, <1>5
     DEF Proceed, IInv, TypeOK, InterfaceOK, IsOptionalState, Underway
<1>7. CommandInv'
  BY <1>1, <1>2, <1>4 DEF Proceed, CommandInv, Resolved, Underway
<1> QED
  BY <1>6, <1>7 DEF Proceed

\* The steps of the user keep the interface's invariant.
LEMMA UserType ==
  ASSUME IInv, User
  PROVE  InterfaceOK' /\ CommandInv' /\ touched' \in BOOLEAN
           /\ settled' \in BOOLEAN
<1>1. InterfaceOK /\ CommandInv /\ touched \in BOOLEAN /\ settled \in BOOLEAN
  BY DEF IInv, TypeOK
<1>2. ASSUME NEW c \in {"prepare", "confirm", "default"}, Begin(c),
             c = "confirm" => plan # None
      PROVE  InterfaceOK' /\ CommandInv' /\ UNCHANGED historyVars
  BY <1>1, <1>2
     DEF Begin, commandVars, InterfaceOK, CommandInv, Resolved, Underway
<1>3. CASE CancelSelection
  BY <1>1, <1>3
     DEF CancelSelection, commandVars, historyVars, InterfaceOK, CommandInv,
         Resolved, Underway
<1> QED
  BY <1>1, <1>2, <1>3
     DEF User, PrepareBegins, ConfirmBegins, DefaultBegins, historyVars

\* The end of the first read of a command, refusals included.
LEMMA ReadEndsType ==
  ASSUME IInv,
         \/ \E sid \in StableIds : \/ PrepareSelection(sid) \/ PrepareFails(sid)
                                   \/ SetDefaultRefused(sid)
                                   \/ SetDefaultResolved(sid)
         \/ ConfirmRefused
         \/ ConfirmResolved
  PROVE  InterfaceOK' /\ CommandInv' /\ touched' \in BOOLEAN
           /\ settled' \in BOOLEAN
<1>1. InterfaceOK /\ CommandInv /\ touched \in BOOLEAN /\ settled \in BOOLEAN
  BY DEF IInv, TypeOK
<1>2. ASSUME NEW sid \in StableIds, PrepareSelection(sid) \/ PrepareFails(sid)
      PROVE  InterfaceOK' /\ CommandInv' /\ UNCHANGED historyVars
  <2>1. plan' \in Plan \cup {None}
    BY <1>1, <1>2 DEF PrepareSelection, PrepareFails, Plan, InterfaceOK
  <2> QED
    BY <1>1, <1>2, <2>1
       DEF PrepareSelection, PrepareFails, commandVars, InterfaceOK, CommandInv,
           Resolved, Underway
<1>4. CASE ConfirmRefused
  <2>1. PICK e \in Errors : Finish(ToldError(e))
    BY <1>4 DEF ConfirmRefused
  <2>2. ToldError(e) \in Reply
    BY RepliesAreReplies
  <2> QED
    BY <1>1, <1>4, <2>1, <2>2, FinishInterface DEF ConfirmRefused, InterfaceOK
<1>5. CASE ConfirmResolved
  <2>1. PICK s \in Snapshots(Ui), devices \in Inventories, i \in BootId :
          /\ Resolve(s, plan, i)
          /\ StillSelectable(s[i], devices)
          /\ Proceed("boot", plan.sid, i, s, devices)
    BY <1>5 DEF ConfirmResolved
  <2>2. plan.sid \in StableIds
    BY <1>1, <1>5 DEF ConfirmResolved, InterfaceOK, CommandInv, Plan
  <2> QED
    BY <1>5, <2>1, <2>2, ProceedStep
       DEF ConfirmResolved, Resolve, StillSelectable
<1>6. ASSUME NEW sid \in StableIds, SetDefaultRefused(sid)
      PROVE  InterfaceOK' /\ CommandInv' /\ touched' = FALSE
               /\ settled' \in BOOLEAN
  <2>1. PICK told \in Reply : Finish(told)
    <3>1. Told("error") \in Reply /\ ToldError("ReadOnlyMode") \in Reply
      BY RepliesAreReplies DEF Errors
    <3> QED
      BY <1>6, <3>1 DEF SetDefaultRefused
  <2> QED
    BY <1>1, <1>6, <2>1, FinishInterface DEF SetDefaultRefused, InterfaceOK
<1>7. ASSUME NEW sid \in StableIds, SetDefaultResolved(sid)
      PROVE  InterfaceOK' /\ CommandInv' /\ touched' = FALSE /\ settled' = FALSE
  <2>1. PICK s \in Snapshots(Ui), devices \in Inventories, i \in BootId :
          /\ Resolvable(sid, s, devices, i)
          /\ Proceed("default", sid, i, s, devices)
    BY <1>7 DEF SetDefaultResolved
  <2> QED
    BY <1>1, <1>7, <2>1, ProceedStep
       DEF SetDefaultResolved, Resolvable, InterfaceOK
<1> QED
  BY <1>1, <1>2, <1>4, <1>5, <1>6, <1>7 DEF historyVars

\* The steps of the command that waits, verifies or reboots.
LEMMA InterfaceStepType ==
  ASSUME IInv, Interface
  PROVE  InterfaceOK' /\ CommandInv' /\ touched' \in BOOLEAN
           /\ settled' \in BOOLEAN
<1>1. InterfaceOK /\ CommandInv /\ touched \in BOOLEAN /\ settled \in BOOLEAN
  BY DEF IInv, TypeOK
<1>2. ASSUME NEW told \in Reply, Finish(told),
             UNCHANGED <<readOnly, plan, armed, touched>>
      PROVE  InterfaceOK' /\ CommandInv' /\ touched' \in BOOLEAN
               /\ settled' \in BOOLEAN
  BY <1>1, <1>2, FinishInterface DEF InterfaceOK
<1>3. \A e \in {"Io", "Guard"} \cup ReadErrors : ToldError(e) \in Reply
  BY RepliesAreReplies, ReadErrorsAssumption DEF Errors
<1>4. ASSUME NEW h \in Helper, CallHelper(h)
      PROVE  InterfaceOK' /\ CommandInv' /\ UNCHANGED historyVars
  BY <1>1, <1>4
     DEF CallHelper, commandVars, InterfaceOK, CommandInv, Resolved, Underway
<1>5. CASE CallFails
  BY <1>2, <1>3, <1>5 DEF CallFails
<1>6. CASE TakeAnswer
  <2>1. pc = "wait" /\ callee \in Helper /\ RequestInv(helper[callee])
          /\ helper[callee].pc = "answered"
    BY <1>6 DEF TakeAnswer, IInv, CommandInv, HelperInv
  <2>2. CASE /\ helper[callee].answer = "Written"
             /\ pc' = "verify" /\ callee' = None
             /\ UNCHANGED <<reply, commandVars, settled>>
    BY <1>1, <1>6, <2>1, <2>2
       DEF TakeAnswer, commandVars, InterfaceOK, CommandInv, Resolved, Underway
  <2>3. CASE Finish(Told("defaultApplied"))
    BY <1>2, <1>6, <2>3, RepliesAreReplies DEF TakeAnswer
  <2>4. CASE /\ helper[callee].answer \notin {"Written", "DefaultApplied"}
             /\ Finish(ToldError(Translate(helper[callee].answer)))
    <3>1. helper[callee].answer \in Answers
      BY <2>1 DEF RequestInv
    <3>2. ToldError(Translate(helper[callee].answer)) \in Reply
      BY <2>4, <3>1, TranslateType, RepliesAreReplies
    <3> QED
      BY <1>2, <1>6, <2>4, <3>2 DEF TakeAnswer
  <2> QED
    BY <1>6, <2>2, <2>3, <2>4 DEF TakeAnswer
<1>7. CASE Timeout
  BY <1>2, <1>3, <1>7 DEF Timeout
<1>8. CASE VerifyFails
  BY <1>2, <1>3, <1>8 DEF VerifyFails
<1>9. CASE VerifySucceeds
  <2>1. PICK s \in Snapshots(Ui) : GuardAccepts(s) /\ after' = s
    BY <1>9 DEF VerifySucceeds
  <2>2. IsState(s)
    BY ReadsAreStates DEF IInv, TypeOK, Reader
  <2> QED
    BY <1>1, <1>9, <2>1, <2>2
       DEF VerifySucceeds, GuardAccepts, InterfaceOK, CommandInv, Resolved,
           IsOptionalState, Underway
<1>10. CASE RebootTakesEffect
  BY <1>1, <1>10 DEF RebootTakesEffect, uiVars, commandVars, InterfaceOK,
                     CommandInv, Resolved, Underway, historyVars
<1>11. CASE RebootFails
  BY <1>1, <1>11, RepliesAreReplies
     DEF RebootFails, InterfaceOK, CommandInv, Resolved, IsOptionalState,
         Underway, historyVars
<1> QED
  BY <1>1, <1>4, <1>5, <1>6, <1>7, <1>8, <1>9, <1>10, <1>11, ReadEndsType
     DEF Interface, Command, historyVars

\* Every step keeps the interface typed and its command's target resolved.
LEMMA InterfaceType ==
  ASSUME IInv, [Next]_vars
  PROVE  InterfaceOK' /\ CommandInv' /\ touched' \in BOOLEAN
           /\ settled' \in BOOLEAN
<1>1. InterfaceOK /\ CommandInv /\ touched \in BOOLEAN /\ settled \in BOOLEAN
  BY DEF IInv, TypeOK
<1>2. ASSUME UNCHANGED uiVars, touched' \in BOOLEAN, settled' \in BOOLEAN
      PROVE  InterfaceOK' /\ CommandInv' /\ touched' \in BOOLEAN
               /\ settled' \in BOOLEAN
  BY <1>1, <1>2
     DEF uiVars, commandVars, InterfaceOK, CommandInv, Resolved, Underway
<1>3. CASE \E h \in Helper : HelperStep(h)
  <2>1. UNCHANGED uiVars
    BY <1>3 DEF HelperStep, HelperReads, HelperRefuses, HelperWrites,
                HelperWriteRefused, HelperVerifies
  <2>2. touched' \in BOOLEAN /\ settled' \in BOOLEAN
    BY <1>1, <1>3 DEF HelperStep, HelperReads, HelperRefuses, HelperWrites,
                      HelperWriteRefused, HelperVerifies, historyVars
  <2> QED
    BY <1>2, <2>1, <2>2
<1>4. ASSUME NEW h \in Helper, Authenticate(h) \/ Deny(h) \/ HelperDies(h)
      PROVE  UNCHANGED <<uiVars, historyVars>>
  BY <1>4 DEF Authenticate, Deny, HelperDies
<1>5. CASE Edit
  BY <1>1, <1>2, <1>5 DEF Edit
<1>6. ASSUME NEW p \in Removable, PlugOrUnplug(p)
      PROVE  UNCHANGED <<uiVars, historyVars>>
  BY <1>6 DEF PlugOrUnplug
<1>7. CASE InterfaceRestarts \/ MachineRestarts
  <2>1. Finish(Told("none")) /\ plan' = None /\ armed' = FALSE
          /\ touched' = FALSE /\ readOnly' = readOnly
    BY <1>7 DEF InterfaceRestarts, MachineRestarts, FreshInterface
  <2> QED
    BY <1>1, <2>1, RepliesAreReplies, FinishInterface DEF InterfaceOK
<1>8. CASE UNCHANGED vars
  BY <1>1, <1>2, <1>8 DEF vars, uiVars, historyVars
<1> QED
  BY <1>1, <1>2, <1>3, <1>4, <1>5, <1>6, <1>7, <1>8, UserType,
     InterfaceStepType DEF Next, Environment, historyVars

-----------------------------------------------------------------------------
(* The inductive invariant and what follows from it                        *)

\* The inductive invariant holds initially.
LEMMA InitInv == Init => IInv
<1> SUFFICES ASSUME Init PROVE IInv
  OBVIOUS
<1>1. MachineOK
  BY InitialStatesAssumption, EditsAssumption DEF Init, MachineOK
<1>2. InterfaceOK /\ CommandInv
  BY RepliesAreReplies
     DEF Init, InterfaceOK, CommandInv, IsOptionalState, Underway
<1>3. HelpersOK /\ HelperInv
  BY FreeHelperIsHelper DEF Init, HelpersOK, HelperInv
<1>4. SeenOK /\ WatchInv
  BY DEF Init, SeenOK, WatchInv
<1> QED
  BY <1>1, <1>2, <1>3, <1>4 DEF Init, IInv, TypeOK

\* Every step preserves the inductive invariant.
LEMMA StepInv == IInv /\ [Next]_vars => IInv'
<1> SUFFICES ASSUME IInv, [Next]_vars PROVE IInv'
  OBVIOUS
<1> QED
  BY MachineType, HelpersType, InterfaceType, SeenType DEF IInv, TypeOK

\* commands.rs, select.rs, service.rs: the inductive invariant, which ties the
\* place of the command and of every helper to the snapshots they hold.
THEOREM Invariance == Spec => []IInv
BY InitInv, StepInv, PTL DEF Spec

\* Every variable keeps its type, for every instance.
THEOREM TypeCorrect == Spec => []TypeOK
<1>1. IInv => TypeOK
  BY DEF IInv
<1> QED
  BY <1>1, Invariance, PTL

\* What the guard's acceptance says of the entry the command is about.
LEMMA AcceptedSnapshot ==
  ASSUME Resolved, NEW s, IsState(s),
         VerifyOnlyBootNextChanged(before, s, target) = "Ok"
  PROVE  /\ \A v \in Var \ {BootNext} : s[v] = before[v]
         /\ s[BootNext] = target
         /\ s[target] = before[target]
<1>1. s = [before EXCEPT ![BootNext] = target]
  BY BootNextVerdict DEF Resolved
<1>2. before = [v \in Var |-> before[v]]
  BY DEF Resolved, IsState
<1>3. target \in Var /\ target # BootNext
  BY NamesInVar DEF Resolved
<1> QED
  BY <1>1, <1>2, <1>3, NamesInVar

\* select.rs commit_selection: a reboot is attempted only for a selection that
\* the interface's own snapshots confirm.
THEOREM RebootVerified == Spec => []RebootOnlyVerified
<1>1. IInv => RebootOnlyVerified
  <2> SUFFICES ASSUME IInv, pc = "reboot"
               PROVE  /\ armed
                      /\ \A v \in Var \ {BootNext} : after[v] = before[v]
                      /\ after[BootNext] = target
                      /\ after[target] \in LoadOption
                      /\ StableId(after[target]) = wanted
                      /\ Selectable(after[target], inventory)
    BY DEF RebootOnlyVerified
  <2>1. armed /\ Resolved /\ IsState(after)
          /\ VerifyOnlyBootNextChanged(before, after, target) = "Ok"
    BY DEF IInv, CommandInv, Underway
  <2>2. after[target] = before[target]
    BY <2>1, AcceptedSnapshot
  <2> QED
    BY <2>1, <2>2, AcceptedSnapshot DEF Resolved
<1> QED
  BY <1>1, Invariance, PTL

-----------------------------------------------------------------------------
(* The confirmed system is the next one, while nobody interferes           *)

\* The steps that start a period in which nobody changed the firmware, or that
\* leave such a period and all it speaks about as they are.
LEMMA SettledSteps ==
  ASSUME [Next]_vars, settled'
  PROVE  VerifySucceeds \/ UNCHANGED <<nvram, target, wanted, settled>>
<1>1. CASE User
  BY <1>1 DEF User, PrepareBegins, CancelSelection, ConfirmBegins,
              DefaultBegins, Begin, machineVars, commandVars, historyVars
<1>2. CASE Interface
  BY <1>2 DEF Interface, Command, PrepareSelection, PrepareFails,
              SetDefaultRefused, SetDefaultResolved, ConfirmRefused,
              ConfirmResolved, Proceed, CallHelper, CallFails, TakeAnswer,
              Timeout, VerifyFails, RebootTakesEffect, RebootFails, machineVars,
              uiVars, commandVars, historyVars, Finish, Forget
<1>3. CASE \E h \in Helper : HelperStep(h)
  BY <1>3 DEF HelperStep, HelperReads, HelperRefuses, HelperWrites,
              HelperWriteRefused, HelperVerifies, machineVars, uiVars,
              commandVars, historyVars
<1>4. CASE Environment
  BY <1>4 DEF Environment, Authenticate, Deny, HelperDies, Edit, PlugOrUnplug,
              InterfaceRestarts, MachineRestarts, FreshInterface, machineVars,
              uiVars, commandVars, historyVars, Finish, Forget
<1>5. CASE UNCHANGED vars
  BY <1>5 DEF vars, machineVars, uiVars, commandVars, historyVars
<1> QED
  BY <1>1, <1>2, <1>3, <1>4, <1>5 DEF Next

\* commands.rs confirm_and_reboot: if nobody changed the firmware since the
\* interface began to read it back, then from the moment the guard accepts and
\* until somebody changes it, BootNext designates the system the user confirmed,
\* in the firmware and not only in a snapshot.
THEOREM Lands == Spec => []LandsOnConfirmed
<1>1. Init => LandsOnConfirmed
  BY DEF Init, LandsOnConfirmed
<1>2. IInv /\ LandsOnConfirmed /\ [Next]_vars => LandsOnConfirmed'
  <2> SUFFICES ASSUME IInv, LandsOnConfirmed, [Next]_vars, settled'
               PROVE  /\ nvram'[BootNext] = target'
                      /\ nvram'[target'] \in LoadOption
                      /\ StableId(nvram'[target']) = wanted'
    BY DEF LandsOnConfirmed
  <2>1. CASE UNCHANGED <<nvram, target, wanted, settled>>
    BY <2>1 DEF LandsOnConfirmed
  <2>2. CASE VerifySucceeds
    <3>0. Ui \in Reader /\ seen[Ui] = {nvram}
      BY <2>2 DEF VerifySucceeds, Reader
    <3>1. PICK s \in Snapshots(Ui) :
            VerifyOnlyBootNextChanged(before, s, target) = "Ok"
      BY <2>2 DEF VerifySucceeds, GuardAccepts
    <3>2. Resolved
      BY <2>2 DEF VerifySucceeds, IInv, CommandInv, Underway
    <3>3. IsState(s)
      BY <3>0, ReadsAreStates DEF IInv, TypeOK
    <3>4. s[BootNext] = target /\ s[target] = before[target]
      BY <3>1, <3>2, <3>3, AcceptedSnapshot
    <3>5. target # Absent /\ s[target] # Absent
      BY <3>2, <3>4, AbsentAssumption DEF Resolved
    <3>6. nvram[BootNext] = target /\ nvram[target] = before[target]
      <4>1. target \in Var
        BY <3>2, NamesInVar DEF Resolved
      <4>2. nvram[BootNext] = s[BootNext]
        BY <3>0, <3>4, <3>5, NamesInVar, ReadShows
      <4>3. nvram[target] = s[target]
        BY <3>0, <3>5, <4>1, ReadShows
      <4> QED
        BY <3>4, <4>2, <4>3
    <3> QED
      BY <2>2, <3>2, <3>6 DEF VerifySucceeds, machineVars, Resolved
  <2> QED
    BY <2>1, <2>2, SettledSteps
<1> QED
  BY <1>1, <1>2, Invariance, PTL DEF Spec

-----------------------------------------------------------------------------
(* What is written, and when nothing is                                    *)

\* select.rs and commands.rs: the helper of the current command changes the
\* firmware only for an entry that was found by the user's choice.
THEOREM OnlyAskedWrites == Spec => WritesOnlyWhatWasAsked
<1>1. IInv /\ [Next]_vars =>
        [~touched /\ touched' =>
           /\ before[target] \in LoadOption
           /\ StableId(before[target]) = wanted
           /\ Selectable(before[target], inventory)]_vars
  <2> SUFFICES ASSUME IInv, [Next]_vars, ~touched, touched'
               PROVE  /\ before[target] \in LoadOption
                      /\ StableId(before[target]) = wanted
                      /\ Selectable(before[target], inventory)
    OBVIOUS
  <2>1. \E h \in Helper : HelperWrites(h)
    <3>1. CASE User
      BY <3>1 DEF User, PrepareBegins, CancelSelection, ConfirmBegins,
                  DefaultBegins, Begin, historyVars
    <3>2. CASE Interface
      BY <3>2 DEF Interface, Command, PrepareSelection, PrepareFails,
                  SetDefaultRefused, SetDefaultResolved, ConfirmRefused,
                  ConfirmResolved, Proceed, CallHelper, CallFails, TakeAnswer,
                  Timeout, VerifyFails, VerifySucceeds, RebootTakesEffect,
                  RebootFails, historyVars
    <3>3. CASE \E h \in Helper : HelperStep(h)
      BY <3>3 DEF HelperStep, HelperReads, HelperRefuses, HelperWriteRefused,
                  HelperVerifies, historyVars
    <3>4. CASE Environment
      BY <3>4 DEF Environment, Authenticate, Deny, HelperDies, Edit,
                  PlugOrUnplug, InterfaceRestarts, MachineRestarts,
                  FreshInterface, historyVars
    <3>5. CASE UNCHANGED vars
      BY <3>5 DEF vars, historyVars
    <3> QED
      BY <3>1, <3>2, <3>3, <3>4, <3>5 DEF Next
  <2>2. PICK h \in Helper : HelperWrites(h) /\ callee = h
    BY <2>1 DEF HelperWrites
  <2>3. callee # None
    BY <2>2, NoneAssumption
  <2>4. Resolved
    BY <2>3 DEF IInv, CommandInv, Underway
  <2> QED
    BY <2>4 DEF Resolved
<1> QED
  BY <1>1, Invariance, PTL DEF Spec, WritesOnlyWhatWasAsked

\* With --dry-run no command reaches the call of the helper.
DryRunInv ==
  readOnly => pc \notin Underway /\ \A h \in Helper : helper[h] = FreeHelper

\* linux/mod.rs read_only: with --dry-run no privileged process ever exists.
THEOREM DryRun == Spec => []DryRunStartsNoHelper
<1>1. Init => DryRunInv
  BY DEF Init, DryRunInv, Underway
<1>2. TypeOK /\ DryRunInv /\ [Next]_vars => DryRunInv'
  <2> SUFFICES ASSUME HelpersOK, DryRunInv, [Next]_vars, readOnly'
               PROVE  pc' \notin Underway /\ \A h \in Helper : helper'[h] = FreeHelper
    BY DEF DryRunInv, TypeOK
  <2>1. readOnly
    <3>1. CASE User
      BY <3>1 DEF User, PrepareBegins, CancelSelection, ConfirmBegins,
                  DefaultBegins, Begin
    <3>2. CASE Interface
      BY <3>2 DEF Interface, Command, PrepareSelection, PrepareFails,
                  SetDefaultRefused, SetDefaultResolved, ConfirmRefused,
                  ConfirmResolved, Proceed, CallHelper, CallFails, TakeAnswer,
                  Timeout, VerifyFails, VerifySucceeds, RebootTakesEffect,
                  RebootFails, uiVars
    <3>3. CASE \E h \in Helper : HelperStep(h)
      BY <3>3 DEF HelperStep, HelperReads, HelperRefuses, HelperWrites,
                  HelperWriteRefused, HelperVerifies, uiVars
    <3>4. CASE Environment
      BY <3>4 DEF Environment, Authenticate, Deny, HelperDies, Edit,
                  PlugOrUnplug, InterfaceRestarts, MachineRestarts, uiVars
    <3>5. CASE UNCHANGED vars
      BY <3>5 DEF vars, uiVars
    <3> QED
      BY <3>1, <3>2, <3>3, <3>4, <3>5 DEF Next
  <2>2. pc \notin Underway /\ \A h \in Helper : helper[h].pc = "free"
          /\ helper[h] = FreeHelper
    BY <2>1 DEF DryRunInv, FreeHelper
  <2>3. CASE User
    BY <2>2, <2>3 DEF User, PrepareBegins, CancelSelection, ConfirmBegins,
                      DefaultBegins, Begin, Underway
  <2>4. CASE Interface
    BY <2>1, <2>2, <2>4
       DEF Interface, Command, PrepareSelection, PrepareFails,
           SetDefaultRefused, SetDefaultResolved, ConfirmRefused,
           ConfirmResolved, BackendMayWrite, CallHelper, CallFails, TakeAnswer,
           Timeout, VerifyFails, VerifySucceeds, RebootTakesEffect, RebootFails,
           Finish, Underway
  <2>5. CASE \E h \in Helper : HelperStep(h)
    BY <2>2, <2>5 DEF HelperStep, HelperReads, HelperRefuses, HelperWrites,
                      HelperWriteRefused, HelperVerifies
  <2>6. CASE Environment
    BY <2>2, <2>6 DEF Environment, Authenticate, Deny, HelperDies, Edit,
                      PlugOrUnplug, InterfaceRestarts, MachineRestarts,
                      FreshInterface, Finish, uiVars, Underway
  <2>7. CASE UNCHANGED vars
    BY <2>2, <2>7 DEF vars, uiVars
  <2> QED
    BY <2>3, <2>4, <2>5, <2>6, <2>7 DEF Next
<1>3. DryRunInv => DryRunStartsNoHelper
  BY DEF DryRunInv, DryRunStartsNoHelper, FreeHelper
<1> QED
  BY <1>1, <1>2, <1>3, TypeCorrect, PTL DEF Spec

-----------------------------------------------------------------------------
(* The promise that nothing was written                                    *)

\* A snapshot is not the null value.
LEMMA StatesAreNotNone == ASSUME NEW s, IsState(s) PROVE s # None
<1>1. \A v \in Var : s[v] \in OrderValue \cup NextValue \cup EntryValue
  BY DEF IsState, Var
<1>2. s = [v \in Var |-> s[v]]
  BY DEF IsState
<1>3. s \in [Var -> OrderValue \cup NextValue \cup EntryValue]
  BY <1>1, <1>2
<1> QED
  BY <1>3, NoneAssumption

\* Where the command's helper can be once it changed the firmware: NotUefi is
\* then an answer only of one that could not read the firmware back.
PastWriting(r) ==
  \/ r.pc = "verify"
  \/ /\ r.pc = "answered"
     /\ r.answer \notin {"Denied", "EntryNotFound"}
     /\ r.answer = "NotUefi" => r.before # None

PromiseInv ==
  /\ pc \in Underway => ~reply.noWrite
  /\ pc = "call" => ~touched
  /\ pc = "wait" /\ touched => PastWriting(helper[callee])

\* A step makes the promise false only after a write that succeeded, at a read
\* of the firmware.
PromiseStep ==
  reply'.noWrite /\ touched' =>
    \/ reply.noWrite /\ touched
    \/ pc = "verify"
    \/ /\ pc = "wait"
       /\ helper[callee].answer = "NotUefi"
       /\ helper[callee].before # None

\* The replies that never promise that nothing was written.
LEMMA NoPromise ==
  /\ \A kind : ~Told(kind).noWrite
  /\ \A e \in {"Io", "Guard", "WriteRefused"} : ~ToldError(e).noWrite
BY DEF Told, ToldError, GuaranteesNoWrite

\* A command that ends without a promise, or without having written.
LEMMA FinishPromise ==
  ASSUME NEW told, Finish(told)
  PROVE  PromiseInv' /\ (~told.noWrite \/ ~touched' => PromiseStep)
BY DEF Finish, PromiseInv, PromiseStep, Underway

\* A step that leaves the reply and the history alone makes no promise.
LEMMA SilentPromise ==
  ASSUME UNCHANGED <<reply, touched>>
  PROVE  PromiseStep
BY DEF PromiseStep

\* The steps of the user and of the command keep the promise, except a read
\* that fails after the write.
LEMMA PromiseInterface ==
  ASSUME IInv, PromiseInv, User \/ Interface
  PROVE  PromiseInv' /\ PromiseStep
<1>1. CASE User
  BY <1>1, SilentPromise
     DEF User, PrepareBegins, CancelSelection, ConfirmBegins, DefaultBegins,
         Begin, historyVars, PromiseInv, Underway
<1>2. ASSUME NEW sid \in StableIds, PrepareSelection(sid) \/ PrepareFails(sid)
      PROVE  PromiseInv' /\ PromiseStep
  BY <1>2, SilentPromise
     DEF PrepareSelection, PrepareFails, historyVars, PromiseInv, Underway
<1>3. CASE ConfirmRefused
  BY <1>3, FinishPromise DEF ConfirmRefused
<1>4. ASSUME NEW sid \in StableIds, SetDefaultRefused(sid)
      PROVE  PromiseInv' /\ PromiseStep
  BY <1>4, FinishPromise DEF SetDefaultRefused
<1>5. ASSUME NEW o, NEW sid, NEW i, NEW s, NEW devices,
             Proceed(o, sid, i, s, devices)
      PROVE  PromiseInv' /\ PromiseStep
  BY <1>5, NoPromise DEF Proceed, PromiseInv, PromiseStep, Underway
<1>6. CASE ConfirmResolved
  BY <1>5, <1>6 DEF ConfirmResolved
<1>7. ASSUME NEW sid \in StableIds, SetDefaultResolved(sid)
      PROVE  PromiseInv' /\ PromiseStep
  BY <1>5, <1>7 DEF SetDefaultResolved
<1>8. ASSUME NEW h \in Helper, CallHelper(h)
      PROVE  PromiseInv' /\ PromiseStep
  BY <1>8, SilentPromise DEF CallHelper, historyVars, PromiseInv, Underway
<1>9. CASE CallFails \/ Timeout
  BY <1>9, NoPromise, FinishPromise DEF CallFails, Timeout
<1>10. CASE TakeAnswer
  <2>1. /\ pc = "wait" /\ helper[callee].pc = "answered"
        /\ touched' = touched /\ ~reply.noWrite
        /\ helper[callee].answer \in Answers
    <3>1. callee \in Helper /\ RequestInv(helper[callee])
      BY <1>10 DEF TakeAnswer, IInv, CommandInv, HelperInv
    <3> QED
      BY <1>10, <3>1 DEF TakeAnswer, RequestInv, PromiseInv, Underway
  <2>2. CASE pc' = "verify" /\ reply' = reply
    BY <2>1, <2>2 DEF PromiseInv, PromiseStep
  <2>3. CASE Finish(Told("defaultApplied"))
    BY <2>3, NoPromise, FinishPromise
  <2>4. CASE /\ helper[callee].answer \notin {"Written", "DefaultApplied"}
             /\ Finish(ToldError(Translate(helper[callee].answer)))
    <3>1. CASE touched /\ helper[callee].answer # "NotUefi"
      <4>1. helper[callee].answer \in
              {"Died", "WriteRefused", "GuardViolation", "Internal"}
        BY <2>1, <2>4, <3>1 DEF PromiseInv, PastWriting, Answers
      <4>2. Translate(helper[callee].answer) \in {"Io", "WriteRefused"}
        BY <4>1 DEF Translate
      <4> QED
        BY <2>4, <4>2, NoPromise, FinishPromise
    <3>2. CASE touched /\ helper[callee].answer = "NotUefi"
      BY <2>1, <2>4, <3>2, FinishPromise DEF PromiseInv, PromiseStep, PastWriting
    <3>3. CASE ~touched
      BY <2>1, <2>4, <3>3, FinishPromise
    <3> QED
      BY <2>1, <3>1, <3>2, <3>3
  <2> QED
    BY <1>10, <2>2, <2>3, <2>4 DEF TakeAnswer
<1>11. CASE VerifyFails
  <2>1. PICK told : Finish(told)
    BY <1>11 DEF VerifyFails
  <2> QED
    BY <1>11, <2>1, FinishPromise DEF VerifyFails, PromiseStep
<1>12. CASE VerifySucceeds
  BY <1>12 DEF VerifySucceeds, PromiseInv, PromiseStep, Underway
<1>13. CASE RebootTakesEffect
  BY <1>13, SilentPromise
     DEF RebootTakesEffect, uiVars, historyVars, PromiseInv, Underway
<1>14. CASE RebootFails
  BY <1>14, NoPromise DEF RebootFails, PromiseInv, PromiseStep, Underway
<1> QED
  BY <1>1, <1>2, <1>3, <1>4, <1>6, <1>7, <1>8, <1>9, <1>10, <1>11, <1>12,
     <1>13, <1>14 DEF Interface, Command

\* A step of one helper that leaves the interface as it is.
LEMMA PromiseHelper ==
  ASSUME IInv, PromiseInv, UNCHANGED uiVars, NEW h \in Helper, NEW r,
         helper' = [helper EXCEPT ![h] = r],
         touched /\ callee = h => PastWriting(r),
         touched' => touched \/ (callee = h /\ PastWriting(r))
  PROVE  PromiseInv' /\ PromiseStep
<1>1. pc' = pc /\ callee' = callee /\ reply' = reply
  BY DEF uiVars
<1>2. callee = h => pc = "wait"
  BY NoneAssumption DEF IInv, CommandInv
<1>3. pc = "wait" => callee \in Helper
  BY DEF IInv, CommandInv
<1>4. \A g \in Helper : helper'[g] = IF g = h THEN r ELSE helper[g]
  BY DEF IInv, TypeOK, HelpersOK
<1>5. pc = "wait" /\ touched' => PastWriting(helper'[callee])
  <2> SUFFICES ASSUME pc = "wait", touched'
               PROVE  PastWriting(helper'[callee])
    OBVIOUS
  <2>1. CASE callee = h
    BY <1>4, <2>1
  <2>2. CASE callee # h
    <3>1. helper'[callee] = helper[callee]
      BY <1>3, <1>4, <2>2
    <3> QED
      BY <2>2, <3>1 DEF PromiseInv
  <2> QED
    BY <2>1, <2>2
<1>6. pc = "call" => ~touched'
  BY <1>2 DEF PromiseInv
<1>7. reply.noWrite /\ touched' => touched
  BY <1>2 DEF PromiseInv, Underway
<1> QED
  BY <1>1, <1>5, <1>6, <1>7 DEF PromiseInv, PromiseStep, Underway

\* The end of a process, when its answer promises nothing after a write.
LEMMA PromiseAnswer ==
  ASSUME IInv, PromiseInv, UNCHANGED uiVars, NEW h \in Helper, NEW a,
         Answer(h, a), touched' = touched,
         touched /\ callee = h => /\ a \notin {"Denied", "EntryNotFound"}
                                  /\ a = "NotUefi" => helper[h].before # None
  PROVE  PromiseInv' /\ PromiseStep
<1>1. CASE callee = h
  <2> DEFINE r == [helper[h] EXCEPT !.pc = "answered", !.answer = a]
  <2>1. IsHelper(helper[h])
    BY DEF IInv, TypeOK, HelpersOK
  <2>2. r = [pc |-> "answered", op |-> helper[h].op, id |-> helper[h].id,
             before |-> helper[h].before, answer |-> a]
    BY <2>1, HelperRecordAnswered
  <2>3. helper' = [helper EXCEPT ![h] = r]
    BY <1>1 DEF Answer
  <2> HIDE DEF r
  <2>4. touched => PastWriting(r)
    BY <1>1, <2>2 DEF PastWriting
  <2> QED
    BY <2>3, <2>4, PromiseHelper
<1>2. CASE callee # h
  <2>1. helper' = [helper EXCEPT ![h] = FreeHelper]
    BY <1>2 DEF Answer
  <2> QED
    BY <1>2, <2>1, PromiseHelper
<1> QED
  BY <1>1, <1>2

\* Until it has written, the helper the command waits for has not changed the
\* firmware.
LEMMA UntouchedBefore ==
  ASSUME IInv, PromiseInv, NEW h \in Helper, callee = h,
         helper[h].pc \in {"auth", "run", "write"}
  PROVE  ~touched
<1>1. pc = "wait"
  BY NoneAssumption DEF IInv, CommandInv
<1> QED
  BY <1>1 DEF PromiseInv, PastWriting

\* The steps of the helpers and of pkexec keep the promise.
LEMMA PromiseProcesses ==
  ASSUME IInv, PromiseInv, NEW h \in Helper,
         HelperStep(h) \/ Authenticate(h) \/ Deny(h) \/ HelperDies(h)
  PROVE  PromiseInv' /\ PromiseStep
<1>1. CASE Authenticate(h)
  <2>1. callee = h => ~touched
    BY <1>1, UntouchedBefore DEF Authenticate
  <2>2. helper' = [helper EXCEPT ![h] = [helper[h] EXCEPT !.pc = "run"]]
    BY <1>1 DEF Authenticate
  <2> QED
    BY <1>1, <2>1, <2>2, PromiseHelper DEF Authenticate, historyVars
<1>2. CASE Deny(h)
  BY <1>2, UntouchedBefore, PromiseAnswer DEF Deny, historyVars
<1>3. CASE HelperDies(h)
  BY <1>3, PromiseAnswer DEF HelperDies, historyVars
<1>4. CASE HelperReads(h)
  <2>1. callee = h => ~touched
    BY <1>4, UntouchedBefore DEF HelperReads
  <2>2. PICK s : helper' = [helper EXCEPT ![h] =
                   [helper[h] EXCEPT !.pc = "write", !.before = s]]
    BY <1>4 DEF HelperReads
  <2> QED
    BY <1>4, <2>1, <2>2, PromiseHelper DEF HelperReads, historyVars
<1>5. CASE HelperRefuses(h)
  <2>1. callee = h => ~touched
    BY <1>5, UntouchedBefore DEF HelperRefuses
  <2> QED
    BY <1>5, <2>1, PromiseAnswer DEF HelperRefuses, historyVars
<1>6. CASE HelperWrites(h)
  <2> DEFINE r == [helper[h] EXCEPT !.pc = "verify"]
  <2>1. IsHelper(helper[h])
    BY DEF IInv, TypeOK, HelpersOK
  <2>2. r = [pc |-> "verify", op |-> helper[h].op, id |-> helper[h].id,
             before |-> helper[h].before, answer |-> helper[h].answer]
    BY <2>1, HelperRecord
  <2>3. helper' = [helper EXCEPT ![h] = r] /\ UNCHANGED uiVars
          /\ (touched' => touched \/ callee = h)
    BY <1>6 DEF HelperWrites
  <2> HIDE DEF r
  <2>4. PastWriting(r)
    BY <2>2 DEF PastWriting
  <2> QED
    BY <2>3, <2>4, PromiseHelper
<1>7. CASE HelperWriteRefused(h)
  <2>1. callee = h => ~touched
    BY <1>7, UntouchedBefore DEF HelperWriteRefused
  <2> QED
    BY <1>7, <2>1, PromiseAnswer DEF HelperWriteRefused, historyVars
<1>8. CASE HelperVerifies(h)
  <2>1. \A e \in HelperReadErrors \cup {"Guard"} :
          ErrorResponse(e) \in {"NotUefi", "Internal", "GuardViolation"}
    BY DEF ErrorResponse, HelperReadErrors
  <2>2. PICK a \in {"NotUefi", "Internal", "GuardViolation", "Written",
                    "DefaultApplied"} : Answer(h, a)
    BY <1>8, <2>1 DEF HelperVerifies
  <2>3. helper[h].before # None
    BY <1>8, StatesAreNotNone DEF HelperVerifies, IInv, HelperInv, RequestInv
  <2> QED
    BY <1>8, <2>2, <2>3, PromiseAnswer DEF HelperVerifies, historyVars
<1> QED
  BY <1>1, <1>2, <1>3, <1>4, <1>5, <1>6, <1>7, <1>8 DEF HelperStep

\* backend.rs guarantees_no_write: whatever processes die, time out or outlive
\* their command and however a read fails, the promise that nothing was written
\* becomes false only when the firmware cannot be read back after the write.
\* (It does become so: the run PromiseAtVerification.)
THEOREM PromiseAtReadBack == Spec => PromiseFailsOnlyAtReadBack
<1>1. Init => PromiseInv
  BY DEF Init, PromiseInv, Underway
<1>2. IInv /\ PromiseInv /\ [Next]_vars => PromiseInv' /\ PromiseStep
  <2> SUFFICES ASSUME IInv, PromiseInv, [Next]_vars
               PROVE  PromiseInv' /\ PromiseStep
    OBVIOUS
  <2>1. ASSUME UNCHANGED <<uiVars, helper, touched>>
        PROVE  PromiseInv' /\ PromiseStep
    BY <2>1 DEF uiVars, PromiseInv, PromiseStep, PastWriting, Underway
  <2>2. CASE Edit \/ \E p \in Removable : PlugOrUnplug(p)
    BY <2>1, <2>2 DEF Edit, PlugOrUnplug, historyVars
  <2>3. CASE InterfaceRestarts \/ MachineRestarts
    <3>1. Finish(Told("none")) /\ touched' = FALSE
      BY <2>3 DEF InterfaceRestarts, MachineRestarts, FreshInterface
    <3> QED
      BY <3>1, FinishPromise
  <2>4. CASE UNCHANGED vars
    BY <2>1, <2>4 DEF vars, historyVars
  <2> QED
    BY <2>2, <2>3, <2>4, PromiseInterface, PromiseProcesses
       DEF Next, Environment
<1>3. PromiseStep =>
        [reply'.noWrite /\ touched' =>
           \/ reply.noWrite /\ touched
           \/ pc = "verify"
           \/ /\ pc = "wait"
              /\ helper[callee].answer = "NotUefi"
              /\ helper[callee].before # None]_vars
  BY DEF PromiseStep
<1> QED
  BY <1>1, <1>2, <1>3, Invariance, PTL DEF Spec, PromiseFailsOnlyAtReadBack

-----------------------------------------------------------------------------
(* The permanent command                                                   *)

\* A helper that does not disappear moves by a step of its own.
LEMMA OwnStep ==
  ASSUME HelpersOK, [Next]_vars, NEW h \in Helper,
         helper'[h] \notin {helper[h], FreeHelper}
  PROVE  CallHelper(h) \/ Authenticate(h) \/ Deny(h) \/ HelperDies(h) \/ HelperStep(h)
<1>1. \A g \in Helper : \A r : helper' = [helper EXCEPT ![g] = r] => g = h
  BY DEF HelpersOK
<1>2. ASSUME NEW g \in Helper,
             CallHelper(g) \/ Authenticate(g) \/ Deny(g) \/ HelperDies(g) \/ HelperStep(g)
      PROVE  g = h
  <2>1. \E r : helper' = [helper EXCEPT ![g] = r]
    BY <1>2
       DEF CallHelper, Authenticate, Deny, HelperDies, HelperStep, HelperReads,
           HelperRefuses, HelperWrites, HelperWriteRefused, HelperVerifies, Answer
  <2> QED
    BY <1>1, <2>1
<1>3. ~(TakeAnswer \/ Timeout \/ InterfaceRestarts \/ MachineRestarts)
  BY DEF TakeAnswer, Timeout, KillChild, InterfaceRestarts, MachineRestarts, HelpersOK
<1>4. ~UNCHANGED helper
  OBVIOUS
<1> QED
  BY <1>2, <1>3, <1>4, HelperSteps

\* What the end of a process leaves.
LEMMA AnswerLeaves ==
  ASSUME HelpersOK, NEW h \in Helper, NEW a, Answer(h, a)
  PROVE  \/ helper'[h] = FreeHelper
         \/ helper'[h].pc = "answered" /\ helper'[h].answer = a
<1> DEFINE r == [helper[h] EXCEPT !.pc = "answered", !.answer = a]
<1>1. r.pc = "answered" /\ r.answer = a
  BY HelperRecordAnswered DEF HelpersOK
<1>2. helper'[h] = FreeHelper \/ helper'[h] = r
  BY DEF Answer, HelpersOK
<1> HIDE DEF r
<1> QED
  BY <1>1, <1>2

\* Only a write takes a helper from its first snapshot to its verification.
LEMMA WriteStep ==
  ASSUME HelpersOK, [Next]_vars, NEW h \in Helper,
         helper[h].pc = "write", helper'[h].pc = "verify"
  PROVE  HelperWrites(h)
<1>1. helper'[h] \notin {helper[h], FreeHelper}
  BY DEF FreeHelper
<1>2. \A a : ~Answer(h, a)
  BY <1>1, AnswerLeaves
<1>3. ~(CallHelper(h) \/ Authenticate(h) \/ Deny(h) \/ HelperReads(h)
           \/ HelperRefuses(h) \/ HelperVerifies(h))
  BY DEF FreeHelper, CallHelper, Authenticate, Deny, HelperReads, HelperRefuses,
         HelperVerifies
<1>4. ~(HelperDies(h) \/ HelperWriteRefused(h))
  BY <1>2 DEF HelperDies, HelperWriteRefused
<1> QED
  BY <1>1, <1>3, <1>4, OwnStep DEF HelperStep

\* Only its guard lets a helper report that the default system is applied.
LEMMA VerdictStep ==
  ASSUME HelpersOK, HelperInv, [Next]_vars, NEW h \in Helper,
         helper[h].pc = "verify", helper'[h].pc = "answered",
         helper'[h].answer = "DefaultApplied"
  PROVE  \E s \in Snapshots(h) :
           VerifyOnlyBootOrderReordered(helper[h].before, s, helper[h].id) = "Ok"
<1>1. helper'[h] \notin {helper[h], FreeHelper}
  BY DEF FreeHelper
<1>2. \A a : Answer(h, a) => a = "DefaultApplied"
  BY <1>1, AnswerLeaves
<1>3. HelperVerifies(h)
  <2>1. ~(CallHelper(h) \/ Authenticate(h) \/ Deny(h) \/ HelperReads(h)
             \/ HelperRefuses(h) \/ HelperWrites(h) \/ HelperWriteRefused(h))
    BY DEF FreeHelper, CallHelper, Authenticate, Deny, HelperReads, HelperRefuses,
           HelperWrites, HelperWriteRefused
  <2>2. ~HelperDies(h)
    BY <1>2 DEF HelperDies
  <2> QED
    BY <1>1, <2>1, <2>2, OwnStep DEF HelperStep
<1>4. \A e \in HelperReadErrors \cup {"Guard"} : ErrorResponse(e) # "DefaultApplied"
  BY DEF ErrorResponse, HelperReadErrors
<1>5. helper[h].op # "boot"
         /\ \E s \in Snapshots(h) : HelperVerdict(helper[h], s) = "Ok"
  BY <1>2, <1>3, <1>4 DEF HelperVerifies
<1> QED
  BY <1>5 DEF HelperVerdict

\* linux_firmware.rs write_default_system: the permanent order is left alone or
\* becomes the list the helper read with the target moved to the front, for
\* lists of any length, with repetitions, and whatever the firmware and the
\* other tools do.
THEOREM OnlyReorders == Spec => DefaultOnlyReorders
<1>1. ASSUME IInv, [Next]_vars, NEW h \in Helper, helper[h].pc = "write",
             helper'[h].pc = "verify", helper[h].op = "default",
             nvram'[BootOrder] # nvram[BootOrder]
      PROVE  MovedToFront(helper[h].before[BootOrder], nvram'[BootOrder], helper[h].id)
  <2> DEFINE old == helper[h].before[BootOrder]
             id == helper[h].id
  <2>1. HelpersOK /\ RequestInv(helper[h]) /\ IsState(nvram)
    BY <1>1 DEF IInv, TypeOK, MachineOK, HelperInv
  <2>2. old \in Seq(BootId) /\ id \in BootId
    BY <1>1, <2>1 DEF RequestInv, HasBootOrder, IsState, OrderValue
  <2>3. PICK b \in Behaviours :
          nvram' \in FirmwareEffects(nvram, BootOrder, MoveToFront(old, id), b)
    BY <1>1, <2>1, WriteStep DEF HelperWrites, WrittenVar, WrittenValue
  <2> HIDE DEF old, id
  <2>4. nvram'[BootOrder] = MoveToFront(old, id)
    <3> DEFINE written == [nvram EXCEPT ![BootOrder] = MoveToFront(old, id)]
    <3>1. nvram = [v \in Var |-> nvram[v]]
      BY <2>1 DEF IsState
    <3>2. written[BootOrder] = MoveToFront(old, id)
            /\ written = [v \in Var |-> written[v]]
      BY <3>1, NamesInVar
    <3>3. \/ nvram' = nvram \/ nvram' = written
          \/ \E i \in BootId : nvram' = [written EXCEPT ![i] = Absent]
      BY <2>3, NamesInVar DEF FirmwareEffects
    <3> HIDE DEF written
    <3>4. \A i \in BootId : [written EXCEPT ![i] = Absent][BootOrder] = written[BootOrder]
      BY <3>2, NamesInVar
    <3> QED
      BY <1>1, <3>2, <3>3, <3>4
  <2>5. MovedToFront(old, MoveToFront(old, id), id)
    BY <2>2, MoveToFrontType, MoveToFrontListsTargetOnce, MoveToFrontKeepsOthers,
       MoveToFrontKeepsOrder DEF MovedToFront
  <2> QED
    BY <2>4, <2>5 DEF old, id
<1>2. IInv /\ [Next]_vars =>
        [\A h \in Helper :
           helper[h].pc = "write" /\ helper'[h].pc = "verify"
             /\ helper[h].op = "default" /\ nvram'[BootOrder] # nvram[BootOrder] =>
           MovedToFront(helper[h].before[BootOrder], nvram'[BootOrder],
                        helper[h].id)]_vars
  BY <1>1
<1> QED
  BY <1>2, Invariance, PTL DEF Spec, DefaultOnlyReorders

\* linux_firmware.rs write_default_system, guard.rs verify_only_boot_order_reordered:
\* a success of the permanent command says that every variable had, since the
\* write, the value of the helper's first snapshot, except BootOrder, and what
\* BootOrder was, up to the variables that a read missed; also if the firmware
\* changes while the helper reads it.
THEOREM DefaultIsVerified == Spec => DefaultVerified
<1>1. ASSUME IInv, [Next]_vars, NEW h \in Helper, helper[h].pc = "verify",
             helper'[h].pc = "answered", helper'[h].answer = "DefaultApplied"
      PROVE  LET found == helper[h].before
             IN \E s \in seen[h] :
                  /\ \A v \in Var \ {BootOrder} :
                       \/ s[v] = found[v]
                       \/ found[v] = Absent /\ \E m \in Missing : v \in m
                  /\ HasBootOrder(s) /\ s[BootOrder][1] = helper[h].id
                  /\ \A id \in BootId : Multiplicity(id, found[BootOrder])
                                         = Multiplicity(id, s[BootOrder])
  <2> DEFINE found == helper[h].before
  <2>1. PICK t \in Snapshots(h) :
          VerifyOnlyBootOrderReordered(found, t, helper[h].id) = "Ok"
    BY <1>1, VerdictStep DEF IInv, TypeOK
  <2>2. /\ HasBootOrder(t) /\ t[BootOrder][1] = helper[h].id
        /\ SameIds(found[BootOrder], t[BootOrder])
        /\ Diff(found, t) \ {BootOrder} = {}
    BY <2>1 DEF VerifyOnlyBootOrderReordered
  <2>3. PICK s \in seen[h], m \in Missing : t = Observed(s, m)
    BY DEF Snapshots
  <2>4. s[BootOrder] = t[BootOrder]
    BY <2>2, <2>3, NamesInVar DEF HasBootOrder, Observed
  <2>5. ASSUME NEW v \in Var \ {BootOrder}
        PROVE  s[v] = found[v] \/ (found[v] = Absent /\ v \in m)
    <3>1. found[v] = t[v]
      BY <2>2 DEF Diff
    <3> QED
      BY <2>3, <3>1 DEF Observed
  <2> QED
    BY <2>2, <2>4, <2>5 DEF SameIds, HasBootOrder
<1>2. IInv /\ [Next]_vars =>
        [\A h \in Helper :
           helper[h].pc = "verify" /\ helper'[h].pc = "answered"
             /\ helper'[h].answer = "DefaultApplied" =>
           LET found == helper[h].before
           IN \E s \in seen[h] :
                /\ \A v \in Var \ {BootOrder} :
                     \/ s[v] = found[v]
                     \/ found[v] = Absent /\ \E m \in Missing : v \in m
                /\ HasBootOrder(s) /\ s[BootOrder][1] = helper[h].id
                /\ \A id \in BootId : Multiplicity(id, found[BootOrder])
                                       = Multiplicity(id, s[BootOrder])]_vars
  BY <1>1
<1> QED
  BY <1>2, Invariance, PTL DEF Spec, DefaultVerified

-----------------------------------------------------------------------------
(* A selection boots the confirmed system once                             *)

\* Only a request of confirm_and_reboot is answered by Written.
WrittenInv(r) == r.pc = "answered" /\ r.answer = "Written" => r.op = "boot"

\* The helper works on the kind of request of the command that waits for it,
\* and the permanent command neither verifies nor reboots.
OpInv ==
  /\ pc \in {"verify", "reboot"} => op = "boot"
  /\ pc = "wait" => helper[callee].op = op
  /\ \A h \in Helper : WrittenInv(helper[h])

\* One helper changes, and neither its kind of request nor the interface does.
LEMMA OpHelper ==
  ASSUME IInv, OpInv, UNCHANGED uiVars, NEW h \in Helper, NEW r,
         helper' = [helper EXCEPT ![h] = r],
         callee = h => r.op = helper[h].op, WrittenInv(r)
  PROVE  OpInv'
<1>1. pc' = pc /\ callee' = callee /\ op' = op
  BY DEF uiVars, commandVars
<1>2. pc = "wait" => callee \in Helper
  BY DEF IInv, CommandInv
<1>3. \A g \in Helper : helper'[g] = IF g = h THEN r ELSE helper[g]
  BY DEF IInv, TypeOK, HelpersOK
<1>4. pc = "wait" => helper'[callee].op = op
  BY <1>2, <1>3 DEF OpInv
<1>5. \A g \in Helper : WrittenInv(helper'[g])
  BY <1>3 DEF OpInv
<1> QED
  BY <1>1, <1>4, <1>5 DEF OpInv

\* The end of a process, with Written only for a request that asked for it.
LEMMA OpAnswer ==
  ASSUME IInv, OpInv, UNCHANGED uiVars, NEW h \in Helper, NEW a, Answer(h, a),
         a = "Written" => helper[h].op = "boot"
  PROVE  OpInv'
<1> DEFINE r == [helper[h] EXCEPT !.pc = "answered", !.answer = a]
<1>1. IsHelper(helper[h])
  BY DEF IInv, TypeOK, HelpersOK
<1>2. r = [pc |-> "answered", op |-> helper[h].op, id |-> helper[h].id,
           before |-> helper[h].before, answer |-> a]
  BY <1>1, HelperRecordAnswered
<1>3. \/ helper' = [helper EXCEPT ![h] = r]
      \/ callee # h /\ helper' = [helper EXCEPT ![h] = FreeHelper]
  BY DEF Answer
<1> HIDE DEF r
<1>4. WrittenInv(r) /\ r.op = helper[h].op
  BY <1>2 DEF WrittenInv
<1>5. WrittenInv(FreeHelper)
  BY DEF WrittenInv, FreeHelper
<1> QED
  BY <1>3, <1>4, <1>5, OpHelper

\* The steps of the helpers and of pkexec keep the kinds of requests.
LEMMA OpProcesses ==
  ASSUME IInv, OpInv, NEW h \in Helper,
         HelperStep(h) \/ Authenticate(h) \/ Deny(h) \/ HelperDies(h)
  PROVE  OpInv'
<1>1. IsHelper(helper[h])
  BY DEF IInv, TypeOK, HelpersOK
<1>2. ASSUME NEW p \in {"run", "verify"}, UNCHANGED uiVars,
             helper' = [helper EXCEPT ![h] = [@ EXCEPT !.pc = p]]
      PROVE  OpInv'
  <2> DEFINE r == [helper[h] EXCEPT !.pc = p]
  <2>1. r = [pc |-> p, op |-> helper[h].op, id |-> helper[h].id,
             before |-> helper[h].before, answer |-> helper[h].answer]
    BY <1>1, HelperRecord
  <2>2. helper' = [helper EXCEPT ![h] = r]
    BY <1>2
  <2> HIDE DEF r
  <2>3. WrittenInv(r) /\ r.op = helper[h].op
    BY <2>1 DEF WrittenInv
  <2> QED
    BY <1>2, <2>2, <2>3, OpHelper
<1>3. CASE Authenticate(h)
  BY <1>2, <1>3 DEF Authenticate
<1>4. CASE Deny(h) \/ HelperDies(h)
  BY <1>4, OpAnswer DEF Deny, HelperDies
<1>5. CASE HelperReads(h)
  <2>1. PICK s : helper' = [helper EXCEPT ![h] =
                   [@ EXCEPT !.pc = "write", !.before = s]]
    BY <1>5 DEF HelperReads
  <2> DEFINE r == [helper[h] EXCEPT !.pc = "write", !.before = s]
  <2>2. r = [pc |-> "write", op |-> helper[h].op, id |-> helper[h].id,
             before |-> s, answer |-> helper[h].answer]
    BY <1>1, HelperRecordRead
  <2>3. helper' = [helper EXCEPT ![h] = r]
    BY <2>1
  <2> HIDE DEF r
  <2>4. WrittenInv(r) /\ r.op = helper[h].op
    BY <2>2 DEF WrittenInv
  <2> QED
    BY <1>5, <2>3, <2>4, OpHelper DEF HelperReads
<1>6. CASE HelperRefuses(h)
  <2>1. PICK e \in HelperReadErrors
                     \cup UNION {HelperRefusals(helper[h], s) : s \in Snapshots(h)} :
          Answer(h, ErrorResponse(e))
    BY <1>6 DEF HelperRefuses
  <2>2. e \in {"NotUefi", "EntryNotFound", "FirmwareUnavailable",
               "NotSelectable", "Io"}
    BY DEF HelperReadErrors, HelperRefusals
  <2>3. ErrorResponse(e) # "Written"
    BY <2>2 DEF ErrorResponse
  <2> QED
    BY <1>6, <2>1, <2>3, OpAnswer DEF HelperRefuses
<1>7. CASE HelperWrites(h)
  BY <1>2, <1>7 DEF HelperWrites
<1>8. CASE HelperWriteRefused(h)
  BY <1>8, OpAnswer DEF HelperWriteRefused, ErrorResponse
<1>9. CASE HelperVerifies(h)
  <2>1. \A e \in HelperReadErrors \cup {"Guard"} : ErrorResponse(e) # "Written"
    BY DEF ErrorResponse, HelperReadErrors
  <2>2. PICK a : Answer(h, a) /\ (a = "Written" => helper[h].op = "boot")
    BY <1>9, <2>1 DEF HelperVerifies
  <2> QED
    BY <1>9, <2>2, OpAnswer DEF HelperVerifies
<1> QED
  BY <1>3, <1>4, <1>5, <1>6, <1>7, <1>8, <1>9 DEF HelperStep

\* Every step keeps the kinds of requests.
LEMMA OpStep ==
  ASSUME IInv, OpInv, [Next]_vars
  PROVE  OpInv'
<1>1. ASSUME pc' \notin {"wait", "verify", "reboot"},
             \A h \in Helper : helper'[h] \in {helper[h], FreeHelper}
      PROVE  OpInv'
  BY <1>1 DEF OpInv, WrittenInv, FreeHelper
<1>2. ASSUME UNCHANGED <<pc, op, callee, helper>>
      PROVE  OpInv'
  BY <1>2 DEF OpInv
<1>3. CASE User
  BY <1>1, <1>2, <1>3
     DEF User, PrepareBegins, CancelSelection, ConfirmBegins, DefaultBegins,
         Begin, commandVars
<1>4. ASSUME NEW h \in Helper, CallHelper(h)
      PROVE  OpInv'
  <2>1. \A g \in Helper : helper'[g] =
          IF g = h THEN [pc |-> "auth", op |-> op, id |-> target,
                         before |-> None, answer |-> None] ELSE helper[g]
    BY <1>4 DEF CallHelper, IInv, TypeOK, HelpersOK
  <2> QED
    BY <1>4, <2>1 DEF CallHelper, commandVars, OpInv, WrittenInv
<1>5. CASE CallFails \/ VerifyFails \/ RebootFails
  BY <1>1, <1>5 DEF CallFails, VerifyFails, RebootFails, Finish
<1>6. CASE TakeAnswer
  <2>1. callee \in Helper /\ helper[callee].pc = "answered"
          /\ helper[callee].op = op /\ WrittenInv(helper[callee])
    BY <1>6 DEF TakeAnswer, IInv, CommandInv, OpInv
  <2>2. \A h \in Helper : helper'[h] \in {helper[h], FreeHelper}
    BY <1>6 DEF TakeAnswer, IInv, TypeOK, HelpersOK
  <2>3. CASE /\ helper[callee].answer = "Written"
             /\ pc' = "verify" /\ callee' = None
             /\ UNCHANGED <<reply, commandVars, settled>>
    <3>1. op' = "boot"
      BY <2>1, <2>3 DEF WrittenInv, commandVars
    <3> QED
      BY <2>2, <2>3, <3>1 DEF OpInv, WrittenInv, FreeHelper
  <2>4. CASE pc' = "idle"
    BY <1>1, <2>2, <2>4
  <2> QED
    BY <1>6, <2>3, <2>4 DEF TakeAnswer, Finish
<1>7. CASE Timeout
  <2>1. \A h \in Helper : helper'[h] \in {helper[h], FreeHelper}
    BY <1>7 DEF Timeout, KillChild, IInv, TypeOK, HelpersOK
  <2> QED
    BY <1>1, <1>7, <2>1 DEF Timeout, Finish
<1>8. CASE VerifySucceeds
  BY <1>8 DEF VerifySucceeds, OpInv
<1>9. CASE RebootTakesEffect
  BY <1>2, <1>9 DEF RebootTakesEffect, uiVars, commandVars
<1>10. CASE Edit \/ \E p \in Removable : PlugOrUnplug(p)
  BY <1>2, <1>10 DEF Edit, PlugOrUnplug, uiVars, commandVars
<1>11. CASE InterfaceRestarts \/ MachineRestarts
  <2>1. \A h \in Helper : helper'[h] \in {helper[h], FreeHelper}
    BY <1>11 DEF InterfaceRestarts, MachineRestarts
  <2>2. pc' = "idle"
    BY <1>11 DEF InterfaceRestarts, MachineRestarts, FreshInterface, Finish
  <2> QED
    BY <1>1, <2>1, <2>2
<1>12. CASE UNCHANGED vars
  BY <1>2, <1>12 DEF vars, uiVars, commandVars
<1>13. ASSUME NEW sid \in StableIds,
              \/ PrepareSelection(sid) \/ PrepareFails(sid)
              \/ SetDefaultRefused(sid) \/ SetDefaultResolved(sid)
       PROVE  OpInv'
  BY <1>1, <1>13 DEF PrepareSelection, PrepareFails, SetDefaultRefused,
                     SetDefaultResolved, Proceed, Finish
<1>14. CASE ConfirmRefused \/ ConfirmResolved
  BY <1>1, <1>14 DEF ConfirmRefused, ConfirmResolved, Proceed, Finish
<1> QED
  BY <1>3, <1>4, <1>5, <1>6, <1>7, <1>8, <1>9, <1>10, <1>11, <1>12, <1>13,
     <1>14, OpProcesses DEF Next, Interface, Command, Environment

\* What BootNext designates is a stable identifier, or nothing.
LEMMA DestinationType == \A s : Destination(s) \in StableIds \cup {None}
BY DEF Destination, StableIds

\* The firmware has not changed since the interface began to read it back.
Calm == pc = "verify" /\ seen[Ui] = {nvram}

\* The guard's acceptance says where the firmware itself goes next, if it did
\* not change while the interface read it.
LEMMA AcceptedDestination ==
  ASSUME IInv, Resolved, NEW s \in Snapshots(Ui), GuardAccepts(s),
         seen[Ui] = {nvram}
  PROVE  Destination(nvram) = wanted
<1>0. Ui \in Reader
  BY DEF Reader
<1>1. IsState(s)
  BY <1>0, ReadsAreStates DEF IInv, TypeOK
<1>2. s[BootNext] = target /\ s[target] = before[target]
  BY <1>1, AcceptedSnapshot DEF GuardAccepts
<1>3. /\ target \in BootId /\ target \in Var
      /\ before[target] \in LoadOption /\ StableId(before[target]) = wanted
  BY NamesInVar DEF Resolved
<1>4. s[BootNext] # Absent /\ s[target] # Absent
  BY <1>2, <1>3, AbsentAssumption
<1>5. nvram[BootNext] = target
  BY <1>0, <1>2, <1>4, NamesInVar, ReadShows
<1>6. nvram[target] = before[target]
  BY <1>0, <1>2, <1>3, <1>4, ReadShows
<1> QED
  BY <1>3, <1>5, <1>6 DEF Destination

\* What a command that has found its system is about.
LEMMA ResolvedSystem == Resolved => wanted \in StableIds
BY DEF Resolved, StableIds

\* A read in progress has seen nothing but what the firmware holds exactly if
\* that was so before and the firmware did not change.
LEMMA CalmWitness ==
  ASSUME IInv, IsState(nvram'), seen'[Ui] = Grown(seen[Ui], nvram')
  PROVE  seen'[Ui] = {nvram'} <=> seen[Ui] = {nvram} /\ nvram' = nvram
<1>1. /\ \A s \in seen[Ui] : IsState(s)
      /\ seen[Ui] = {} \/ nvram \in seen[Ui]
  BY DEF IInv, TypeOK, SeenOK, WatchInv, Reader
<1>2. /\ seen[Ui] \subseteq seen'[Ui]
      /\ seen[Ui] = {} => seen'[Ui] = {}
  BY <1>1, GrownSnapshots
<1>3. ASSUME seen[Ui] = {nvram}, nvram' = nvram
      PROVE  seen'[Ui] = {nvram'}
  <2>1. nvram = [v \in Var |-> nvram[v]]
    BY DEF IInv, TypeOK, MachineOK, IsState
  <2>2. \A c \in SUBSET Var :
          [v \in Var |-> IF v \in c THEN nvram'[v] ELSE nvram[v]] = nvram
    BY <1>3, <2>1
  <2>3. seen'[Ui] \subseteq {nvram}
    BY <1>3, <2>2 DEF Grown
  <2> QED
    BY <1>2, <1>3, <2>3
<1> QED
  BY <1>1, <1>2, <1>3

\* A step that changes nothing a selection is about.
LEMMA Stutter ==
  ASSUME UNCHANGED <<nvram, host, op, wanted, settled>>,
         pc' \in Underway <=> pc \in Underway,
         pc' = "reboot" <=> pc = "reboot",
         Calm' <=> Calm
  PROVE  UNCHANGED Selection!vars
<1>1. UNCHANGED <<Destination(nvram), IF settled THEN wanted ELSE None,
                  host = "stopping">>
  OBVIOUS
<1>2. UNCHANGED (IF pc \in Underway /\ op = "boot" THEN wanted ELSE None)
  OBVIOUS
<1>3. UNCHANGED <<pc = "reboot", pc = "verify" /\ seen[Ui] = {nvram}>>
  BY Zenon DEF Calm
<1> QED
  BY <1>1, <1>2, <1>3 DEF Selection!vars

\* The end of a command ends the selection.
LEMMA FinishEnds ==
  ASSUME NEW told, Finish(told), UNCHANGED machineVars
  PROVE  Selection!End
BY FinishType DEF Finish, Forget, machineVars, Selection!End, Destination,
                  Underway

\* A change of the firmware by anybody.
LEMMA WriteChanges ==
  ASSUME UNCHANGED <<uiVars, host>>, settled' = FALSE, ~Calm'
  PROVE  Selection!Change
<1>1. Destination(nvram') \in StableIds \cup {None}
  BY DestinationType
<1> QED
  BY <1>1 DEF uiVars, commandVars, Selection!Change, Destination, Calm

\* The steps of the user do not concern a selection.
LEMMA UserImplements ==
  ASSUME User
  PROVE  UNCHANGED Selection!vars
<1>1. UNCHANGED <<nvram, host, op, wanted, settled>>
  BY DEF User, PrepareBegins, CancelSelection, ConfirmBegins, DefaultBegins,
         Begin, machineVars, commandVars, historyVars
<1>2. pc = "idle" /\ pc' \in {"idle", "prepare", "confirm", "default"}
  BY DEF User, PrepareBegins, CancelSelection, ConfirmBegins, DefaultBegins,
         Begin
<1> QED
  BY <1>1, <1>2, Stutter DEF Underway, Calm

\* The end of the first read of a command.
LEMMA ReadEndsImplements ==
  ASSUME IInv,
         \/ \E sid \in StableIds : \/ PrepareSelection(sid) \/ PrepareFails(sid)
                                   \/ SetDefaultRefused(sid)
                                   \/ SetDefaultResolved(sid)
         \/ ConfirmRefused
         \/ ConfirmResolved
  PROVE  Selection!Next \/ UNCHANGED Selection!vars
<1>1. ASSUME NEW sid \in StableIds, PrepareSelection(sid) \/ PrepareFails(sid)
      PROVE  UNCHANGED Selection!vars
  <2>1. UNCHANGED <<nvram, host, op, wanted, settled>>
          /\ pc = "prepare" /\ pc' = "idle"
    BY <1>1 DEF PrepareSelection, PrepareFails, machineVars, commandVars,
                historyVars
  <2> QED
    BY <2>1, Stutter DEF Underway, Calm
<1>2. ASSUME NEW sid \in StableIds, SetDefaultRefused(sid)
      PROVE  Selection!End
  BY <1>2, FinishEnds DEF SetDefaultRefused
<1>3. CASE ConfirmRefused
  BY <1>3, FinishEnds DEF ConfirmRefused, Selection!Next
<1>4. CASE ConfirmResolved
  <2>1. plan.sid \in StableIds
    BY <1>4 DEF ConfirmResolved, IInv, TypeOK, InterfaceOK, CommandInv, Plan
  <2>2. PICK s \in Snapshots(Ui), devices \in Inventories, i \in BootId :
          Proceed("boot", plan.sid, i, s, devices)
    BY <1>4 DEF ConfirmResolved
  <2> QED
    BY <1>4, <2>1, <2>2
       DEF ConfirmResolved, Proceed, machineVars, Selection!Next, Selection!Ask,
           Destination, Underway
<1>5. ASSUME NEW sid \in StableIds, SetDefaultResolved(sid)
      PROVE  Selection!End
  BY <1>5 DEF SetDefaultResolved, Proceed, machineVars, Selection!End,
              Destination, Underway
<1> QED
  BY <1>1, <1>2, <1>3, <1>4, <1>5 DEF Selection!Next

\* Every step of the command is one of a selection: only an accepted one makes
\* sure, and only one that made sure restarts the machine.
LEMMA CommandImplements ==
  ASSUME IInv, OpInv, Interface
  PROVE  Selection!Next \/ UNCHANGED Selection!vars
<1>1. ASSUME NEW h \in Helper, CallHelper(h)
      PROVE  UNCHANGED Selection!vars
  <2>1. UNCHANGED <<nvram, host, op, wanted, settled>>
          /\ pc = "call" /\ pc' = "wait"
    BY <1>1 DEF CallHelper, machineVars, commandVars, historyVars
  <2> QED
    BY <2>1, Stutter DEF Underway, Calm
<1>2. CASE CallFails \/ Timeout \/ VerifyFails
  BY <1>2, FinishEnds DEF CallFails, Timeout, VerifyFails, Selection!Next
<1>3. CASE TakeAnswer
  <2>1. CASE /\ helper[callee].answer = "Written"
             /\ pc' = "verify"
             /\ BeginRead(Ui)
             /\ UNCHANGED <<commandVars, settled>>
    <3>1. callee \in Helper /\ Resolved
      BY <1>3 DEF TakeAnswer, IInv, CommandInv, Underway
    <3>2. op = "boot" /\ wanted \in StableIds
      BY <1>3, <2>1, <3>1, ResolvedSystem DEF TakeAnswer, OpInv, WrittenInv
    <3>3. UNCHANGED machineVars /\ pc = "wait"
      BY <1>3 DEF TakeAnswer
    <3>4. Calm'
      <4>1. seen'[Ui] = {nvram}
        BY <2>1 DEF BeginRead, IInv, TypeOK, SeenOK, Reader
      <4> QED
        BY <2>1, <3>3, <4>1 DEF machineVars, Calm
    <3> QED
      BY <2>1, <3>2, <3>3, <3>4
         DEF commandVars, machineVars, Selection!Next, Selection!Look,
             Destination, Underway, Calm
  <2>2. ASSUME NEW told, Finish(told)
        PROVE  Selection!End
    BY <1>3, <2>2, FinishEnds DEF TakeAnswer
  <2> QED
    BY <1>3, <2>1, <2>2 DEF TakeAnswer, Selection!Next
<1>4. CASE VerifySucceeds
  <2>1. PICK s \in Snapshots(Ui) : GuardAccepts(s)
    BY <1>4 DEF VerifySucceeds
  <2>2. Resolved /\ op = "boot" /\ pc = "verify"
    BY <1>4 DEF VerifySucceeds, IInv, CommandInv, OpInv, Underway
  <2>3. wanted \in StableIds
          /\ (seen[Ui] = {nvram} => Destination(nvram) = wanted)
    BY <2>1, <2>2, AcceptedDestination, ResolvedSystem
  <2>4. Selection!MakeSure
    BY <1>4, <2>2, <2>3
       DEF VerifySucceeds, machineVars, Selection!MakeSure, Destination,
           Underway
  <2> QED
    BY <2>4 DEF Selection!Next
<1>5. CASE RebootTakesEffect
  BY <1>5 DEF RebootTakesEffect, uiVars, commandVars, historyVars,
              Selection!Next, Selection!Restart, Destination
<1>6. CASE RebootFails
  BY <1>6 DEF RebootFails, machineVars, historyVars, Selection!Next,
              Selection!End, Destination, Underway
<1> QED
  BY <1>1, <1>2, <1>3, <1>4, <1>5, <1>6, ReadEndsImplements
     DEF Interface, Command

\* A write of a helper changes the firmware, or nothing.
LEMMA WriteImplements ==
  ASSUME IInv, [Next]_vars, NEW h \in Helper, HelperWrites(h)
  PROVE  Selection!Next \/ UNCHANGED Selection!vars
<1>1. IsState(nvram')
  BY MachineType DEF MachineOK
<1>2. seen'[Ui] = Grown(seen[Ui], nvram')
  BY UiAssumption DEF HelperWrites, Witnessed, Reader
<1>3. UNCHANGED <<uiVars, host>> /\ settled' = (settled /\ nvram' = nvram)
  BY DEF HelperWrites
<1>4. Calm' <=> Calm /\ nvram' = nvram
  BY <1>1, <1>2, <1>3, CalmWitness DEF Calm, uiVars
<1>5. CASE nvram' = nvram
  <2>1. settled' = settled
    BY <1>3, <1>5 DEF IInv, TypeOK
  <2> QED
    BY <1>3, <1>4, <1>5, <2>1, Stutter DEF uiVars, commandVars
<1>6. CASE nvram' # nvram
  BY <1>3, <1>4, <1>6, WriteChanges DEF Selection!Next
<1> QED
  BY <1>5, <1>6

\* A change by another tool.
LEMMA EditImplements ==
  ASSUME IInv, [Next]_vars, Edit
  PROVE  Selection!Change
<1>1. IsState(nvram')
  BY MachineType DEF MachineOK
<1>2. seen'[Ui] = Grown(seen[Ui], nvram')
  BY DEF Edit, Witnessed, Reader
<1>3. nvram' # nvram
  <2>1. PICK v \in Var : \E x \in EditValues(v) :
               x # nvram[v] /\ nvram' = [nvram EXCEPT ![v] = x]
    BY DEF Edit
  <2> QED
    BY <2>1 DEF IInv, TypeOK, MachineOK, IsState
<1>4. ~Calm'
  BY <1>1, <1>2, <1>3, CalmWitness DEF Calm
<1> QED
  BY <1>4, WriteChanges DEF Edit

\* Every step of the rest of the system is one of a selection.
LEMMA OthersImplement ==
  ASSUME IInv, [Next]_vars,
         \/ \E h \in Helper : HelperStep(h)
         \/ Environment
  PROVE  Selection!Next \/ UNCHANGED Selection!vars
<1>1. ASSUME UNCHANGED <<nvram, host, uiVars, settled>>,
             seen'[Ui] = seen[Ui]
      PROVE  UNCHANGED Selection!vars
  BY <1>1, Stutter DEF uiVars, commandVars, Calm
<1>2. ASSUME NEW h \in Helper, BeginRead(h) \/ EndRead(h) \/ UNCHANGED seen
      PROVE  seen'[Ui] = seen[Ui]
  BY <1>2, UiAssumption DEF BeginRead, EndRead, IInv, TypeOK, SeenOK, Reader
<1>3. ASSUME NEW h \in Helper, HelperStep(h), ~HelperWrites(h)
      PROVE  UNCHANGED <<nvram, host, uiVars, settled>>
               /\ (EndRead(h) \/ UNCHANGED seen)
  BY <1>3 DEF HelperStep, HelperReads, HelperRefuses, HelperWriteRefused,
              HelperVerifies, Answer, machineVars, historyVars
<1>4. ASSUME NEW h \in Helper, Authenticate(h) \/ Deny(h) \/ HelperDies(h)
      PROVE  UNCHANGED <<nvram, host, uiVars, settled>>
               /\ (BeginRead(h) \/ EndRead(h))
  BY <1>4 DEF Authenticate, Deny, HelperDies, Answer, machineVars, historyVars
<1>5. ASSUME NEW p \in Removable, PlugOrUnplug(p)
      PROVE  UNCHANGED <<nvram, host, uiVars, settled>> /\ UNCHANGED seen
  BY <1>5 DEF PlugOrUnplug, historyVars
<1>6. CASE InterfaceRestarts
  BY <1>6, FinishEnds DEF InterfaceRestarts, FreshInterface, Selection!Next
<1>7. CASE MachineRestarts
  <2>1. Finish(Told("none"))
    BY <1>7 DEF MachineRestarts, FreshInterface
  <2>2. nvram'[BootNext] = Absent
    BY <1>7, NamesInVar DEF MachineRestarts, IInv, TypeOK, MachineOK, IsState
  <2> QED
    BY <1>7, <2>1, <2>2, AbsentAssumption
       DEF MachineRestarts, Finish, Forget, Selection!Next, Selection!Boot,
           Destination, Underway
<1> QED
  BY <1>1, <1>2, <1>3, <1>4, <1>5, <1>6, <1>7, WriteImplements, EditImplements
     DEF Environment, Selection!Next

\* commands.rs confirm_and_reboot, select.rs and power.rs implement OneBoot:
\* the machine is restarted only by a selection whose guard accepted what was
\* read back, and the firmware boots the confirmed system next unless it was
\* changed while it was read, whatever else happens at any moment.
THEOREM Implements == Spec => BootsOnce
<1>1. Init => OpInv
  BY DEF Init, OpInv, WrittenInv, FreeHelper
<1>2. Init => Selection!Init
  BY DestinationType DEF Init, Selection!Init, Underway
<1>3. IInv /\ OpInv /\ [Next]_vars => [Selection!Next]_(Selection!vars)
  <2> SUFFICES ASSUME IInv, OpInv, [Next]_vars
               PROVE  Selection!Next \/ UNCHANGED Selection!vars
    OBVIOUS
  <2>1. CASE UNCHANGED vars
    BY <2>1, Stutter
       DEF vars, machineVars, uiVars, commandVars, historyVars, Calm
  <2> QED
    BY <2>1, UserImplements, CommandImplements, OthersImplement DEF Next
<1>4. Spec => Selection!Init /\ [][Selection!Next]_(Selection!vars)
  BY <1>1, <1>2, <1>3, OpStep, Invariance, PTL DEF Spec
<1> QED
  BY <1>4 DEF BootsOnce, Selection!Spec

=============================================================================
