----------------------------- MODULE GuardCheck -----------------------------
(***************************************************************************)
(* The guard against any history: a snapshot is taken, the firmware goes   *)
(* through any number of changes of single variables, by anybody, and a    *)
(* second snapshot is compared with the first.  The properties say what    *)
(* the verdicts of guard.rs mean, in terms that do not mention how they    *)
(* are computed, and that write_default_system can satisfy its guard.      *)
(***************************************************************************)
EXTENDS Guard, Firmware

CONSTANTS
  OrderValues,  \* the values that the changes give to BootOrder,
  NextValues,   \* to BootNext
  EntryValues   \* and to an entry

ASSUME ValuesAssumption ==
  /\ OrderValues \subseteq OrderValue
  /\ NextValues \subseteq NextValue
  /\ EntryValues \subseteq EntryValue

VARIABLES
  before,  \* the first snapshot
  after,   \* the firmware now
  target   \* the identifier the request was about

vars == <<before, after, target>>

NewValues(v) ==
  IF v = BootOrder THEN OrderValues
  ELSE IF v = BootNext THEN NextValues
  ELSE EntryValues

Init ==
  /\ before = [v \in Var |-> Absent]
  /\ after = before
  /\ target \in BootId

Change ==
  /\ \E v \in Var : \E x \in NewValues(v) : after' = [after EXCEPT ![v] = x]
  /\ UNCHANGED <<before, target>>

Snapshot ==
  /\ before' = after
  /\ UNCHANGED <<after, target>>

Next == Change \/ Snapshot

Spec == Init /\ [][Next]_vars

-----------------------------------------------------------------------------
\* Both snapshots are snapshots.
TypeOK ==
  /\ IsState(before)
  /\ IsState(after)
  /\ target \in BootId

\* guard.rs verify_only_boot_next_changed: it accepts exactly the snapshots
\* that differ from the first at most in BootNext, and there hold the target.
AcceptsOnlyBootNext ==
  VerifyOnlyBootNextChanged(before, after, target) = "Ok"
    <=> after = [before EXCEPT ![BootNext] = target]

\* new is old with its elements in another order.
IsPermutation(old, new) ==
  /\ Len(old) = Len(new)
  /\ \E f \in [1..Len(new) -> 1..Len(old)] :
       /\ \A k, l \in 1..Len(new) : k # l => f[k] # f[l]
       /\ \A k \in 1..Len(new) : new[k] = old[f[k]]

\* guard.rs verify_only_boot_order_reordered: it accepts exactly the snapshots
\* that differ from the first at most in BootOrder, which is decodable in both
\* and in the second a permutation of the first that starts with the target.
AcceptsOnlyReordering ==
  VerifyOnlyBootOrderReordered(before, after, target) = "Ok"
    <=> /\ HasBootOrder(before)
        /\ HasBootOrder(after)
        /\ after = [before EXCEPT ![BootOrder] = after[BootOrder]]
        /\ after[BootOrder] # << >> /\ Head(after[BootOrder]) = target
        /\ IsPermutation(before[BootOrder], after[BootOrder])

\* linux_firmware.rs write_default_system with guard.rs: if a firmware obeys,
\* the guard accepts the list the helper writes exactly when the target is
\* listed once; if it is listed twice, the permanent write is done and then
\* reported as a failure.
ObeyedReorderingAccepted ==
  HasBootOrder(before) /\ Occurs(target, before[BootOrder]) =>
    (VerifyOnlyBootOrderReordered(
       before,
       [before EXCEPT ![BootOrder] = MoveToFront(before[BootOrder], target)],
       target) = "Ok"
     <=> Multiplicity(target, before[BootOrder]) = 1)

=============================================================================
