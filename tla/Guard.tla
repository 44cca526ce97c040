-------------------------------- MODULE Guard --------------------------------
(***************************************************************************)
(* guard.rs: the pure comparisons of two firmware snapshots that decide,   *)
(* after each write, whether the write did what was asked and nothing      *)
(* else.  Each check returns "Ok" or the name of the GuardError it raises. *)
(***************************************************************************)
EXTENDS FirmwareState

\* MUTANT: the foreign variables are no longer looked at.
DiffOfBootOrderOnly(before, after) ==
  {v \in {BootOrder} : before[v] # after[v]}

\* The names whose value was added, removed or modified.
Diff(before, after) == {v \in Var : before[v] # after[v]}

\* Raw comparison: two undecodable values that differ are a difference.
BootOrderUnchanged(before, after) == before[BootOrder] = after[BootOrder]

\* MUTANT: the check of the value of BootNext is forgotten.
AnyBootNextAccepted(before, after, expected) ==
  IF ~BootOrderUnchanged(before, after) THEN "BootOrderModified"
  ELSE IF Diff(before, after) \ {BootNext} # {} THEN "ForeignChanges"
  ELSE IF after[BootNext] = Absent THEN "BootNextNotSet"
  ELSE "Ok"

VerifyOnlyBootNextChanged(before, after, expected) ==
  IF ~BootOrderUnchanged(before, after) THEN "BootOrderModified"
  ELSE IF Diff(before, after) \ {BootNext} # {} THEN "ForeignChanges"
  ELSE IF after[BootNext] = Absent THEN "BootNextNotSet"
  ELSE IF after[BootNext] \in Garbage THEN "BootNextMalformed"
  ELSE IF after[BootNext] # expected THEN "BootNextWrongValue"
  ELSE "Ok"

\* How many times id stands in order.
Multiplicity(id, order) == Cardinality({k \in 1..Len(order) : order[k] = id})

\* MUTANT: compared as sets, so that repeated identifiers may be lost.
SameIdsAsSets(old, new) == \A id \in BootId : Occurs(id, old) <=> Occurs(id, new)

\* Both lists are equal once sorted.
SameIds(old, new) ==
  \A id \in BootId : Multiplicity(id, old) = Multiplicity(id, new)

VerifyOnlyBootOrderReordered(before, after, expectedFirst) ==
  IF ~HasBootOrder(before) \/ ~HasBootOrder(after) THEN "BootOrderUnreadable"
  ELSE IF ~(Len(after[BootOrder]) > 0 /\ after[BootOrder][1] = expectedFirst)
    THEN "DefaultSystemNotApplied"
  ELSE IF ~SameIds(before[BootOrder], after[BootOrder])
    THEN "BootOrderContentChanged"
  ELSE IF Diff(before, after) \ {BootOrder} # {} THEN "ForeignChanges"
  ELSE "Ok"

=============================================================================
