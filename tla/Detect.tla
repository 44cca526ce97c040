------------------------------- MODULE Detect -------------------------------
(***************************************************************************)
(* detect.rs and the lookups of select.rs: the entry list the code builds  *)
(* from a snapshot and the inventory of devices, and the search of an      *)
(* entry by its stable identifier in that list.                            *)
(*                                                                         *)
(* The list is kept as a set of identifiers and the order in which it is   *)
(* traversed; names, icons, labels and warnings are left out.              *)
(***************************************************************************)
EXTENDS FirmwareState

\* ordered_ids: BootOrder first, each identifier at its first occurrence, then
\* the remaining entries in numeric order.
ListedBefore(s, i, j) ==
  LET at(id) == {k \in 1..Len(BootOrderOf(s)) : BootOrderOf(s)[k] = id}
  IN  \/ \E k \in at(i) : \A l \in at(j) : k < l
      \/ at(i) = {} /\ at(j) = {} /\ i < j

\* The availability build_entry gives to an entry.  An empty inventory means
\* that the devices could not be listed, so nothing is declared missing.
Availability(o, devices) ==
  IF o.internal THEN "NotSelectable"
  ELSE IF ~o.active THEN "Inactive"
  ELSE IF devices # {} /\ PartitionGuidKnown(o) /\ o.part \notin devices
    THEN "DeviceMissing"
  ELSE "Available"

Selectable(o, devices) == Availability(o, devices) = "Available"

\* The BackendError check_selectable returns for an entry it refuses.
RefusalOf(o, devices) ==
  IF Availability(o, devices) = "DeviceMissing" THEN "DeviceMissing"
  ELSE "NotSelectable"

Matches(s, sid) == {i \in Entries(s) : StableId(s[i]) = sid}

\* i is what entries.iter().find(|e| e.stable_id == sid) yields.
Found(s, sid, i) ==
  /\ i \in Matches(s, sid)
  /\ \A j \in Matches(s, sid) \ {i} : ListedBefore(s, i, j)

=============================================================================
