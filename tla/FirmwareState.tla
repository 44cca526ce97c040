---------------------------- MODULE FirmwareState ----------------------------
(***************************************************************************)
(* A snapshot of the boot variables of a UEFI firmware, as model.rs keeps  *)
(* it, and the pieces of a decoded load option that decide anything.       *)
(*                                                                         *)
(* The code's BTreeMap from names to raw bytes is a total function on Var: *)
(* an absent name maps to Absent.  Bytes are abstracted to what the code   *)
(* tells apart: a decodable BootOrder is the sequence of its identifiers,  *)
(* a well-formed BootNext is its identifier, a parsable Boot#### is a load *)
(* option, and byte strings that do not decode are distinct members of     *)
(* Garbage (BootOrder, BootNext) and Unparsable (Boot####).                *)
(***************************************************************************)
EXTENDS Naturals, Sequences, FiniteSets

CONSTANTS
  BootId,       \* identifiers Boot####, 16-bit numbers in the code
  LoadOption,   \* contents of an entry that LoadOption::parse accepts
  Unparsable,   \* contents of an entry that it rejects
  Garbage,      \* raw values of BootOrder or BootNext that do not decode
  Partition,    \* GPT partition GUIDs
  Absent,       \* the value of a variable that does not exist
  BootOrder,    \* the names of the two global variables; BootCurrent, which
  BootNext      \* nothing writes during a session, is left out

ASSUME BootIdAssumption == BootId \subseteq Nat

ASSUME NameAssumption ==
  /\ BootOrder \notin BootId
  /\ BootNext \notin BootId
  /\ BootOrder # BootNext

ASSUME AbsentAssumption ==
  Absent \notin BootId \cup Seq(BootId) \cup Garbage \cup LoadOption \cup Unparsable

ASSUME GarbageAssumption == Garbage \cap (BootId \cup Seq(BootId)) = {}

ASSUME UnparsableAssumption == Unparsable \cap LoadOption = {}

(* A load option is the record [scheme, part, path, active, internal]:     *)
(* the scheme of its stable identifier, the partition it points at (for    *)
(* the two schemes that name none, an arbitrary tag), its lower-cased file *)
(* path or description, the ACTIVE attribute, and whether its device path  *)
(* stays inside the firmware.                                              *)
ASSUME LoadOptionAssumption ==
  \A o \in LoadOption : /\ o.active \in BOOLEAN
                        /\ o.internal \in BOOLEAN
                        /\ o.scheme = "gpt" => o.part \in Partition

Var == BootId \cup {BootOrder, BootNext}

OrderValue == Seq(BootId) \cup Garbage \cup {Absent}

NextValue == BootId \cup Garbage \cup {Absent}

EntryValue == LoadOption \cup Unparsable \cup {Absent}

\* s is a snapshot: FirmwareState { variables }.
IsState(s) ==
  /\ s = [v \in Var |-> s[v]]
  /\ s[BootOrder] \in OrderValue
  /\ s[BootNext] \in NextValue
  /\ \A i \in BootId : s[i] \in EntryValue

-----------------------------------------------------------------------------
(* Accessors                                                               *)

\* boot_order() is Some: the variable exists and has an even length.
HasBootOrder(s) == s[BootOrder] \notin Garbage \cup {Absent}

BootOrderOf(s) == IF HasBootOrder(s) THEN s[BootOrder] ELSE << >>

Occurs(id, order) == \E k \in 1..Len(order) : order[k] = id

ContainsEntry(s, id) == s[id] # Absent

\* The decoded entries: present, and accepted by LoadOption::parse.
Entries(s) == {i \in BootId : s[i] \in LoadOption}

PartitionGuidKnown(o) == o.scheme = "gpt"

\* stable_id_for: a hash of the components below, taken to be injective.  It
\* depends neither on the entry's number nor on its ACTIVE attribute.
StableId(o) == <<o.scheme, o.part, o.path>>

=============================================================================
