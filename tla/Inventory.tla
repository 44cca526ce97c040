------------------------------ MODULE Inventory ------------------------------
(***************************************************************************)
(* The inventory of the disks (storage.rs on Linux and on Windows) while   *)
(* disks come and go, and the two lists that detect.rs and media.rs make   *)
(* of it: the entries of the firmware with their availability, and the     *)
(* media that no entry names.                                              *)
(*                                                                         *)
(* Linux: the names of the disks and of their partitions come from sysfs,  *)
(* which the kernel keeps true; the GUIDs come from two directories of     *)
(* links that udev maintains, one link after another, when it gets to it.  *)
(* Windows: two queries, one after the other.  Both join what they read by *)
(* the name of the disk, which another disk may have taken meanwhile.      *)
(* Reading one directory, one disk or one query is one step.               *)
(*                                                                         *)
(* On a machine without UEFI there are no entries to read: detect returns  *)
(* the disks, and both lists are empty.  A detection whose mode or entries *)
(* cannot be read returns nothing at all.                                  *)
(***************************************************************************)
EXTENDS Detect

CONSTANTS
  Slot,      \* names of disks: sda, sdb, ... or disk numbers
  HotSlot,   \* those whose disk may change
  Drive,     \* physical disks
  NoDrive,   \* no disk in a slot
  DriveOf,   \* the disk of each GPT partition
  NumberOf,  \* its number on the disk
  Esp,       \* the EFI system partitions
  MaxMoves   \* bound on the disks that come and go

ASSUME DriveAssumption ==
  /\ HotSlot \subseteq Slot /\ NoDrive \notin Drive /\ Slot \cap Partition = {}
  /\ DriveOf \in [Partition -> Drive] /\ NumberOf \in [Partition -> Nat]
  /\ Esp \subseteq Partition /\ MaxMoves \in Nat

\* The number of a partition is its place in the table of its disk.
ASSUME NumberAssumption ==
  \A p, q \in Partition :
    DriveOf[p] = DriveOf[q] /\ NumberOf[p] = NumberOf[q] => p = q

VARIABLES
  system,     \* "linux" or "windows"
  mode,       \* "uefi" or "legacy"
  directories,  \* the directories of links that exist on this system
  attached,   \* the disk in each slot
  links,      \* the links of each directory, from a partition to a slot
  listing,    \* what detect does next, "done" or, if it fails, "failed"
  guids,      \* the links it has read
  types,
  names,      \* the disks it has listed, on Linux those it has yet to read
  devices,    \* what it returns, nothing if it fails
  options,    \* the entries of the firmware, read afterwards
  prefs,      \* the preferences that are on
  \* --- bound and history
  moves,
  disturbed,  \* a disk or a link has changed since the listing began
  held        \* the disks that each slot has held

inventoryVars == <<system, mode, directories, attached, links, listing, guids,
                   types, names, devices, options, prefs, moves, disturbed, held>>

chosen == <<system, mode, directories, options, prefs>>

machine == <<attached, links, moves, disturbed, held>>

-----------------------------------------------------------------------------
(* The machine                                                             *)

Running == listing # "idle"

Ended == listing \in {"done", "failed"}

PartitionsIn(s) == {p \in Partition : DriveOf[p] = attached[s]}

\* The links of a directory, once udev has caught up with the kernel.
TrueLinks == UNION {PartitionsIn(s) \X {s} : s \in Slot}

\* A disk is removed from a slot, or plugged into an empty one.
PlugDrive ==
  /\ moves < MaxMoves
  /\ ~Ended
  /\ \E s \in HotSlot, d \in Drive \cup {NoDrive} :
       /\ (attached[s] = NoDrive) # (d = NoDrive)
       /\ \A other \in Slot : d # NoDrive => attached[other] # d
       /\ attached' = [attached EXCEPT ![s] = d]
       /\ held' = [held EXCEPT ![s] = @ \cup ({d} \ {NoDrive})]
  /\ moves' = moves + 1
  /\ disturbed' = (disturbed \/ Running)
  /\ UNCHANGED <<chosen, links, listing, guids, types, names, devices>>

\* udev puts one link right.
UdevUpdates ==
  /\ ~Ended
  /\ \E k \in directories, p \in Partition :
       LET right == (links[k] \ ({p} \X Slot)) \cup {l \in TrueLinks : l[1] = p}
       IN /\ links[k] # right
          /\ links' = [links EXCEPT ![k] = right]
  /\ disturbed' = (disturbed \/ Running)
  /\ UNCHANGED <<chosen, attached, listing, guids, types, names, devices,
                 moves, held>>

-----------------------------------------------------------------------------
(* list_devices                                                            *)

\* partition_guids, partition_types: a map from the name of a partition to its
\* link; if two links lead to the same name, either may be the one that stays.
Readings(k) ==
  LET sameName(l, m) == l[2] = m[2] /\ NumberOf[l[1]] = NumberOf[m[1]]
  IN {r \in SUBSET links[k] :
        /\ \A l, m \in r : sameName(l, m) => l = m
        /\ \A l \in links[k] : \E m \in r : sameName(l, m)}

\* Linux: the directory of the disks is opened.
OpenDirectory ==
  /\ listing = "idle" /\ system = "linux"
  /\ listing' \in {"guids", "listed"}
  /\ UNCHANGED <<chosen, machine, guids, types, names, devices>>

ReadGuids ==
  /\ listing = "guids"
  /\ guids' \in Readings("guid")
  /\ listing' = "types"
  /\ UNCHANGED <<chosen, machine, types, names, devices>>

ReadTypes ==
  /\ listing = "types"
  /\ types' \in Readings("type")
  /\ listing' = "names"
  /\ UNCHANGED <<chosen, machine, guids, names, devices>>

\* MUTANT: an empty slot is listed like a disk.
EverySlot == {<<s, attached[s]>> : s \in Slot}

\* The disks there are; on Linux only the names are read now.
Disks == {<<s, attached[s]>> : s \in {t \in Slot : attached[t] # NoDrive}}

ReadNames ==
  /\ listing = "names"
  /\ names' = Disks
  /\ listing' = "devices"
  /\ UNCHANGED <<chosen, machine, guids, types, devices>>

\* MUTANT: the GUID of a partition is looked up by its number alone.
JoinedByNumber(read, s) ==
  {p \in Partition : \E q \in PartitionsIn(s), t \in Slot :
     NumberOf[p] = NumberOf[q] /\ <<p, t>> \in read}

\* build_partitions: the partitions of sysfs, named by the links read before.
Joined(read, s) ==
  {p \in Partition : \E q \in PartitionsIn(s) :
     NumberOf[p] = NumberOf[q] /\ <<p, s>> \in read}

\* build_device: a disk that has gone meanwhile has neither model nor
\* partitions.
ReadDevice ==
  /\ listing = "devices"
  /\ \E name \in names :
       LET s == name[1]
       IN /\ names' = names \ {name}
          /\ devices' = devices \cup
               {[slot |-> s, drive |-> attached[s], guids |-> Joined(guids, s),
                 esp |-> Joined(types, s) \cap Esp # {}]}
  /\ UNCHANGED <<chosen, machine, listing, guids, types>>

AllRead ==
  /\ listing = "devices"
  /\ names = {}
  /\ listing' = "listed"
  /\ UNCHANGED <<chosen, machine, guids, types, names, devices>>

\* Windows: the query MSFT_Disk.
QueryDisks ==
  /\ listing = "idle" /\ system = "windows"
  /\ \/ listing' = "listed" /\ names' = names
     \/ /\ listing' = "partitions"
        /\ names' = Disks
  /\ UNCHANGED <<chosen, machine, guids, types, devices>>

\* The query MSFT_Partition, and build_device: the partitions of a disk that is
\* not GPT are dropped.
QueryPartitions ==
  /\ listing = "partitions"
  /\ \/ devices' = {}
     \/ devices' =
          {LET gpt == \E p \in Partition : DriveOf[p] = name[2]
               found == IF gpt THEN PartitionsIn(name[1]) ELSE {}
           IN [slot |-> name[1], drive |-> name[2], guids |-> found,
               esp |-> found \cap Esp # {}] : name \in names}
  /\ listing' = "listed"
  /\ UNCHANGED <<chosen, machine, guids, types, names>>

\* detect reads the firmware once the disks are listed, or could not be.
ReadEntries ==
  /\ listing = "listed" /\ mode = "uefi"
  /\ options' \in SUBSET LoadOption
  /\ prefs' \in SUBSET {"show_firmware_entries", "show_unavailable_entries"}
  /\ listing' = "done"
  /\ UNCHANGED <<system, mode, directories, machine, guids, types, names, devices>>

\* Without UEFI the disks are all there is.
LegacyBios ==
  /\ listing = "listed" /\ mode = "legacy"
  /\ listing' = "done"
  /\ UNCHANGED <<chosen, machine, guids, types, names, devices>>

\* Windows cannot tell the mode, or the entries of the firmware cannot be read.
DetectFails ==
  /\ \/ listing = "idle" /\ system = "windows"
     \/ listing = "listed" /\ mode = "uefi"
  /\ listing' = "failed"
  /\ UNCHANGED <<chosen, machine, guids, types, names, devices>>

-----------------------------------------------------------------------------
(* The two lists                                                           *)

\* has_partition_guid, for any device.  A failure gives an empty inventory, and
\* the name of a disk keeps the inventory from being empty.
Inventoried == UNION {d.guids \cup {d.slot} : d \in devices}

\* MUTANT: whatever cannot be selected is hidden.
SelectableOnly(o) ==
  /\ o.internal => "show_firmware_entries" \in prefs
  /\ ~Selectable(o, Inventoried) => "show_unavailable_entries" \in prefs

\* visible_entries: firmware utilities and entries whose disk is missing are
\* shown according to the preferences, every other entry always.
Visible(o) ==
  /\ o.internal => "show_firmware_entries" \in prefs
  /\ Availability(o, Inventoried) = "DeviceMissing" =>
       "show_unavailable_entries" \in prefs

\* MUTANT: an inactive entry does not count.
ListedByActive(d) ==
  \E o \in options : PartitionGuidKnown(o) /\ o.active /\ o.part \in d.guids

\* already_listed: an entry names one of the partitions of the disk.
AlreadyListed(d) == \E o \in options : PartitionGuidKnown(o) /\ o.part \in d.guids

\* find_unlisted_media, which is called for a UEFI machine only.
UnlistedMedia == {d \in devices : mode = "uefi" /\ d.esp /\ ~AlreadyListed(d)}

-----------------------------------------------------------------------------
(* Specification                                                           *)

\* The machine has been running: udev knows the disks, and the links of a
\* system that has no such directory are never read.
InventoryInit ==
  /\ system \in {"linux", "windows"} /\ mode \in {"uefi", "legacy"}
  /\ directories \in SUBSET {"guid", "type"}
  /\ attached \in [Slot -> Drive \cup {NoDrive}]
  /\ \A s, t \in Slot : s # t /\ attached[s] # NoDrive => attached[s] # attached[t]
  /\ links = [k \in {"guid", "type"} |-> IF k \in directories THEN TrueLinks ELSE {}]
  /\ listing = "idle"
  /\ guids = {} /\ types = {} /\ names = {} /\ devices = {}
  /\ options = {} /\ prefs = {}
  /\ moves = 0 /\ disturbed = FALSE
  /\ held = [s \in Slot |-> {attached[s]} \ {NoDrive}]

InventoryNext ==
  \/ PlugDrive \/ UdevUpdates
  \/ OpenDirectory \/ ReadGuids \/ ReadTypes \/ ReadNames \/ ReadDevice \/ AllRead
  \/ QueryDisks \/ QueryPartitions
  \/ ReadEntries \/ LegacyBios \/ DetectFails

InventorySpec == InventoryInit /\ [][InventoryNext]_inventoryVars

-----------------------------------------------------------------------------
(* Properties                                                              *)

Device == [slot : Slot, drive : Drive \cup {NoDrive}, guids : SUBSET Partition,
           esp : BOOLEAN]

InventoryTypeOK ==
  /\ options \subseteq LoadOption
  /\ attached \in [Slot -> Drive \cup {NoDrive}]
  /\ links \in [{"guid", "type"} -> SUBSET (Partition \X Slot)]
  /\ listing \in {"idle", "guids", "types", "names", "devices", "partitions",
                  "listed", "done", "failed"}
  /\ guids \subseteq Partition \X Slot /\ types \subseteq Partition \X Slot
  /\ names \subseteq Slot \X Drive
  /\ devices \subseteq Device
  /\ moves \in 0..MaxMoves /\ disturbed \in BOOLEAN
  /\ held \in [Slot -> SUBSET Drive]

\* A detection of a UEFI machine that found disks, with nothing changing under it,
\* on a system that has what it needs and has caught up.
Quiet ==
  /\ listing = "done" /\ mode = "uefi" /\ devices # {} /\ ~disturbed
  /\ system = "linux" => \A k \in {"guid", "type"} :
                           k \in directories /\ links[k] = TrueLinks

IsAttached(d) == \E s \in Slot : attached[s] = d

Bootable(d) == \E p \in Esp : DriveOf[p] = d

Names(o, d) == PartitionGuidKnown(o) /\ DriveOf[o.part] = d

NamedInternally(d) == \E o \in options : o.internal /\ Names(o, d)

\* storage.rs, detect.rs build_entry and media.rs find_unlisted_media: after a
\* quiet detection an active entry is said to miss its disk exactly if the disk
\* is not there, and the media shown without an entry are exactly the disks with
\* a system partition that no entry names.
QuietListingIsTrue ==
  Quiet =>
    /\ \A o \in options, d \in Drive :
         ~o.internal /\ o.active /\ Names(o, d) =>
           (Availability(o, Inventoried) = "DeviceMissing" <=> ~IsAttached(d))
    /\ {m.drive : m \in UnlistedMedia} =
         {d \in Drive : /\ IsAttached(d) /\ Bootable(d)
                        /\ \A o \in options : ~Names(o, d)}

\* detect.rs visible_entries and media.rs: after a quiet detection every attached
\* disk with a system partition has a row in the window, whatever the
\* preferences, unless an entry internal to the firmware names the disk: it may
\* be hidden, and still counts as a row.
EveryBootableDiskShown ==
  Quiet => \A d \in Drive :
    IsAttached(d) /\ Bootable(d) /\ ~NamedInternally(d) =>
      \/ \E m \in UnlistedMedia : m.drive = d
      \/ \E o \in options : Names(o, d) /\ Visible(o)

\* storage.rs build_partitions and Windows build_device: disks may come and go
\* and links be late during the listing, an entry is never attached to another
\* disk than its own, unless two disks have had the same name.
EntryGetsItsOwnDisk ==
  (\A s \in Slot : \A d, e \in held[s] : d = e) =>
    \A device \in devices : \A p \in device.guids : device.drive = DriveOf[p]

=============================================================================
