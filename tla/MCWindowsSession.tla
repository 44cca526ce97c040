--------------------------- MODULE MCWindowsSession ---------------------------
(***************************************************************************)
(* Small instances of WindowsSession: two entries, two systems on two      *)
(* partitions; the probed identifiers are all, or all but one.             *)
(***************************************************************************)
EXTENDS WindowsSession, TLC

CONSTANTS disk, stick, windows, debian, junk, odd

Windows == [scheme |-> "gpt", part |-> disk, path |-> windows,
            active |-> TRUE, internal |-> FALSE]

Debian == [scheme |-> "gpt", part |-> stick, path |-> debian,
           active |-> TRUE, internal |-> FALSE]

MCLoadOption == {Windows, Debian}

Partitions == {disk, stick}

\* Both disks are there, one is unplugged, or list_devices fails.
MCInventories == {Partitions, {disk}, {}}

MCBothDisks == {Partitions}

State(order) ==
  [v \in Var |-> CASE v = BootOrder -> order
                   [] v = BootNext -> Absent
                   [] v = 0 -> Windows
                   [] v = 1 -> Debian]

\* BootOrder names both entries.
MCListed == {State(<<0, 1>>)}

MCOrderEdits == {<<0>>, odd}

AllBehaviours == {"Correct", "SilentlyIgnore", "WriteWrongTarget",
                  "AlsoReorderBootOrder", "AlsoDeleteEntry"}

\* Helper processes are interchangeable: no definition orders or chooses them.
HelperSymmetry == Permutations(Helper)

=============================================================================
