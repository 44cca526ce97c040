--------------------------- MODULE MCBootSelection ---------------------------
(***************************************************************************)
(* Small instances of BootSelection: two or three entries, two operating   *)
(* systems on two partitions, one of them with an inactive duplicate.      *)
(***************************************************************************)
EXTENDS BootSelection, TLC

CONSTANTS disk, stick, windows, debian, junk, odd

\* Helper processes are interchangeable: no definition orders or chooses them.
HelperSymmetry == Permutations(Helper)

Windows == [scheme |-> "gpt", part |-> disk, path |-> windows,
            active |-> TRUE, internal |-> FALSE]

\* The same loader, deactivated: it has the same stable identifier.
WindowsOff == [Windows EXCEPT !.active = FALSE]

Debian == [scheme |-> "gpt", part |-> stick, path |-> debian,
           active |-> TRUE, internal |-> FALSE]

MCLoadOption == {Windows, WindowsOff, Debian}

\* Without the duplicate.
MCTwoOptions == {Windows, Debian}

Partitions == {disk, stick}

State(order, next, entries) ==
  [v \in Var |-> IF v = BootOrder THEN order
                 ELSE IF v = BootNext THEN next
                 ELSE IF v \in DOMAIN entries THEN entries[v] ELSE Absent]

TwoSystems == (0 :> Windows @@ 1 :> Debian)

\* Two entries and no BootNext, as most machines start.
MCPlain == {State(<<0, 1>>, Absent, TwoSystems)}

\* An inactive duplicate listed first, and a BootNext left by another tool; a
\* dangling reference.
MCOdd == {State(<<1, 0>>, 1, (0 :> Windows @@ 1 :> WindowsOff)),
          State(<<1, 0>>, Absent, (0 :> Windows))}

MCPlainOrOdd == MCPlain \cup MCOdd

\* A read that misses nothing, BootOrder, or the entry of the second system.
MCMissing == {{}, {BootOrder}, {1}}

MCNothingMissing == {{}}

AllBehaviours == {"Correct", "SilentlyIgnore", "WriteWrongTarget",
                  "AlsoReorderBootOrder", "AlsoDeleteEntry"}

\* One system, listed as two entries.
MCOneOption == {Windows}

\* BootOrder with a dangling reference and an entry listed twice.
MCOrders == {State(<<2, 1, 0, 1>>, Absent, (0 :> Windows @@ 1 :> Windows))}

\* A write to BootOrder is obeyed, ignored, or deletes an entry as well.
OrderBehaviours == {"Correct", "SilentlyIgnore", "AlsoDeleteEntry"}

\* What other tools make of BootOrder: reversed, shortened, undecodable.
MCOrderEdits == {<<1, 0>>, <<0>>, odd}
=============================================================================
