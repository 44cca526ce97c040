------------------------------- MODULE MCParts -------------------------------
(***************************************************************************)
(* Small instances of the parts.                                           *)
(*   - guard: three identifiers, lists that are empty or repeat an         *)
(*     identifier, and values that do not decode;                          *)
(*   - parser: variables and lists that end inside a header, inside a node *)
(*     or exactly where they should, nodes below, at and above the length  *)
(*     of their form;                                                      *)
(*   - inventory: a disk with two partitions, two sticks, two slots, one   *)
(*     of which changes hands, and entries that are active, inactive and   *)
(*     internal to the firmware;                                           *)
(*   - reboot: every machine, and a shutdown faster than, as fast as and   *)
(*     slower than the observation.                                        *)
(***************************************************************************)
EXTENDS Parts

CONSTANTS disk, stick1, stick2, p1, p2, q1, q2, windows, debian, junk, odd, a, b

Entry(p, path, isActive) ==
  [scheme |-> "gpt", part |-> p, path |-> path, active |-> isActive,
   internal |-> FALSE]

Windows == Entry(p1, windows, TRUE)

Setup == [scheme |-> "desc", part |-> windows, path |-> windows,
          active |-> TRUE, internal |-> TRUE]

MCLoadOption ==
  {Windows, Entry(q1, debian, TRUE), Entry(q2, debian, FALSE), Setup}

MCOrderValues == {<< >>, <<0>>, <<0, 1>>, <<1, 0>>, <<1, 0, 1>>, <<0, 0, 1>>,
                  <<2, 0, 1>>, odd}

MCNextValues == {0, 1, odd, Absent}

MCEntryValues == {Windows, junk}

MCDriveOf == [p \in Partition |->
                CASE p \in {p1, p2} -> disk [] p = q1 -> stick1 [] p = q2 -> stick2]

MCNumberOf == [p \in Partition |-> IF p = p2 THEN 2 ELSE 1]
=============================================================================
