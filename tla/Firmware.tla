------------------------------ MODULE Firmware ------------------------------
(***************************************************************************)
(* What the privileged helper asks of the firmware, and what a firmware    *)
(* may do with it.  The behaviours are those mock.rs simulates, because    *)
(* real firmwares have been seen to do them: a write may be obeyed,        *)
(* silently ignored, sent to another entry, or come with a side effect.    *)
(* (A refused write changes nothing: it is an action of the helper.)       *)
(***************************************************************************)
EXTENDS FirmwareState

\* The positions of order that do not hold id.
Others(order, id) == {k \in 1..Len(order) : order[k] # id}

\* order.filter(x != id): the j-th kept element is the one at the position of
\* Others that has j - 1 positions of Others before it.
Without(order, id) ==
  [j \in 1..Cardinality(Others(order, id)) |->
     order[CHOOSE k \in Others(order, id) :
             Cardinality({l \in Others(order, id) : l <= k}) = j]]

\* MUTANT: the filter that skips the target is forgotten.
FrontWithoutFilter(order, id) == <<id>> \o order

\* write_default_system's new list: id first, the others in their order.
MoveToFront(order, id) == <<id>> \o Without(order, id)

\* The states a firmware that behaves as b may be in after value was written
\* to variable v in state s.
FirmwareEffects(s, v, value, b) ==
  LET written == [s EXCEPT ![v] = value]
  IN  CASE b = "Correct" -> {written}
        [] b = "SilentlyIgnore" -> {s}
        [] b = "WriteWrongTarget" /\ v = BootNext ->
             {[s EXCEPT ![BootNext] = i] : i \in BootId}
        [] b = "AlsoReorderBootOrder" /\ v = BootNext /\ HasBootOrder(s) ->
             {[written EXCEPT ![BootOrder] = MoveToFront(s[BootOrder], value)]}
        [] b = "AlsoDeleteEntry" -> {[written EXCEPT ![i] = Absent] : i \in BootId}
        [] OTHER -> {written}

=============================================================================
