----------------------------- MODULE PartsProofs -----------------------------
(***************************************************************************)
(* The properties of Power and of Inventory, for any delays, any disks,    *)
(* any names and any number of changes.                                    *)
(***************************************************************************)
EXTENDS Inventory, Power, TLAPS

-----------------------------------------------------------------------------
(* Power                                                                   *)

PowerTypeOK ==
  /\ phase \in {"next", "wait", "stderr", "observe", "failed"}
  /\ ticks \in Nat
  /\ left \in Nat \cup {Never} /\ due \in Nat \cup {Never}

\* Once a method has reported success on a machine that goes down, the ticks
\* of the observation and those of the shutdown pass together.
Watched ==
  due # Never =>
    /\ left # Never /\ left <= due
    /\ phase # "observe" => due >= ObservationDelay
    /\ phase = "observe" => left + ObservationDelay <= due + ticks

PowerInv == PowerTypeOK /\ Watched

\* The invariant holds when a reboot is asked for.
LEMMA PowerInitInv == PowerInit => PowerInv
  BY DEF PowerInit, PowerInv, PowerTypeOK, Watched

\* Every step of the reboot preserves the invariant.
LEMMA PowerStep == PowerInv /\ [PowerNext]_powerVars => PowerInv'
<1> SUFFICES ASSUME PowerInv, [PowerNext]_powerVars PROVE PowerInv'
  OBVIOUS
<1> USE PowerAssumption DEF PowerInv, PowerTypeOK, Watched
<1>1. CASE Spawn
  <2>1. Delay(Head(todo)) \in Nat
    BY DEF Delay
  <2> QED
    BY <1>1, <2>1 DEF Spawn
<1>2. CASE SpawnFails
  BY <1>2 DEF SpawnFails, GiveUp
<1>3. CASE Succeeded
  BY <1>3 DEF Succeeded, Watch
<1>4. CASE Refused
  <2>1. left' = left /\ due' = due /\ phase' = "stderr" /\ ticks' = 0 /\ phase = "wait"
    BY <1>4 DEF Refused
  <2> QED
    BY <2>1
<1>5. CASE Killed
  BY <1>5 DEF Killed, GiveUp
<1>6. CASE NoEffect \/ StderrEnds
  BY <1>6 DEF NoEffect, StderrEnds, GiveUp
<1>7. CASE AllRefused \/ Authenticated
  BY <1>7 DEF AllRefused, Authenticated
<1>8. CASE GoesDown
  BY <1>8 DEF GoesDown
<1>9. CASE Tick
  BY <1>9 DEF Tick, TicksLeft
<1>10. CASE UNCHANGED powerVars
  BY <1>10 DEF powerVars
<1> QED
  BY <1>1, <1>2, <1>3, <1>4, <1>5, <1>6, <1>7, <1>8, <1>9, <1>10 DEF PowerNext

\* linux/power.rs do_reboot and machine_part_bien: on any machine, and for any
\* delays, a method that reported success while the machine was going down in
\* time is the last one tried, and no failure is reported after it.
THEOREM PowerLastMethod ==
  PowerInit /\ [][PowerNext]_powerVars => []NoMethodAfterOneThatWorks
<1>1. PowerInv => NoMethodAfterOneThatWorks
  BY DEF PowerInv, Watched, NoMethodAfterOneThatWorks
<1> QED
  BY <1>1, PowerInitInv, PowerStep, PTL

\* Every method that is left, or none of it.
Awaits(list, m) == \E k \in DOMAIN list : list[k] = m

Cost(m) == Delay(m) + ObservationDelay

Due(list, m) == IF Awaits(list, m) THEN Cost(m) ELSE 0

\* The ticks that the methods left can take.
Budget(list) ==
  Due(list, "systemctl") + Due(list, "dbus-send") + Due(list, "shutdown")
    + Due(list, "pkexec")

NoRepeat(list) == \A i, j \in DOMAIN list : list[i] = list[j] => i = j

MethodList == {list \in Seq(Command) : NoRepeat(list)}

\* What has passed, what is left of the phase and what the methods left can
\* take make no more than the methods of the machine can.
InTime ==
  /\ waited \in Nat /\ ticks \in Nat
  /\ todo \in MethodList
  /\ phase \in {"next", "wait", "stderr", "observe", "failed"}
  /\ phase \in {"wait", "stderr", "observe"} => todo # << >>
  /\ CASE phase \in {"wait", "stderr"} ->
              waited + ticks + Budget(todo) <= Budget(Methods) + Delay(Head(todo))
       [] phase = "observe" ->
              waited + ticks + Budget(todo) <= Budget(Methods) + Cost(Head(todo))
       [] OTHER -> waited + Budget(todo) <= Budget(Methods)

\* Deadlines are numbers.
LEMMA DelayType ==
  /\ ObservationDelay \in Nat
  /\ \A m : Delay(m) \in Nat /\ Cost(m) \in Nat /\ Cost(m) >= Delay(m)
  /\ \A list : Budget(list) \in Nat
<1>1. ObservationDelay \in Nat /\ \A m : Delay(m) \in Nat
  BY PowerAssumption DEF Delay
<1>2. \A m : Cost(m) \in Nat /\ Cost(m) >= Delay(m)
  BY <1>1 DEF Cost
<1>3. \A list, m : Due(list, m) \in Nat
  BY <1>2 DEF Due
<1> QED
  BY <1>1, <1>2, <1>3 DEF Budget

\* A method more at the end of the list.
LEMMA IfUsableAdds ==
  ASSUME NEW list \in MethodList, NEW m \in Command, ~Awaits(list, m)
  PROVE  /\ list \o IfUsable(m) \in MethodList
         /\ \A n : Awaits(list \o IfUsable(m), n) <=>
              Awaits(list, n) \/ (n = m /\ Usable(m))
<1>1. list \in Seq(Command) /\ NoRepeat(list)
  BY DEF MethodList
<1>2. CASE Usable(m)
  <2> DEFINE more == list \o <<m>>
  <2>1. list \o IfUsable(m) = more
    BY <1>2 DEF IfUsable
  <2>2. /\ more \in Seq(Command) /\ DOMAIN more = 1..(Len(list) + 1)
        /\ \A i \in DOMAIN list : more[i] = list[i]
        /\ more[Len(list) + 1] = m
        /\ DOMAIN list = 1..Len(list) /\ Len(list) \in Nat
    BY <1>1
  <2> HIDE DEF more
  <2>3. NoRepeat(more)
    BY <1>1, <2>2 DEF NoRepeat, Awaits
  <2>4. \A n : Awaits(more, n) <=> Awaits(list, n) \/ n = m
    BY <2>2 DEF Awaits
  <2> QED
    BY <1>2, <2>1, <2>2, <2>3, <2>4 DEF MethodList
<1>3. CASE ~Usable(m)
  <2>1. list \o IfUsable(m) = list
    BY <1>1, <1>3 DEF IfUsable
  <2> QED
    BY <1>3, <2>1
<1> QED
  BY <1>2, <1>3

\* The list of the methods holds the usable ones, once each.
LEMMA MethodsListed ==
  Methods \in MethodList /\ \A m \in Command : Awaits(Methods, m) <=> Usable(m)
<1> DEFINE one == << >> \o IfUsable("systemctl")
           two == one \o IfUsable("dbus-send")
           three == two \o IfUsable("shutdown")
           four == three \o IfUsable("pkexec")
<1>1. << >> \in MethodList /\ \A m : ~Awaits(<< >>, m)
  BY DEF MethodList, NoRepeat, Awaits
<1>2. /\ "systemctl" \in Command /\ "dbus-send" \in Command
      /\ "shutdown" \in Command /\ "pkexec" \in Command
  BY DEF Command
<1> HIDE DEF one, two, three, four
<1>3. one \in MethodList
      /\ \A n : Awaits(one, n) <=> n = "systemctl" /\ Usable("systemctl")
  BY <1>1, <1>2, IfUsableAdds DEF one
<1>4. two \in MethodList
      /\ \A n : Awaits(two, n) <=>
           Awaits(one, n) \/ (n = "dbus-send" /\ Usable("dbus-send"))
  BY <1>2, <1>3, IfUsableAdds DEF two
<1>5. three \in MethodList
      /\ \A n : Awaits(three, n) <=>
           Awaits(two, n) \/ (n = "shutdown" /\ Usable("shutdown"))
  BY <1>2, <1>3, <1>4, IfUsableAdds DEF three
<1>6. four \in MethodList
      /\ \A n : Awaits(four, n) <=>
           Awaits(three, n) \/ (n = "pkexec" /\ Usable("pkexec"))
  BY <1>2, <1>3, <1>4, <1>5, IfUsableAdds DEF four
<1>7. Methods = four
  <2>1. one = IfUsable("systemctl")
    BY DEF IfUsable, one
  <2> QED
    BY <2>1 DEF Methods, two, three, four
<1> QED
  BY <1>3, <1>4, <1>5, <1>6, <1>7 DEF Command

\* A method given up frees the ticks it could take.
LEMMA TailBudget ==
  ASSUME NEW list \in MethodList, list # << >>
  PROVE  /\ Tail(list) \in MethodList
         /\ Head(list) \in Command
         /\ Budget(Tail(list)) + Cost(Head(list)) = Budget(list)
<1>1. list \in Seq(Command) /\ NoRepeat(list)
  BY DEF MethodList
<1>2. /\ Tail(list) \in Seq(Command) /\ Head(list) = list[1]
      /\ Head(list) \in Command
      /\ Len(list) \in Nat /\ Len(list) > 0 /\ DOMAIN list = 1..Len(list)
      /\ DOMAIN Tail(list) = 1..(Len(list) - 1)
      /\ \A i \in 1..(Len(list) - 1) : Tail(list)[i] = list[i + 1]
  BY <1>1
<1>3. NoRepeat(Tail(list))
  BY <1>1, <1>2 DEF NoRepeat
<1>4. \A m : Awaits(Tail(list), m) <=> Awaits(list, m) /\ m # Head(list)
  <2> SUFFICES ASSUME NEW m
               PROVE  Awaits(Tail(list), m) <=> Awaits(list, m) /\ m # Head(list)
    OBVIOUS
  <2>1. ASSUME NEW i \in DOMAIN Tail(list), Tail(list)[i] = m
        PROVE  Awaits(list, m) /\ m # Head(list)
    BY <1>1, <1>2, <2>1 DEF Awaits, NoRepeat
  <2>2. ASSUME NEW i \in DOMAIN list, list[i] = m, m # Head(list)
        PROVE  Awaits(Tail(list), m)
    <3>1. i - 1 \in 1..(Len(list) - 1) /\ Tail(list)[i - 1] = m
      BY <1>2, <2>2
    <3> QED
      BY <1>2, <3>1 DEF Awaits
  <2> QED
    BY <2>1, <2>2 DEF Awaits
<1>5. Awaits(list, Head(list))
  BY <1>2 DEF Awaits
<1>6. \A m : Due(Tail(list), m) = IF m = Head(list) THEN 0 ELSE Due(list, m)
  BY <1>4 DEF Due
<1>7. Due(list, Head(list)) = Cost(Head(list))
  BY <1>5 DEF Due
<1>8. \A m : Due(list, m) \in Nat
  BY DelayType DEF Due
<1>9. Budget(Tail(list)) + Cost(Head(list)) = Budget(list)
  <2>1. Head(list) \in {"systemctl", "dbus-send", "shutdown", "pkexec"}
    BY <1>2 DEF Command
  <2> QED
    BY <1>6, <1>7, <1>8, <2>1 DEF Budget
<1> QED
  BY <1>1, <1>2, <1>3, <1>9 DEF MethodList

\* A method that is given up, when it can be, takes no more than it was allowed.
LEMMA GiveUpInTime ==
  ASSUME InTime, todo # << >>, GiveUp, UNCHANGED <<host, waited>>
  PROVE  InTime'
<1>1. /\ Tail(todo) \in MethodList
      /\ Budget(Tail(todo)) + Cost(Head(todo)) = Budget(todo)
  BY TailBudget DEF InTime
<1>2. waited + Budget(Tail(todo)) <= Budget(Methods)
  BY <1>1, DelayType DEF InTime
<1>3. Methods' = Methods
  BY DEF Methods, IfUsable, Usable
<1>4. Budget(Methods)' = Budget(Methods) /\ Budget(todo)' = Budget(Tail(todo))
  BY <1>3 DEF GiveUp, Budget, Due, Awaits, Cost, Delay
<1> QED
  BY <1>1, <1>2, <1>4 DEF GiveUp, InTime

\* The budget is whole when a reboot is asked for.
LEMMA PowerInitInTime == PowerInit => InTime
<1> SUFFICES ASSUME PowerInit PROVE InTime
  OBVIOUS
<1>1. todo = Methods /\ phase = "next" /\ waited = 0 /\ ticks = 0
  BY DEF PowerInit
<1> QED
  BY <1>1, MethodsListed, DelayType DEF InTime

\* Every step of the reboot stays in time.
LEMMA PowerStepInTime == InTime /\ [PowerNext]_powerVars => InTime'
<1> SUFFICES ASSUME InTime, [PowerNext]_powerVars PROVE InTime'
  OBVIOUS
<1>1. ASSUME UNCHANGED <<host, todo>>
      PROVE  /\ Budget(Methods)' = Budget(Methods) /\ Budget(todo)' = Budget(todo)
             /\ Delay(Head(todo))' = Delay(Head(todo))
             /\ Cost(Head(todo))' = Cost(Head(todo))
  <2>1. Methods' = Methods
    BY <1>1 DEF Methods, IfUsable, Usable
  <2> QED
    BY <1>1, <2>1 DEF Budget, Due, Awaits, Cost, Delay
<1>2. CASE Spawn
  BY <1>1, <1>2, DelayType DEF Spawn, InTime
<1>3. CASE Succeeded
  BY <1>1, <1>3, DelayType DEF Succeeded, Watch, InTime, Cost
<1>4. CASE SpawnFails \/ StderrEnds \/ Killed \/ NoEffect
  BY <1>4, GiveUpInTime DEF SpawnFails, StderrEnds, Killed, NoEffect, InTime
<1>5. CASE AllRefused
  BY <1>1, <1>5 DEF AllRefused, InTime
<1>8. CASE Refused
  BY <1>1, <1>8, DelayType DEF Refused, InTime
<1>6. CASE Authenticated \/ GoesDown \/ UNCHANGED powerVars
  BY <1>1, <1>6 DEF Authenticated, GoesDown, powerVars, InTime
<1>7. CASE Tick
  BY <1>1, <1>7, DelayType DEF Tick, TicksLeft, InTime
<1> QED
  BY <1>2, <1>3, <1>4, <1>5, <1>6, <1>7, <1>8 DEF PowerNext

\* linux/power.rs do_reboot, tenter and machine_part_bien: for any machine and
\* any delays, and whatever the commands and the user do, waiting for commands
\* and watching the machine take no more than the deadlines of the methods there
\* are.  Reading the standard error of a command that failed is not bounded.
THEOREM PowerWaits ==
  PowerInit /\ [][PowerNext]_powerVars => []DeadlinesBoundTheWaits
<1>1. InTime => DeadlinesBoundTheWaits
  <2> SUFFICES ASSUME InTime PROVE DeadlinesBoundTheWaits
    OBVIOUS
  <2>1. waited <= Budget(Methods)
    <3>1. CASE phase \in {"wait", "stderr", "observe"}
      <4>1. Budget(todo) >= Cost(Head(todo))
        BY <3>1, TailBudget, DelayType DEF InTime
      <4> QED
        BY <3>1, <4>1, DelayType DEF InTime
    <3>2. CASE phase \in {"next", "failed"}
      BY <3>2, DelayType DEF InTime
    <3> QED
      BY <3>1, <3>2 DEF InTime
  <2>2. \A m \in Command :
          Due(Methods, m) = IF Usable(m) THEN Delay(m) + ObservationDelay ELSE 0
    BY MethodsListed DEF Due, Cost
  <2> QED
    BY <2>1, <2>2 DEF DeadlinesBoundTheWaits, Budget, Command
<1> QED
  BY <1>1, PowerInitInTime, PowerStepInTime, PTL

-----------------------------------------------------------------------------
(* Inventory                                                               *)

\* A disk that is in a slot, or that a link, a list or a device says is in it,
\* is one that the slot has held.
AttachedWasHeld == \A s \in Slot : attached[s] # NoDrive => attached[s] \in held[s]

WasHeld(pairs) == \A l \in pairs : DriveOf[l[1]] \in held[l[2]]

LinksWereHeld == WasHeld(links["guid"]) /\ WasHeld(links["type"])

ReadingsWereHeld ==
  /\ WasHeld(guids) /\ WasHeld(types)
  /\ \A name \in names : name[2] \in held[name[1]]

DevicesWereHeld ==
  \A device \in devices : \A p \in device.guids :
    DriveOf[p] \in held[device.slot] /\ device.drive \in held[device.slot]

InventoryInv ==
  /\ InventoryTypeOK
  /\ directories \subseteq {"guid", "type"}
  /\ AttachedWasHeld /\ LinksWereHeld /\ ReadingsWereHeld /\ DevicesWereHeld

\* A link leads from a partition to a slot.
LEMMA TrueLinksType ==
  ASSUME AttachedWasHeld
  PROVE  TrueLinks \in SUBSET (Partition \X Slot) /\ WasHeld(TrueLinks)
<1> SUFFICES ASSUME NEW l \in TrueLinks
             PROVE  l \in Partition \X Slot /\ DriveOf[l[1]] \in held[l[2]]
  BY DEF WasHeld
<1>1. PICK s \in Slot : l \in PartitionsIn(s) \X {s}
  BY DEF TrueLinks
<1>2. l[1] \in Partition /\ l[2] = s /\ DriveOf[l[1]] = attached[s]
      /\ l \in Partition \X Slot
  BY <1>1 DEF PartitionsIn
<1>3. attached[s] # NoDrive
  BY <1>2, DriveAssumption
<1> QED
  BY <1>2, <1>3 DEF AttachedWasHeld

\* What is read of a directory of links is a part of it.
LEMMA ReadingsType ==
  ASSUME InventoryTypeOK, LinksWereHeld, NEW k \in {"guid", "type"},
         NEW r \in Readings(k)
  PROVE  r \subseteq Partition \X Slot /\ WasHeld(r)
<1>1. r \subseteq links[k]
  BY DEF Readings
<1>2. links[k] \subseteq Partition \X Slot /\ WasHeld(links[k])
  BY DEF InventoryTypeOK, LinksWereHeld
<1> QED
  BY <1>1, <1>2 DEF WasHeld

\* The invariant holds before the listing begins.
LEMMA InventoryInitInv == InventoryInit => InventoryInv
<1> SUFFICES ASSUME InventoryInit PROVE InventoryInv
  OBVIOUS
<1>1. AttachedWasHeld
  BY DEF InventoryInit, AttachedWasHeld
<1>2. TrueLinks \in SUBSET (Partition \X Slot) /\ WasHeld(TrueLinks)
  BY <1>1, TrueLinksType
<1>3. links \in [{"guid", "type"} -> SUBSET (Partition \X Slot)]
  BY <1>2 DEF InventoryInit
<1>4. LinksWereHeld
  BY <1>2 DEF InventoryInit, LinksWereHeld, WasHeld
<1>5. InventoryTypeOK
  <2>1. attached \in [Slot -> Drive \cup {NoDrive}]
    BY DEF InventoryInit
  <2>2. held \in [Slot -> SUBSET Drive]
    BY <2>1 DEF InventoryInit
  <2>3. moves \in 0..MaxMoves
    BY DriveAssumption DEF InventoryInit
  <2> QED
    BY <1>3, <2>1, <2>2, <2>3 DEF InventoryInit, InventoryTypeOK
<1>6. ReadingsWereHeld /\ DevicesWereHeld
  BY DEF InventoryInit, ReadingsWereHeld, DevicesWereHeld, WasHeld
<1> QED
  BY <1>1, <1>4, <1>5, <1>6 DEF InventoryInit, InventoryInv

\* The machine: what a slot has held, it has held for ever.
LEMMA PlugDriveInv ==
  ASSUME InventoryInv, PlugDrive
  PROVE  InventoryInv'
<1>1. PICK s \in HotSlot, d \in Drive \cup {NoDrive} :
        /\ attached' = [attached EXCEPT ![s] = d]
        /\ held' = [held EXCEPT ![s] = held[s] \cup ({d} \ {NoDrive})]
  BY DEF PlugDrive
<1>2. s \in Slot
  BY DriveAssumption
<1>3. held' \in [Slot -> SUBSET Drive]
  BY <1>1, <1>2 DEF InventoryInv, InventoryTypeOK
<1>4. \A t \in Slot : held[t] \subseteq held'[t]
  BY <1>1, <1>2 DEF InventoryInv, InventoryTypeOK
<1>5. attached' \in [Slot -> Drive \cup {NoDrive}]
  BY <1>1, <1>2 DEF InventoryInv, InventoryTypeOK
<1>6. AttachedWasHeld'
  BY <1>1, <1>2, <1>4 DEF InventoryInv, InventoryTypeOK, AttachedWasHeld
<1>7. InventoryTypeOK'
  BY <1>3, <1>5, DriveAssumption
  DEF InventoryInv, InventoryTypeOK, PlugDrive, chosen
<1>8. \A pairs : pairs \subseteq Partition \X Slot /\ WasHeld(pairs) =>
        WasHeld(pairs)'
  BY <1>4 DEF WasHeld
<1>9. LinksWereHeld'
  BY <1>8 DEF InventoryInv, InventoryTypeOK, LinksWereHeld, PlugDrive
<1>10. ReadingsWereHeld'
  <2>1. WasHeld(guids)' /\ WasHeld(types)'
    BY <1>8 DEF InventoryInv, InventoryTypeOK, ReadingsWereHeld, PlugDrive
  <2>2. \A name \in names' : name[2] \in held'[name[1]]
    BY <1>4 DEF InventoryInv, InventoryTypeOK, ReadingsWereHeld, PlugDrive
  <2> QED
    BY <2>1, <2>2 DEF ReadingsWereHeld
<1>11. DevicesWereHeld'
  BY <1>4 DEF InventoryInv, InventoryTypeOK, Device, DevicesWereHeld, PlugDrive
<1> QED
  BY <1>6, <1>7, <1>9, <1>10, <1>11 DEF InventoryInv, PlugDrive, chosen

\* A link that udev puts right leads to a slot that holds its disk.
LEMMA UdevUpdatesInv ==
  ASSUME InventoryInv, UdevUpdates
  PROVE  InventoryInv'
<1>1. PICK k \in directories, p \in Partition :
        links' = [links EXCEPT ![k] = (links[k] \ ({p} \X Slot))
                                        \cup {l \in TrueLinks : l[1] = p}]
  BY DEF UdevUpdates
<1> DEFINE right == (links[k] \ ({p} \X Slot)) \cup {l \in TrueLinks : l[1] = p}
<1>2. k \in {"guid", "type"}
  BY DEF InventoryInv
<1>3. right \in SUBSET (Partition \X Slot) /\ WasHeld(right)
  BY <1>2, TrueLinksType DEF InventoryInv, InventoryTypeOK, LinksWereHeld, WasHeld
<1>4. links' \in [{"guid", "type"} -> SUBSET (Partition \X Slot)]
  BY <1>1, <1>2, <1>3 DEF InventoryInv, InventoryTypeOK
<1>5. InventoryTypeOK'
  BY <1>4 DEF InventoryInv, InventoryTypeOK, UdevUpdates, chosen
<1>6. LinksWereHeld'
  <2>1. held' = held
    BY DEF UdevUpdates
  <2>2. \A j \in {"guid", "type"} : links'[j] = IF j = k THEN right ELSE links[j]
    BY <1>1, <1>2 DEF InventoryInv, InventoryTypeOK
  <2> QED
    BY <1>3, <2>1, <2>2 DEF InventoryInv, LinksWereHeld, WasHeld
<1>7. AttachedWasHeld' /\ ReadingsWereHeld' /\ DevicesWereHeld'
  BY DEF InventoryInv, AttachedWasHeld, ReadingsWereHeld, DevicesWereHeld, WasHeld,
         UdevUpdates
<1> QED
  BY <1>5, <1>6, <1>7 DEF InventoryInv, UdevUpdates, chosen

\* What a step of list_devices leaves alone.
LEMMA MachineKept ==
  ASSUME InventoryInv, UNCHANGED machine, UNCHANGED directories
  PROVE  /\ directories' \subseteq {"guid", "type"}
         /\ AttachedWasHeld' /\ LinksWereHeld'
         /\ \A pairs : WasHeld(pairs) => WasHeld(pairs)'
  BY DEF InventoryInv, machine, AttachedWasHeld, LinksWereHeld, WasHeld

\* The directories of links.
LEMMA ReadLinksInv ==
  ASSUME InventoryInv, OpenDirectory \/ ReadGuids \/ ReadTypes
  PROVE  InventoryInv'
<1>1. UNCHANGED <<chosen, machine, names, devices>>
  BY DEF OpenDirectory, ReadGuids, ReadTypes
<1>2. /\ guids' \subseteq Partition \X Slot /\ WasHeld(guids')
      /\ types' \subseteq Partition \X Slot /\ WasHeld(types')
      /\ listing' \in {"guids", "types", "names", "listed"}
  BY ReadingsType
  DEF InventoryInv, InventoryTypeOK, ReadingsWereHeld, OpenDirectory, ReadGuids, ReadTypes
<1>3. InventoryTypeOK'
  BY <1>1, <1>2 DEF InventoryInv, InventoryTypeOK, chosen, machine
<1>4. ReadingsWereHeld' /\ DevicesWereHeld'
  BY <1>1, <1>2
  DEF InventoryInv, ReadingsWereHeld, DevicesWereHeld, WasHeld, machine
<1> QED
  BY <1>1, <1>3, <1>4, MachineKept DEF InventoryInv, chosen

\* The disks listed are those that their slots hold.
LEMMA DisksType ==
  ASSUME InventoryInv
  PROVE  /\ Disks \subseteq Slot \X Drive
         /\ \A name \in Disks : name[2] \in held[name[1]]
  BY DEF InventoryInv, InventoryTypeOK, AttachedWasHeld, Disks

\* The disks are listed.
LEMMA ReadDisksInv ==
  ASSUME InventoryInv, ReadNames \/ QueryDisks
  PROVE  InventoryInv'
<1>1. UNCHANGED <<chosen, machine, guids, types, devices>>
  BY DEF ReadNames, QueryDisks
<1>2. /\ names' \subseteq Slot \X Drive
      /\ \A name \in names' : name[2] \in held[name[1]]
      /\ listing' \in {"devices", "partitions", "listed"}
  BY DisksType
  DEF InventoryInv, InventoryTypeOK, ReadingsWereHeld, ReadNames, QueryDisks
<1>3. InventoryTypeOK'
  BY <1>1, <1>2 DEF InventoryInv, InventoryTypeOK, chosen, machine
<1>4. ReadingsWereHeld' /\ DevicesWereHeld'
  BY <1>1, <1>2
  DEF InventoryInv, ReadingsWereHeld, DevicesWereHeld, WasHeld, machine
<1> QED
  BY <1>1, <1>3, <1>4, MachineKept DEF InventoryInv, chosen

\* The partitions found in a slot belong to the disk it holds.
LEMMA PartitionsInSlot ==
  ASSUME InventoryInv, NEW s \in Slot, NEW p \in PartitionsIn(s)
  PROVE  p \in Partition /\ attached[s] = DriveOf[p] /\ DriveOf[p] \in held[s]
<1>1. p \in Partition /\ DriveOf[p] = attached[s] /\ DriveOf[p] \in Drive
  BY DriveAssumption DEF PartitionsIn
<1> QED
  BY <1>1, DriveAssumption DEF InventoryInv, AttachedWasHeld

\* A disk is read on Linux: the partitions come from the kernel, now, and
\* their GUIDs from the links, read before.
LEMMA ReadDeviceInv ==
  ASSUME InventoryInv, ReadDevice
  PROVE  InventoryInv'
<1>1. PICK name \in names :
        /\ names' = names \ {name}
        /\ devices' = devices \cup
             {[slot |-> name[1], drive |-> attached[name[1]],
               guids |-> Joined(guids, name[1]),
               esp |-> Joined(types, name[1]) \cap Esp # {}]}
  BY DEF ReadDevice
<1> DEFINE s == name[1]
           device == [slot |-> s, drive |-> attached[s], guids |-> Joined(guids, s),
                      esp |-> Joined(types, s) \cap Esp # {}]
<1>2. s \in Slot
  BY DEF InventoryInv, InventoryTypeOK
<1>3. device \in Device
  BY <1>2 DEF InventoryInv, InventoryTypeOK, Device, Joined
<1>4. \A p \in Joined(guids, s) : DriveOf[p] \in held[s] /\ attached[s] \in held[s]
  <2> SUFFICES ASSUME NEW p \in Joined(guids, s)
               PROVE  DriveOf[p] \in held[s] /\ attached[s] \in held[s]
    OBVIOUS
  <2>1. PICK q \in PartitionsIn(s) : <<p, s>> \in guids
    BY DEF Joined
  <2>2. DriveOf[p] \in held[s]
    BY <2>1 DEF InventoryInv, ReadingsWereHeld, WasHeld
  <2> QED
    BY <1>2, <2>1, <2>2, PartitionsInSlot
<1>5. UNCHANGED <<chosen, machine, listing, guids, types>>
  BY DEF ReadDevice
<1>6. InventoryTypeOK'
  BY <1>1, <1>3, <1>5 DEF InventoryInv, InventoryTypeOK, chosen, machine
<1>7. ReadingsWereHeld'
  BY <1>1, <1>5 DEF InventoryInv, ReadingsWereHeld, WasHeld, machine
<1>8. DevicesWereHeld'
  BY <1>1, <1>4, <1>5 DEF InventoryInv, DevicesWereHeld, machine
<1> QED
  BY <1>5, <1>6, <1>7, <1>8, MachineKept DEF InventoryInv, chosen

\* The second query on Windows: the partitions of the slots listed before.
LEMMA QueryPartitionsInv ==
  ASSUME InventoryInv, QueryPartitions
  PROVE  InventoryInv'
<1>1. UNCHANGED <<chosen, machine, guids, types, names>> /\ listing' = "listed"
  BY DEF QueryPartitions
<1>2. ASSUME NEW device \in devices'
      PROVE  /\ device \in Device
             /\ \A p \in device.guids : /\ DriveOf[p] \in held[device.slot]
                                        /\ device.drive \in held[device.slot]
  <2>1. PICK name \in names :
          device = LET gpt == \E p \in Partition : DriveOf[p] = name[2]
                       found == IF gpt THEN PartitionsIn(name[1]) ELSE {}
                   IN [slot |-> name[1], drive |-> name[2], guids |-> found,
                       esp |-> found \cap Esp # {}]
    BY DEF QueryPartitions
  <2>2. /\ device.slot = name[1] /\ device.drive = name[2]
        /\ device.guids \subseteq PartitionsIn(name[1])
        /\ device.esp \in BOOLEAN
        /\ device = [slot |-> device.slot, drive |-> device.drive,
                     guids |-> device.guids, esp |-> device.esp]
    BY <2>1
  <2>3. name[1] \in Slot /\ name[2] \in Drive /\ name[2] \in held[name[1]]
    BY DEF InventoryInv, InventoryTypeOK, ReadingsWereHeld
  <2>4. PartitionsIn(name[1]) \subseteq Partition
    BY DEF PartitionsIn
  <2>5. device \in Device
    BY <2>2, <2>3, <2>4 DEF Device
  <2> QED
    BY <2>2, <2>3, <2>5, PartitionsInSlot
<1>3. InventoryTypeOK'
  BY <1>1, <1>2 DEF InventoryInv, InventoryTypeOK, chosen, machine
<1>4. ReadingsWereHeld' /\ DevicesWereHeld'
  BY <1>1, <1>2
  DEF InventoryInv, ReadingsWereHeld, DevicesWereHeld, WasHeld, machine
<1> QED
  BY <1>1, <1>3, <1>4, MachineKept DEF InventoryInv, chosen

\* The end of a listing, or of the detection, adds no device.
LEMMA ListingEndsInv ==
  ASSUME InventoryInv, AllRead \/ ReadEntries \/ LegacyBios \/ DetectFails
  PROVE  InventoryInv'
<1>1. /\ UNCHANGED <<directories, machine, guids, types, names, devices>>
      /\ listing' \in {"listed", "done", "failed"}
      /\ options' \subseteq LoadOption
  BY DEF AllRead, ReadEntries, LegacyBios, DetectFails, chosen, InventoryInv,
         InventoryTypeOK
<1>2. InventoryTypeOK'
  BY <1>1 DEF InventoryInv, InventoryTypeOK, machine
<1>3. ReadingsWereHeld' /\ DevicesWereHeld'
  BY <1>1 DEF InventoryInv, ReadingsWereHeld, DevicesWereHeld, WasHeld, machine
<1> QED
  BY <1>1, <1>2, <1>3, MachineKept DEF InventoryInv

\* Every step of the inventory preserves the invariant.
LEMMA InventoryStep == InventoryInv /\ [InventoryNext]_inventoryVars => InventoryInv'
<1> SUFFICES ASSUME InventoryInv, [InventoryNext]_inventoryVars PROVE InventoryInv'
  OBVIOUS
<1>1. CASE UNCHANGED inventoryVars
  BY <1>1
  DEF inventoryVars, InventoryInv, InventoryTypeOK, AttachedWasHeld, LinksWereHeld,
      ReadingsWereHeld, DevicesWereHeld, WasHeld
<1>2. CASE InventoryNext
  BY <1>2, PlugDriveInv, UdevUpdatesInv, ReadLinksInv, ReadDisksInv, ReadDeviceInv,
     QueryPartitionsInv, ListingEndsInv DEF InventoryNext
<1> QED
  BY <1>1, <1>2

\* The conjunction of the five parts holds in every reachable state.
THEOREM InventoryInvariance == InventorySpec => []InventoryInv
  BY InventoryInitInv, InventoryStep, PTL DEF InventorySpec

\* linux/storage.rs and windows/storage.rs list_devices: what they return has
\* its type, whatever comes and goes while they run.
THEOREM InventoryType == InventorySpec => []InventoryTypeOK
<1>1. InventoryInv => InventoryTypeOK
  BY DEF InventoryInv
<1> QED
  BY <1>1, InventoryInvariance, PTL

\* linux/storage.rs build_partitions and windows/storage.rs build_device:
\* joining by the name of the disk gives no disk the GUID of a partition of
\* another, for any disks, moves and delays of udev, unless two disks have
\* had the same name.
THEOREM InventoryOwnDisk == InventorySpec => []EntryGetsItsOwnDisk
<1>1. InventoryInv => EntryGetsItsOwnDisk
  <2> SUFFICES ASSUME InventoryInv, \A s \in Slot : \A d, e \in held[s] : d = e,
                      NEW device \in devices, NEW p \in device.guids
               PROVE  device.drive = DriveOf[p]
    BY DEF EntryGetsItsOwnDisk
  <2>1. DriveOf[p] \in held[device.slot] /\ device.drive \in held[device.slot]
    BY DEF InventoryInv, DevicesWereHeld
  <2>2. device.slot \in Slot
    BY DEF InventoryInv, InventoryTypeOK, Device
  <2> QED
    BY <2>1, <2>2
<1> QED
  BY <1>1, InventoryInvariance, PTL

-----------------------------------------------------------------------------
(* What a quiet listing finds                                              *)

\* The kernel knows a disk under one name.
OneSlotEach ==
  \A s, t \in Slot : s # t /\ attached[s] # NoDrive => attached[s] # attached[t]

Occupied == {s \in Slot : attached[s] # NoDrive}

\* The device a listing should make of the disk in slot s.
TrueDevice(s) ==
  [slot |-> s, drive |-> attached[s], guids |-> PartitionsIn(s),
   esp |-> PartitionsIn(s) \cap Esp # {}]

TrueDevices == {TrueDevice(s) : s \in Occupied}

CaughtUp ==
  system = "linux" =>
    \A k \in {"guid", "type"} : k \in directories /\ links[k] = TrueLinks

\* What the listing has read so far is what there is.
ReadSoFar ==
  /\ listing \in {"types", "names", "devices"} => guids = TrueLinks
  /\ listing \in {"names", "devices"} => types = TrueLinks
  /\ listing = "partitions" => names = Disks
  /\ listing = "devices" =>
       /\ names \subseteq Disks
       /\ devices = {TrueDevice(name[1]) : name \in Disks \ names}
  /\ listing \in {"listed", "done"} => devices = {} \/ devices = TrueDevices

QuietInv ==
  /\ OneSlotEach
  /\ listing \in {"guids", "types", "names", "devices"} => system = "linux"
  /\ listing \in {"idle", "guids", "types", "names", "partitions"} => devices = {}
  /\ ~disturbed /\ CaughtUp => ReadSoFar

\* Two links to one name are one link: a partition has its own number.
LEMMA OneReading ==
  ASSUME NEW k, links[k] = TrueLinks, NEW r \in Readings(k)
  PROVE  r = TrueLinks
<1>1. /\ r \subseteq TrueLinks
      /\ \A l \in TrueLinks : \E m \in r :
           l[2] = m[2] /\ NumberOf[l[1]] = NumberOf[m[1]]
  BY DEF Readings
<1>2. ASSUME NEW l \in TrueLinks, NEW m \in TrueLinks, l[2] = m[2],
             NumberOf[l[1]] = NumberOf[m[1]]
      PROVE  l = m
  <2>1. PICK s \in Slot : l \in PartitionsIn(s) \X {s}
    BY DEF TrueLinks
  <2>2. PICK t \in Slot : m \in PartitionsIn(t) \X {t}
    BY DEF TrueLinks
  <2>3. /\ l[1] \in Partition /\ DriveOf[l[1]] = attached[s]
        /\ m[1] \in Partition /\ DriveOf[m[1]] = attached[t] /\ s = t
    BY <1>2, <2>1, <2>2 DEF PartitionsIn
  <2>4. l[1] = m[1]
    BY <1>2, <2>3, NumberAssumption
  <2> QED
    BY <1>2, <2>1, <2>2, <2>4
<1> QED
  BY <1>1, <1>2

\* The links of a slot lead to it from the partitions of its disk.
LEMMA TrueJoin ==
  ASSUME NEW s \in Slot
  PROVE  Joined(TrueLinks, s) = PartitionsIn(s)
<1>1. ASSUME NEW p
      PROVE  <<p, s>> \in TrueLinks <=> p \in PartitionsIn(s)
  BY DEF TrueLinks
<1>2. PartitionsIn(s) \subseteq Partition
  BY DEF PartitionsIn
<1> QED
  BY <1>1, <1>2 DEF Joined

\* A disk that is listed has a device, and the device is true.
LEMMA TrueDevicesListed ==
  /\ TrueDevices = {TrueDevice(name[1]) : name \in Disks}
  /\ \A name \in Disks : name[1] \in Slot /\ name[2] = attached[name[1]]
<1>1. ASSUME NEW s \in Occupied
      PROVE  \E name \in Disks : name[1] = s
  <2>1. <<s, attached[s]>> \in Disks
    BY DEF Occupied, Disks
  <2>2. <<s, attached[s]>>[1] = s
    OBVIOUS
  <2> QED
    BY <2>1, <2>2
<1>2. \A name \in Disks : /\ name[1] \in Occupied /\ name[1] \in Slot
                          /\ name[2] = attached[name[1]]
  BY DEF Occupied, Disks
<1> QED
  BY <1>1, <1>2 DEF TrueDevices

\* Nothing has been read before the listing begins.
LEMMA QuietInit == InventoryInit => QuietInv
  BY DEF InventoryInit, QuietInv, OneSlotEach, ReadSoFar

\* A disk that comes or goes ends the quiet, or comes before the listing.
LEMMA QuietPlug ==
  ASSUME InventoryTypeOK, QuietInv, PlugDrive
  PROVE  QuietInv'
<1>1. PICK s \in HotSlot, d \in Drive \cup {NoDrive} :
        /\ (attached[s] = NoDrive) # (d = NoDrive)
        /\ \A other \in Slot : d # NoDrive => attached[other] # d
        /\ attached' = [attached EXCEPT ![s] = d]
  BY DEF PlugDrive
<1>2. s \in Slot
  BY DriveAssumption
<1>3. \A t \in Slot : attached'[t] = IF t = s THEN d ELSE attached[t]
  BY <1>1, <1>2 DEF InventoryTypeOK
<1>4. OneSlotEach'
  BY <1>1, <1>3 DEF QuietInv, OneSlotEach
<1>5. listing' = listing /\ system' = system /\ devices' = devices
      /\ disturbed' = (disturbed \/ listing # "idle")
  BY DEF PlugDrive, chosen, Running
<1>6. ~disturbed' /\ CaughtUp' => ReadSoFar'
  <2> SUFFICES ASSUME ~disturbed' PROVE ReadSoFar'
    OBVIOUS
  <2>1. listing' = "idle" /\ listing = "idle"
    BY <1>5
  <2> QED
    BY <2>1 DEF ReadSoFar
<1> QED
  BY <1>4, <1>5, <1>6 DEF QuietInv


\* A link that is put right does so too.
LEMMA QuietUdev ==
  ASSUME QuietInv, UdevUpdates
  PROVE  QuietInv'
<1>1. /\ UNCHANGED <<system, directories, attached, listing, devices>>
      /\ disturbed' = (disturbed \/ listing # "idle")
  BY DEF UdevUpdates, chosen, Running
<1>2. ~disturbed' => ReadSoFar'
  BY <1>1 DEF ReadSoFar
<1> QED
  BY <1>1, <1>2 DEF QuietInv, OneSlotEach

\* A step of list_devices changes nothing on the machine.
LEMMA QuietStep ==
  ASSUME QuietInv, UNCHANGED <<machine, system, directories>>,
         listing' \in {"guids", "types", "names", "devices"} => system = "linux",
         listing' \in {"idle", "guids", "types", "names", "partitions"} => devices' = {},
         ~disturbed /\ CaughtUp /\ ReadSoFar => ReadSoFar'
  PROVE  QuietInv'
<1>1. UNCHANGED <<attached, links, disturbed>>
  BY DEF machine
<1>2. CaughtUp' <=> CaughtUp
  BY <1>1 DEF CaughtUp, TrueLinks, PartitionsIn
<1> QED
  BY <1>1, <1>2 DEF QuietInv, OneSlotEach

\* What there is to find does not change either.
LEMMA SameTruth ==
  ASSUME UNCHANGED machine
  PROVE  /\ TrueLinks' = TrueLinks /\ Disks' = Disks /\ TrueDevices' = TrueDevices
         /\ \A s : TrueDevice(s)' = TrueDevice(s)
BY DEF machine, TrueLinks, PartitionsIn, Disks, TrueDevices, TrueDevice, Occupied

\* The directories of links, and the names of the disks.
LEMMA QuietReads ==
  ASSUME QuietInv, OpenDirectory \/ ReadGuids \/ ReadTypes \/ ReadNames \/ QueryDisks
  PROVE  QuietInv'
<1>1. UNCHANGED <<machine, system, directories, devices>>
  BY DEF OpenDirectory, ReadGuids, ReadTypes, ReadNames, QueryDisks, chosen
<1>2. devices = {}
  BY DEF QuietInv, OpenDirectory, ReadGuids, ReadTypes, ReadNames, QueryDisks
<1>3. listing' \in {"guids", "types", "names", "devices"} => system = "linux"
  BY DEF QuietInv, OpenDirectory, ReadGuids, ReadTypes, ReadNames, QueryDisks
<1>4. ASSUME CaughtUp, ReadSoFar
      PROVE  ReadSoFar'
  <2>1. CASE OpenDirectory
    BY <1>1, <1>2, <2>1 DEF OpenDirectory, ReadSoFar
  <2>2. CASE ReadGuids
    <3>1. guids' = TrueLinks
      BY <1>4, <2>2, OneReading DEF ReadGuids, CaughtUp, QuietInv
    <3> QED
      BY <1>1, <1>2, <2>2, <3>1, SameTruth DEF ReadGuids, ReadSoFar
  <2>3. CASE ReadTypes
    <3>1. types' = TrueLinks /\ guids' = TrueLinks
      BY <1>4, <2>3, OneReading DEF ReadTypes, CaughtUp, QuietInv, ReadSoFar
    <3> QED
      BY <1>1, <1>2, <2>3, <3>1, SameTruth DEF ReadTypes, ReadSoFar
  <2>4. CASE ReadNames
    BY <1>1, <1>2, <1>4, <2>4, SameTruth DEF ReadNames, ReadSoFar
  <2>5. CASE QueryDisks
    BY <1>1, <1>2, <2>5, SameTruth DEF QueryDisks, ReadSoFar
  <2> QED
    BY <2>1, <2>2, <2>3, <2>4, <2>5
<1> QED
  BY <1>1, <1>2, <1>3, <1>4, QuietStep

\* A disk read on Linux gives its true device.
LEMMA QuietReadDevice ==
  ASSUME QuietInv, ReadDevice
  PROVE  QuietInv'
<1>1. UNCHANGED <<machine, system, directories, guids, types, listing>>
      /\ listing = "devices"
  BY DEF ReadDevice, chosen
<1>2. ASSUME ReadSoFar
      PROVE  ReadSoFar'
  <2>1. PICK name \in names :
          /\ names' = names \ {name}
          /\ devices' = devices \cup
               {[slot |-> name[1], drive |-> attached[name[1]],
                 guids |-> Joined(guids, name[1]),
                 esp |-> Joined(types, name[1]) \cap Esp # {}]}
    BY DEF ReadDevice
  <2>2. /\ guids = TrueLinks /\ types = TrueLinks /\ names \subseteq Disks
        /\ devices = {TrueDevice(n[1]) : n \in Disks \ names}
    BY <1>1, <1>2 DEF ReadSoFar
  <2>3. devices' = devices \cup {TrueDevice(name[1])}
    BY <2>1, <2>2, TrueDevicesListed, TrueJoin DEF TrueDevice
  <2>4. Disks \ names' = (Disks \ names) \cup {name}
    BY <2>1, <2>2
  <2>5. devices' = {TrueDevice(n[1]) : n \in Disks \ names'}
    BY <2>2, <2>3, <2>4
  <2> QED
    BY <1>1, <2>1, <2>2, <2>5, SameTruth DEF ReadSoFar
<1> QED
  BY <1>1, <1>2, QuietStep DEF QuietInv

\* The second query on Windows gives all of them.
LEMMA QuietQuery ==
  ASSUME QuietInv, QueryPartitions
  PROVE  QuietInv'
<1>1. /\ UNCHANGED <<machine, system, directories>>
      /\ listing = "partitions" /\ listing' = "listed"
  BY DEF QueryPartitions, chosen
<1>2. ASSUME ReadSoFar
      PROVE  ReadSoFar'
  <2> DEFINE OfDisk(name) ==
               IF \E p \in Partition : DriveOf[p] = name[2]
               THEN PartitionsIn(name[1]) ELSE {}
             Made(name) == [slot |-> name[1], drive |-> name[2],
                            guids |-> OfDisk(name), esp |-> OfDisk(name) \cap Esp # {}]
  <2>1. names = Disks
    BY <1>1, <1>2 DEF ReadSoFar
  <2>2. devices' = {} \/ devices' = {Made(name) : name \in names}
    BY DEF QueryPartitions
  <2>3. ASSUME NEW name \in Disks
        PROVE  Made(name) = TrueDevice(name[1])
    <3>1. name[2] = attached[name[1]]
      BY TrueDevicesListed
    <3>2. OfDisk(name) = PartitionsIn(name[1])
      BY <3>1 DEF PartitionsIn
    <3> QED
      BY <3>1, <3>2 DEF TrueDevice
  <2> HIDE DEF Made
  <2>4. {Made(name) : name \in names} = TrueDevices
    BY <2>1, <2>3, TrueDevicesListed
  <2> QED
    BY <1>1, <2>2, <2>4, SameTruth DEF ReadSoFar
<1> QED
  BY <1>1, <1>2, QuietStep

\* The end of a listing: every disk has been read, or nothing is returned.
LEMMA QuietEnds ==
  ASSUME QuietInv, AllRead \/ ReadEntries \/ LegacyBios \/ DetectFails
  PROVE  QuietInv'
<1>1. UNCHANGED <<machine, system, directories, names, devices>>
      /\ listing' \in {"listed", "done", "failed"}
  BY DEF AllRead, ReadEntries, LegacyBios, DetectFails, chosen
<1>2. ASSUME ReadSoFar
      PROVE  ReadSoFar'
  <2>1. listing' # "failed" => devices = {} \/ devices = TrueDevices
    <3>1. CASE AllRead
      BY <1>2, <3>1, TrueDevicesListed DEF AllRead, ReadSoFar
    <3>2. CASE ReadEntries \/ LegacyBios
      BY <1>2, <3>2 DEF ReadEntries, LegacyBios, ReadSoFar
    <3>3. CASE DetectFails
      BY <3>3 DEF DetectFails
    <3> QED
      BY <1>2, <3>1, <3>2, <3>3
         DEF AllRead, ReadEntries, LegacyBios, DetectFails
  <2> QED
    BY <1>1, <2>1, SameTruth DEF ReadSoFar
<1> QED
  BY <1>1, <1>2, QuietStep

\* Every step of the inventory preserves the invariant.
LEMMA QuietNext ==
  ASSUME InventoryTypeOK, QuietInv, [InventoryNext]_inventoryVars
  PROVE  QuietInv'
<1>1. CASE UNCHANGED inventoryVars
  BY <1>1
  DEF inventoryVars, QuietInv, OneSlotEach, CaughtUp, ReadSoFar, TrueLinks,
      PartitionsIn, Disks, TrueDevices, TrueDevice, Occupied
<1>2. CASE InventoryNext
  BY <1>2, QuietPlug, QuietUdev, QuietReads, QuietReadDevice, QuietQuery, QuietEnds
  DEF InventoryNext
<1> QED
  BY <1>1, <1>2

\* The invariant holds in every reachable state.
THEOREM QuietInvariance == InventorySpec => [](InventoryTypeOK /\ QuietInv)
<1>1. InventoryTypeOK /\ QuietInv /\ [InventoryNext]_inventoryVars => QuietInv'
  BY QuietNext
<1> QED
  BY <1>1, QuietInit, InventoryType, PTL DEF InventorySpec

\* What a quiet listing returns.
LEMMA QuietDevices ==
  ASSUME InventoryTypeOK, QuietInv, Quiet
  PROVE  /\ devices = TrueDevices
         /\ \A p \in Partition : p \in Inventoried <=> IsAttached(DriveOf[p])
         /\ \A d \in devices :
              /\ d.drive \in Drive /\ IsAttached(d.drive)
              /\ d.guids = {p \in Partition : DriveOf[p] = d.drive}
              /\ d.esp <=> Bootable(d.drive)
         /\ \A d \in Drive : IsAttached(d) => \E e \in devices : e.drive = d
<1>1. devices = TrueDevices
  BY DEF QuietInv, Quiet, CaughtUp, ReadSoFar
<1>2. ASSUME NEW d \in devices
      PROVE  /\ d.drive \in Drive /\ IsAttached(d.drive) /\ d.slot \in Slot
             /\ d.guids = {p \in Partition : DriveOf[p] = d.drive}
             /\ d.esp <=> Bootable(d.drive)
  <2>1. PICK s \in Occupied : d = TrueDevice(s)
    BY <1>1 DEF TrueDevices
  <2>2. /\ s \in Slot /\ attached[s] \in Drive
        /\ d.slot = s /\ d.drive = attached[s] /\ d.guids = PartitionsIn(s)
        /\ d.esp <=> PartitionsIn(s) \cap Esp # {}
    BY <2>1 DEF Occupied, InventoryTypeOK, TrueDevice
  <2>3. PartitionsIn(s) \cap Esp # {} <=> Bootable(attached[s])
    BY DriveAssumption DEF PartitionsIn, Bootable
  <2> QED
    BY <2>2, <2>3 DEF PartitionsIn, IsAttached
<1>3. ASSUME NEW d \in Drive, IsAttached(d)
      PROVE  \E e \in devices : e.drive = d
  <2>1. PICK s \in Slot : attached[s] = d
    BY <1>3 DEF IsAttached
  <2>2. TrueDevice(s) \in devices
    BY <1>1, <2>1, DriveAssumption DEF TrueDevices, Occupied
  <2>3. TrueDevice(s).drive = d
    BY <2>1 DEF TrueDevice
  <2> QED
    BY <2>2, <2>3
<1>4. ASSUME NEW p \in Partition
      PROVE  p \in Inventoried <=> IsAttached(DriveOf[p])
  <2>1. DriveOf[p] \in Drive
    BY DriveAssumption
  <2>2. p \in Inventoried <=> \E d \in devices : p \in d.guids \/ p = d.slot
    BY DEF Inventoried
  <2>3. \A d \in devices : p # d.slot
    BY <1>2, DriveAssumption
  <2>4. ASSUME IsAttached(DriveOf[p])
        PROVE  \E d \in devices : p \in d.guids
    <3>1. PICK d \in devices : d.drive = DriveOf[p]
      BY <1>3, <2>1, <2>4
    <3> QED
      BY <1>2, <3>1
  <2>5. ASSUME NEW d \in devices, p \in d.guids
        PROVE  IsAttached(DriveOf[p])
    <3>1. DriveOf[p] = d.drive
      BY <1>2, <2>5
    <3> QED
      BY <1>2, <3>1
  <2> QED
    BY <2>2, <2>3, <2>4, <2>5
<1> QED
  BY <1>1, <1>2, <1>3, <1>4

\* detect.rs build_entry and media.rs already_listed: an entry names the disk
\* of its partition.
LEMMA QuietEntries ==
  ASSUME InventoryTypeOK, QuietInv, Quiet, NEW o \in options, PartitionGuidKnown(o)
  PROVE  /\ o.part \in Partition
         /\ \A d \in devices : o.part \in d.guids <=> Names(o, d.drive)
         /\ o.part \in Inventoried <=> IsAttached(DriveOf[o.part])
         /\ Inventoried # {}
<1>1. o.part \in Partition
  BY LoadOptionAssumption DEF InventoryTypeOK, PartitionGuidKnown
<1>2. Inventoried # {}
  <2>1. PICK d \in devices : TRUE
    BY DEF Quiet
  <2>2. d.slot \in Inventoried
    BY DEF Inventoried
  <2> QED
    BY <2>2
<1> QED
  BY <1>1, <1>2, QuietDevices DEF Names

\* The media without an entry are those that no entry names.
LEMMA QuietMedia ==
  ASSUME InventoryTypeOK, QuietInv, Quiet
  PROVE  /\ \A m \in devices : AlreadyListed(m) <=> \E o \in options : Names(o, m.drive)
         /\ {m.drive : m \in UnlistedMedia} =
              {d \in Drive : /\ IsAttached(d) /\ Bootable(d)
                             /\ \A o \in options : ~Names(o, d)}
<1>1. ASSUME NEW m \in devices
      PROVE  AlreadyListed(m) <=> \E o \in options : Names(o, m.drive)
  BY QuietEntries DEF AlreadyListed, Names
<1>2. ASSUME NEW m \in UnlistedMedia
      PROVE  /\ m.drive \in Drive /\ IsAttached(m.drive) /\ Bootable(m.drive)
             /\ \A o \in options : ~Names(o, m.drive)
  BY <1>1, QuietDevices DEF UnlistedMedia
<1>3. ASSUME NEW d \in Drive, IsAttached(d), Bootable(d),
             \A o \in options : ~Names(o, d)
      PROVE  \E m \in UnlistedMedia : m.drive = d
  <2>1. PICK m \in devices : m.drive = d
    BY <1>3, QuietDevices
  <2>2. m.esp /\ ~AlreadyListed(m)
    BY <1>1, <1>3, <2>1, QuietDevices
  <2> QED
    BY <2>1, <2>2 DEF Quiet, UnlistedMedia
<1> QED
  BY <1>1, <1>2, <1>3

\* storage.rs, detect.rs build_entry, media.rs find_unlisted_media: for any
\* disks, partitions, names and entries, a detection of a UEFI machine that
\* nothing disturbed calls the disk of an active entry missing exactly if it is,
\* and shows exactly the disks with a system partition that no entry names.
THEOREM InventoryQuietListing == InventorySpec => []QuietListingIsTrue
<1>1. ASSUME InventoryTypeOK, QuietInv, Quiet
      PROVE  QuietListingIsTrue
  <2>1. ASSUME NEW o \in options, NEW d \in Drive, ~o.internal, o.active, Names(o, d)
        PROVE  Availability(o, Inventoried) = "DeviceMissing" <=> ~IsAttached(d)
    <3>1. PartitionGuidKnown(o) /\ DriveOf[o.part] = d
      BY <2>1 DEF Names
    <3>2. Inventoried # {} /\ (o.part \in Inventoried <=> IsAttached(d))
      BY <1>1, <3>1, QuietEntries
    <3> QED
      BY <2>1, <3>1, <3>2 DEF Availability
  <2> QED
    BY <1>1, <2>1, QuietMedia DEF QuietListingIsTrue
<1>2. InventoryTypeOK /\ QuietInv => QuietListingIsTrue
  BY <1>1 DEF QuietListingIsTrue
<1> QED
  BY <1>2, QuietInvariance, PTL

\* detect.rs visible_entries and media.rs: for any of them, such a detection
\* leaves no attached disk with a system partition without a row, unless an
\* entry internal to the firmware names it.
THEOREM InventoryShowsDisks == InventorySpec => []EveryBootableDiskShown
<1>1. ASSUME InventoryTypeOK, QuietInv, Quiet, NEW d \in Drive, IsAttached(d),
             Bootable(d), ~NamedInternally(d)
      PROVE  \/ \E m \in UnlistedMedia : m.drive = d
             \/ \E o \in options : Names(o, d) /\ Visible(o)
  <2>1. CASE \A o \in options : ~Names(o, d)
    BY <1>1, <2>1, QuietMedia
  <2>2. ASSUME NEW o \in options, Names(o, d)
        PROVE  Visible(o)
    <3>1. PartitionGuidKnown(o) /\ DriveOf[o.part] = d /\ ~o.internal
      BY <1>1, <2>2 DEF Names, NamedInternally
    <3>2. o.part \in Inventoried
      BY <1>1, <3>1, QuietEntries
    <3> QED
      BY <3>1, <3>2 DEF Visible, Availability
  <2> QED
    BY <2>1, <2>2
<1>2. InventoryTypeOK /\ QuietInv => EveryBootableDiskShown
  BY <1>1 DEF EveryBootableDiskShown
<1> QED
  BY <1>2, QuietInvariance, PTL

=============================================================================
