-------------------------------- MODULE Parts --------------------------------
(***************************************************************************)
(* The parts of the program that depend on no other part of it: the guard, *)
(* the parser of a load option, the inventory with the two lists made of   *)
(* it, and the reboot on Linux.  A behaviour is one of one of them; the    *)
(* others do not move.                                                     *)
(***************************************************************************)
EXTENDS GuardCheck, EfiParse, Inventory, Power

VARIABLE part  \* the part that moves

partsVars == <<part, vars, parserVars, inventoryVars, powerVars>>

\* One of the initial states of the parts that do not move stands for all.
OnlyOne ==
  /\ part # "guard" => target = CHOOSE id \in BootId : TRUE
  /\ part # "parser" => size = CHOOSE n \in Sizes : TRUE
  /\ part # "inventory" =>
       /\ attached = [s \in Slot |-> NoDrive]
       /\ system = "linux" /\ mode = "legacy" /\ directories = {}
  /\ part # "power" =>
       host = [systemd |-> TRUE, root |-> TRUE, installed |-> {}]

PartsInit ==
  /\ part \in {"guard", "parser", "inventory", "power"}
  /\ Init /\ ParserInit /\ InventoryInit /\ PowerInit
  /\ OnlyOne

PartsNext ==
  \/ /\ part = "guard" /\ Next
     /\ UNCHANGED <<part, parserVars, inventoryVars, powerVars>>
  \/ /\ part = "parser" /\ ParserNext
     /\ UNCHANGED <<part, vars, inventoryVars, powerVars>>
  \/ /\ part = "inventory" /\ InventoryNext
     /\ UNCHANGED <<part, vars, parserVars, powerVars>>
  \/ /\ part = "power" /\ PowerNext
     /\ UNCHANGED <<part, vars, parserVars, inventoryVars>>

PartsSpec == PartsInit /\ [][PartsNext]_partsVars

=============================================================================
