---------------------------- MODULE MCConfigStore ----------------------------
(***************************************************************************)
(* A small instance of ConfigStore: two instances, one entry to name.      *)
(***************************************************************************)
EXTENDS ConfigStore
=============================================================================
