------------------------------ MODULE MCWindow ------------------------------
(***************************************************************************)
(* A small instance of Window: an internal disk and a stick with entries,  *)
(* or a stick without one.                                                 *)
(***************************************************************************)
EXTENDS Window
=============================================================================
