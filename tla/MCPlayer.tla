------------------------------ MODULE MCPlayer ------------------------------
(***************************************************************************)
(* Player for TLC: its configurations give the bounds.                     *)
(***************************************************************************)
EXTENDS Player
=============================================================================
