------------------------------ MODULE MCMaster ------------------------------
(***************************************************************************)
(* Master for TLC: its configurations give the bounds and say what the     *)
(* network and the users do.                                               *)
(***************************************************************************)
EXTENDS Master
=============================================================================
