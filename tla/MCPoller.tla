------------------------------ MODULE MCPoller ------------------------------
(***************************************************************************)
(* Poller for TLC: the sockets are strings, their roles the constants.     *)
(***************************************************************************)
EXTENDS Poller
=============================================================================
