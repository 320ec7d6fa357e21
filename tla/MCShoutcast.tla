---------------------------- MODULE MCShoutcast ----------------------------
(***************************************************************************)
(* Shoutcast for TLC: its configurations give the sizes of the stream.     *)
(***************************************************************************)
EXTENDS Shoutcast
=============================================================================
