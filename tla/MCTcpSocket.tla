---------------------------- MODULE MCTcpSocket ----------------------------
(***************************************************************************)
(* TcpSocket for TLC: its configurations give the sizes and say what the   *)
(* application and the peer do.                                            *)
(***************************************************************************)
EXTENDS TcpSocket
=============================================================================
