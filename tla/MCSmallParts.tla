---------------------------- MODULE MCSmallParts ----------------------------
(***************************************************************************)
(* The three small parts of the library for TLC: UdpSocket, LineReaders    *)
(* and Signals.  They share no state, so a behaviour is one of a single    *)
(* part while the others stay as they began.                               *)
(***************************************************************************)
EXTENDS UdpSocket, LineReaders, Signals

(* Text that looks like codes of commands, an option whose number is IAC   *)
(* or LF, and a subnegotiation with a doubled IAC.                         *)
MCText == {97, SE, SB}
MCArgument == {LF, IAC}
MCPayload == {<<IAC, IAC, SE, 97>>, <<CR, LF>>}

PartsInit == Init /\ ReadersInit /\ SignalsInit

UdpMoves == ReadersInit /\ SignalsInit /\ Next /\ UNCHANGED <<readersVars, signalsVars>>
ReadersMove == Init /\ SignalsInit /\ ReadersNext /\ UNCHANGED <<vars, signalsVars>>
SignalsMove == Init /\ ReadersInit /\ SignalsNext /\ UNCHANGED <<vars, readersVars>>

(* The client has said all, no object is left, or an assertion failed.     *)
Ended ==
  /\ (~More /\ stream = <<>>) \/ alive = {} \/ failed
  /\ UNCHANGED <<vars, readersVars, signalsVars>>

PartsNext == UdpMoves \/ ReadersMove \/ SignalsMove \/ Ended

PartsSpec == PartsInit /\ [][PartsNext]_<<vars, readersVars, signalsVars>>
=============================================================================
