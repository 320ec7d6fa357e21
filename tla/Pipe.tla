-------------------------------- MODULE Pipe --------------------------------
(***************************************************************************)
(* What one direction of a stream promises (IStream in src/asio/asio.hh):  *)
(* the bytes come out in the order in which they were put in, each once,   *)
(* whatever the pieces they come out in.  Bytes are numbered as they are   *)
(* put in, so a pipe is the count of those and the sequence of the others. *)
(***************************************************************************)
EXTENDS Naturals, Sequences

VARIABLES
  put,  \* the number of bytes put in
  got   \* the bytes taken out

pipeVars == <<put, got>>

Init == put = 0 /\ got = <<>>

(* More bytes go in.                                                       *)
Put == put' \in Nat /\ put < put' /\ UNCHANGED got

(* The next k bytes come out.                                              *)
Take(k) ==
  /\ got' = got \o [i \in 1..k |-> Len(got) + i]
  /\ UNCHANGED put

(* Before anything came out, another connection may take the place of the  *)
(* one that was tried, and nothing of it has been put in.                  *)
Restart == got = <<>> /\ put' = 0 /\ UNCHANGED got

Next == Put \/ Restart \/ \E k \in 1..(put - Len(got)) : Take(k)

Spec == Init /\ [][Next]_pipeVars
=============================================================================
