---------------------------- MODULE MCEventLoop ----------------------------
(* The loop with two sockets, two alarms and a handful of ticks.            *)
EXTENDS EventLoop
=============================================================================
