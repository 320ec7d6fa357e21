------------------------------ MODULE MCAlarm ------------------------------
(* The timer queue alone, under every sequence of at() and cancel() calls.  *)
EXTENDS Alarm
=============================================================================
