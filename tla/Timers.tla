------------------------------- MODULE Timers -------------------------------
(***************************************************************************)
(* What a timer queue promises to the code that arms timers, with no       *)
(* containers, no loop and no callbacks: a timer is armed with a deadline  *)
(* that is still to come, and leaves the set of armed timers exactly once, *)
(* either because its owner disarmed it or because it expired.  Timers     *)
(* expire at or after their deadline, the earliest deadline first, and     *)
(* timers with one deadline in the order in which they were armed.         *)
(*                                                                         *)
(* Alarm.tla (src/asio/alarm.hh) implements this specification.            *)
(***************************************************************************)
EXTENDS Integers, Functions

CONSTANTS
  Instant,  \* the values of the clock, natural numbers
  Timer     \* the numbers a timer can get, natural numbers

VARIABLES
  now,     \* the clock
  armed,   \* deadline of every armed timer, by timer
  issued,  \* how many timers were armed so far; the last one is number issued
  latest   \* the timer that expired last, 0 at first

vars == <<now, armed, issued, latest>>

Init ==
  /\ now \in Instant
  /\ armed = <<>>
  /\ issued = 0
  /\ latest = 0

(* A new timer is never an old one: a spent number is not used again.      *)
Arm(deadline) ==
  /\ now < deadline
  /\ issued' = issued + 1
  /\ issued' \in Timer
  /\ armed' = [t \in DOMAIN armed \cup {issued'} |->
                 IF t = issued' THEN deadline ELSE armed[t]]
  /\ UNCHANGED <<now, latest>>

Disarm(t) ==
  /\ t \in DOMAIN armed
  /\ armed' = Restrict(armed, DOMAIN armed \ {t})
  /\ UNCHANGED <<now, issued, latest>>

(* t is before every other armed timer.                                    *)
Soonest(t) ==
  \A u \in DOMAIN armed \ {t} :
    armed[t] < armed[u] \/ (armed[t] = armed[u] /\ t < u)

Expire(t) ==
  /\ t \in DOMAIN armed
  /\ armed[t] <= now
  /\ Soonest(t)
  /\ latest' = t
  /\ armed' = Restrict(armed, DOMAIN armed \ {t})
  /\ UNCHANGED <<now, issued>>

Pass ==
  /\ now' \in Instant
  /\ now < now'
  /\ UNCHANGED <<armed, issued, latest>>

Next ==
  \/ \E deadline \in Instant : Arm(deadline)
  \/ \E t \in Timer : Disarm(t) \/ Expire(t)
  \/ Pass

Spec == Init /\ [][Next]_vars
=============================================================================
