----------------------------- MODULE EventLoop -----------------------------
(***************************************************************************)
(* Driver::work(), the single thread of both programs (asio/driver.cc),    *)
(* with the alarm it runs and the wait of the poller.  One turn of the     *)
(* loop makes the sockets ready, asks the alarm how long to sleep, waits   *)
(* for events or for that time, lets the handlers of the events run, and   *)
(* runs the alarms that are due.                                           *)
(*                                                                         *)
(* The clock moves while the thread works, so the time at which refresh()  *)
(* looked for due tasks (`upto') and the time at which sleep_time() reads  *)
(* the clock (`since') differ, and nothing bounds the gap: the actions of  *)
(* other tasks, the resolver in the ready pass, preemption.                *)
(*                                                                         *)
(* What a handler may do here is what concerns the loop: arm and cancel    *)
(* alarms, make and remove sockets, stop the driver.                       *)
(***************************************************************************)
EXTENDS Integers, Functions

CONSTANTS
  MaxTime, MaxTask,  \* bounds of Alarm
  Socket,            \* the sockets that can be made
  TicksPerMs,        \* ticks of the clock in a millisecond
  MaxSleep           \* max_sleep_time, in ticks

ASSUME LoopAssumption ==
  /\ MaxTime \in Nat /\ MaxTask \in Nat /\ MaxSleep \in Nat
  /\ TicksPerMs \in Nat \ {0}

VARIABLES
  now, tasks, schedule, counter, phase, upto, element, mark,  \* Alarm
  pc,           \* where work() is
  working,      \* Driver::working
  connections,  \* Driver::connections
  readied,      \* the sockets whose ready_done is set
  timeout,      \* the argument of poller->wait(), in milliseconds
  since         \* the clock as sleep_time() read it, when the wait began

A == INSTANCE Alarm

alarmVars == <<now, tasks, schedule, counter, phase, upto, element, mark>>
loopVars == <<pc, working, connections, readied, timeout, since>>
vars == <<alarmVars, loopVars>>

Pc == {"start", "ready", "sleep", "wait", "dispatch", "refresh", "done"}

Init ==
  /\ A!Init
  /\ pc = "start"
  /\ working = FALSE
  /\ connections \in SUBSET Socket
  /\ readied = {}
  /\ timeout = 0
  /\ since = 0
-----------------------------------------------------------------------------
ToMsDown(d) == d \div TicksPerMs                                 \* mutant

(* duration_cast to milliseconds: it rounds towards 0, from either side.   *)
ToMs(d) == IF d < 0 THEN -((-d) \div TicksPerMs) ELSE d \div TicksPerMs

SleepTimeMax(maximum) ==                                      \* mutant
  IF tasks = <<>> THEN maximum
  ELSE LET e == CHOOSE e \in schedule : A!IsBegin(e)
       IN  IF e[1] - now > maximum THEN e[1] - now ELSE maximum

(* Alarm::sleep_time(maximum): the clock is read a second time here.       *)
SleepTime(maximum) ==
  IF tasks = <<>> THEN maximum
  ELSE LET e == CHOOSE e \in schedule : A!IsBegin(e)
       IN  IF e[1] - now < maximum THEN e[1] - now ELSE maximum

Start ==
  /\ pc = "start"
  /\ working' = TRUE
  /\ pc' = "ready"
  /\ UNCHANGED <<alarmVars, connections, readied, timeout, since>>

(* trigger_ready() of one connection.                                      *)
Ready(s) ==
  /\ pc = "ready"
  /\ s \in connections \ readied
  /\ readied' = readied \cup {s}
  /\ UNCHANGED <<alarmVars, pc, working, connections, timeout, since>>

(* The end of the ready pass: nothing left to wait for ends the loop.      *)
AllReady ==
  /\ pc = "ready"
  /\ connections \subseteq readied
  /\ IF schedule = {} /\ connections = {}
       THEN pc' = "done" /\ working' = FALSE
       ELSE pc' = "sleep" /\ UNCHANGED working
  /\ UNCHANGED <<alarmVars, connections, readied, timeout, since>>

Sleep ==
  /\ pc = "sleep"
  /\ timeout' = ToMs(SleepTime(MaxSleep))
  /\ since' = now
  /\ pc' = "wait"
  /\ UNCHANGED <<alarmVars, working, connections, readied>>

(* epoll_wait returns events.                                              *)
WakeByEvent ==
  /\ pc = "wait"
  /\ connections # {}
  /\ pc' = "dispatch"
  /\ UNCHANGED <<alarmVars, working, connections, readied, timeout, since>>

(* epoll_wait returns none; with a negative timeout it never does.         *)
WakeByTimeout ==
  /\ pc = "wait"
  /\ 0 <= timeout
  /\ since + timeout * TicksPerMs <= now
  /\ pc' = "refresh"
  /\ UNCHANGED <<alarmVars, working, connections, readied, timeout, since>>

AfterEventsNoRefresh == "ready"                                  \* mutant

(* alarm->refresh() follows the wait, whether or not it returned events.   *)
AfterEvents == "refresh"

(* epoll_wait(-1): only an event ends this wait.                           *)
Asleep == pc = "wait" /\ timeout < 0

WaitOn == Asleep /\ UNCHANGED vars

(* The handlers of the events of this wait have returned.                  *)
Dispatched ==
  /\ pc = "dispatch"
  /\ pc' = AfterEvents
  /\ UNCHANGED <<alarmVars, working, connections, readied, timeout, since>>

RefreshStart ==
  /\ pc = "refresh"
  /\ A!RefreshStart
  /\ UNCHANGED <<pc, working, connections, readied, timeout, since>>

RefreshCall(e) ==
  /\ A!RefreshCall(e)
  /\ UNCHANGED loopVars

RefreshErase ==
  /\ A!RefreshErase
  /\ UNCHANGED loopVars

NextTurnPastReady == IF working THEN "sleep" ELSE "done"         \* mutant

(* while(working)                                                          *)
NextTurn == IF working THEN "ready" ELSE "done"

RefreshEnd ==
  /\ A!RefreshEnd
  /\ pc' = NextTurn
  /\ UNCHANGED <<working, connections, readied, timeout, since>>
-----------------------------------------------------------------------------
(* What handlers of events, and actions of the alarm, do to the loop.      *)
HandlerRuns == pc = "dispatch" \/ (pc = "refresh" /\ phase = "call")

HandlerAt(time) ==
  /\ HandlerRuns
  /\ A!At(time)
  /\ UNCHANGED loopVars

HandlerCancel(t) ==
  /\ HandlerRuns
  /\ A!Cancel(t)
  /\ UNCHANGED loopVars

(* Driver::make_socket() in a handler; a new socket is not ready.          *)
MakeSocket(s) ==
  /\ HandlerRuns
  /\ s \notin connections \cup readied
  /\ connections' = connections \cup {s}
  /\ UNCHANGED <<alarmVars, pc, working, readied, timeout, since>>

(* Driver::remove_socket(), from Socket::socket_closed().                  *)
RemoveSocket(s) ==
  /\ HandlerRuns
  /\ s \in connections
  /\ connections' = connections \ {s}
  /\ UNCHANGED <<alarmVars, pc, working, readied, timeout, since>>

(* Driver::stop()                                                          *)
Stop ==
  /\ HandlerRuns
  /\ working' = FALSE
  /\ UNCHANGED <<alarmVars, pc, connections, readied, timeout, since>>

(* The clock moves on at any moment.                                       *)
Tick ==
  /\ pc # "done"
  /\ A!Tick
  /\ UNCHANGED loopVars

(* work() has returned.                                                    *)
Returned == pc = "done" /\ UNCHANGED vars
-----------------------------------------------------------------------------
Loop ==
  \/ Start
  \/ \E s \in Socket : Ready(s)
  \/ AllReady
  \/ Sleep
  \/ WakeByTimeout
  \/ Dispatched
  \/ RefreshStart
  \/ \E e \in schedule : RefreshCall(e)
  \/ RefreshErase
  \/ RefreshEnd

Handler ==
  \/ \E time \in A!Time : HandlerAt(time)
  \/ \E t \in A!Task : HandlerCancel(t)
  \/ \E s \in Socket : MakeSocket(s) \/ RemoveSocket(s)
  \/ Stop

Next == Loop \/ WakeByEvent \/ Handler \/ Tick \/ WaitOn \/ Returned

(* The thread runs on and time passes; events may never come.              *)
Spec == Init /\ [][Next]_vars /\ WF_vars(Loop) /\ WF_vars(Tick)
-----------------------------------------------------------------------------
(* The values of the variables.                                            *)
TypeOK ==
  /\ A!TypeOK
  /\ pc \in Pc
  /\ working \in BOOLEAN
  /\ connections \subseteq Socket /\ readied \subseteq Socket
  /\ timeout \in Int
  /\ since \in A!Time

(* What the loop gives epoll_wait: it never arranges to wake up after the   *)
(* time of a task (or later than at once, if that time has passed), nor    *)
(* after max_sleep_time, whatever was armed or cancelled by the handlers   *)
(* of this turn; and a negative timeout, a wait that no task ends, it      *)
(* gives only if more than a millisecond went by since refresh() looked    *)
(* for due tasks.  The rounding of both signs by duration_cast decides it. *)
NoOversleep ==
  pc = "wait" =>
    IF timeout < 0
      THEN since - upto > TicksPerMs
      ELSE /\ timeout * TicksPerMs <= MaxSleep
           /\ \A t \in DOMAIN tasks :
                since + timeout * TicksPerMs <= IF tasks[t] < since THEN since ELSE tasks[t]

(* A socket made by a handler is made ready (bound, connected, listening)  *)
(* before the loop waits for events again, and so before any event of it.  *)
ReadyBeforeWait == pc \in {"sleep", "wait"} => connections \subseteq readied

(* Every task that is armed is run or cancelled, unless the driver stops:  *)
(* the program does not hang on its alarms.                                *)
AlarmsRun ==
  \A t \in A!Task : (t \in DOMAIN tasks) ~> (t \notin DOMAIN tasks \/ pc = "done")

(* That wait is the one way to lose an alarm: as long as the loop wakes    *)
(* from every one it falls into, every task that is armed is run or        *)
(* cancelled, however the loop, the handlers and the clock interleave.     *)
AlarmsRunUnlessAsleep == []<>~Asleep => AlarmsRun
=============================================================================
