-------------------------- MODULE EventLoopProofs --------------------------
(***************************************************************************)
(* Theorems about the event loop, for every set of sockets and every bound *)
(* on clock, tasks and sleep.                                              *)
(***************************************************************************)
EXTENDS EventLoop, TLAPS

AP == INSTANCE AlarmProofs

-----------------------------------------------------------------------------
(* Every step of the loop is a step of the alarm or leaves it alone.       *)
LEMMA AlarmStep == [Next]_vars => [A!Next]_(A!alarmVars)
<1> SUFFICES ASSUME [Next]_vars PROVE A!Next \/ UNCHANGED A!alarmVars
  OBVIOUS
<1> USE DEF alarmVars, A!alarmVars
<1>1. CASE Start \/ (\E s \in Socket : Ready(s)) \/ AllReady \/ Sleep
  BY <1>1 DEF Start, Ready, AllReady, Sleep
<1>2. CASE WakeByEvent \/ WakeByTimeout \/ Dispatched
  BY <1>2 DEF WakeByEvent, WakeByTimeout, Dispatched
<1>3. CASE RefreshStart
  BY <1>3 DEF RefreshStart, A!Next
<1>4. ASSUME NEW e \in schedule, RefreshCall(e) PROVE A!Next
  BY <1>4 DEF RefreshCall, A!Next
<1>5. CASE RefreshErase
  BY <1>5 DEF RefreshErase, A!Next
<1>6. CASE RefreshEnd
  BY <1>6 DEF RefreshEnd, A!Next
<1>7. ASSUME NEW time \in A!Time, HandlerAt(time) PROVE A!Next
  BY <1>7 DEF HandlerAt, A!Next
<1>8. ASSUME NEW t \in A!Task, HandlerCancel(t) PROVE A!Next
  BY <1>8 DEF HandlerCancel, A!Next
<1>9. CASE (\E s \in Socket : MakeSocket(s) \/ RemoveSocket(s)) \/ Stop
  BY <1>9 DEF MakeSocket, RemoveSocket, Stop
<1>10. CASE Tick
  BY <1>10 DEF Tick, A!Next
<1>11. CASE WaitOn \/ Returned \/ UNCHANGED vars
  BY <1>11 DEF WaitOn, Returned, vars
<1> QED
  BY <1>1, <1>2, <1>3, <1>4, <1>5, <1>6, <1>7, <1>8, <1>9, <1>10, <1>11
     DEF Next, Loop, Handler

(* The loop and its handlers use the alarm only as its specification       *)
(* allows, so whatever is proved of the alarm holds in the program.        *)
THEOREM LoopUsesAlarm == Spec => A!Spec
<1>1. Init => A!Init
  BY DEF Init
<1> QED BY <1>1, AlarmStep, PTL DEF Spec, A!Spec

(* AlarmProofs speaks of the same alarm under another name.                *)
LEMMA SameAlarm == A!Spec => AP!Spec
<1>1. A!Init => AP!Init
  BY DEF A!Init, AP!Init
<1>2. [A!Next]_(A!alarmVars) => [AP!Next]_(AP!alarmVars)
  BY DEF A!Next, AP!Next, A!alarmVars, AP!alarmVars, A!Time, AP!Time, A!Task, AP!Task,
         A!At, AP!At, A!Future, AP!Future, A!Fresh, AP!Fresh,
         A!ClientRuns, AP!ClientRuns, A!Cancel, AP!Cancel, A!MayCancel, AP!MayCancel,
         A!Unscheduled, AP!Unscheduled, A!Restrict, AP!Restrict,
         A!RefreshStart, AP!RefreshStart, A!RefreshCall, AP!RefreshCall,
         A!IsBegin, AP!IsBegin, A!Earlier, AP!Earlier,
         A!RefreshErase, AP!RefreshErase, A!RefreshEnd, AP!RefreshEnd, A!Tick, AP!Tick
<1> QED BY <1>1, <1>2, PTL DEF A!Spec, AP!Spec

(* In the loop, too, the two maps of the alarm always hold the same tasks, *)
(* which SleepTime relies on.                                              *)
THEOREM MapsAgreeInLoop == Spec => []A!MapsAgree
<1>1. MaxTime \in Nat /\ MaxTask \in Nat
  BY LoopAssumption
<1>2. AP!Spec => []AP!MapsAgree
  BY <1>1, AP!MapsAlwaysAgree
<1>3. AP!MapsAgree => A!MapsAgree
  BY DEF AP!MapsAgree, A!MapsAgree
<1> QED BY <1>2, <1>3, SameAlarm, LoopUsesAlarm, PTL

(* In the loop, too, the alarm is well typed.                              *)
LEMMA AlarmTypesInLoop == Spec => []A!TypeOK
<1>1. MaxTime \in Nat /\ MaxTask \in Nat
  BY LoopAssumption
<1>2. AP!Spec => []AP!TypeOK
  BY <1>1, AP!TypeCorrect
<1>3. AP!TypeOK => A!TypeOK
  BY DEF AP!TypeOK, A!TypeOK, AP!Time, A!Time, AP!Task, A!Task, AP!Phase, A!Phase
<1> QED BY <1>2, <1>3, SameAlarm, LoopUsesAlarm, PTL
-----------------------------------------------------------------------------
(* A schedule that is not empty has an element begin() points at.          *)
LEMMA BeginExists ==
  ASSUME A!TypeOK, schedule # {}
  PROVE  \E e \in schedule : A!IsBegin(e)
<1>1. schedule \subseteq Nat \X Nat
  BY LoopAssumption DEF A!TypeOK, A!Time, A!Task
<1> DEFINE Times == {e[1] : e \in schedule}
<1>2. PICK time \in Times : \A other \in Times : time <= other
  <2>1. Times \in SUBSET Nat /\ Times # {}
    BY <1>1
  <2> QED BY <2>1, AP!Least, LoopAssumption
<1> DEFINE First == {t \in Nat : <<time, t>> \in schedule}
<1>3. PICK t \in First : \A other \in First : t <= other
  <2>1. First \in SUBSET Nat /\ First # {}
    BY <1>1
  <2> QED BY <2>1, AP!Least, LoopAssumption
<1>4. ASSUME NEW f \in schedule \ {<<time, t>>}
      PROVE  A!Earlier(<<time, t>>, f)
  <2>1. /\ f = <<f[1], f[2]>> /\ f[1] \in Nat /\ f[2] \in Nat
        /\ time \in Nat /\ t \in Nat /\ time <= f[1]
    BY <1>1, <1>2
  <2>2. CASE time < f[1]
    BY <2>2 DEF A!Earlier
  <2>3. CASE time = f[1]
    <3>1. t <= f[2]
      BY <1>3, <2>1, <2>3
    <3>2. t # f[2]
      BY <2>1, <2>3
    <3> QED BY <2>1, <2>3, <3>1, <3>2 DEF A!Earlier
  <2> QED BY <2>1, <2>2, <2>3
<1> QED BY <1>3, <1>4 DEF A!IsBegin
-----------------------------------------------------------------------------
(* A number of milliseconds is never longer than what it was made of, and  *)
(* is not negative when less than a millisecond was missing.               *)
LEMMA Rounding ==
  ASSUME NEW d \in Int
  PROVE  /\ ToMs(d) \in Int
         /\ ToMs(d) * TicksPerMs <= IF d < 0 THEN 0 ELSE d
         /\ -TicksPerMs < d => 0 <= ToMs(d)
<1> DEFINE T == TicksPerMs
<1>t. T \in Nat \ {0}
  BY LoopAssumption
<1> HIDE DEF T
<1>1. ASSUME NEW n \in Nat
      PROVE  n \div T \in Nat /\ (n \div T) * T <= n /\ (n < T => n \div T = 0)
  BY <1>t
<1>2. CASE 0 <= d
  BY <1>1, <1>2, <1>t DEF ToMs, T
<1>3. CASE d < 0
  <2> DEFINE q == (-d) \div T
  <2>1. q \in Nat /\ (-d < T => q = 0)
    BY <1>1, <1>3
  <2>2. ToMs(d) = -q
    BY <1>3 DEF ToMs, T
  <2> HIDE DEF q
  <2>3. (-q) * T <= 0
    BY <2>1, <1>t
  <2>4. -T < d => -q = 0
    BY <2>1, <1>t
  <2> QED BY <1>3, <2>1, <2>2, <2>3, <2>4 DEF T
<1> QED BY <1>2, <1>3

(* SleepTime is at most the maximum and the time to every task, and is one *)
(* of these.                                                               *)
LEMMA SleepTimes ==
  ASSUME A!TypeOK, A!MapsAgree
  PROVE  /\ SleepTime(MaxSleep) \in Int
         /\ SleepTime(MaxSleep) <= MaxSleep
         /\ \A t \in DOMAIN tasks : SleepTime(MaxSleep) <= tasks[t] - now
         /\ \/ SleepTime(MaxSleep) = MaxSleep
            \/ \E e \in schedule : SleepTime(MaxSleep) = e[1] - now
<1> USE LoopAssumption
<1>1. CASE tasks = <<>>
  BY <1>1 DEF SleepTime
<1>2. CASE tasks # <<>> /\ schedule # {}
  <2> DEFINE e == CHOOSE e \in schedule : A!IsBegin(e)
  <2>1. e \in schedule /\ A!IsBegin(e)
    BY <1>2, BeginExists
  <2>2. SleepTime(MaxSleep) = IF e[1] - now < MaxSleep THEN e[1] - now ELSE MaxSleep
    BY <1>2 DEF SleepTime
  <2> HIDE DEF e
  <2>3. e[1] \in Int /\ now \in Int
    BY <2>1 DEF A!TypeOK, A!Time
  <2>4. ASSUME NEW t \in DOMAIN tasks PROVE e[1] <= tasks[t] /\ tasks[t] \in Int
    <3>1. <<tasks[t], t>> \in schedule
      BY DEF A!MapsAgree
    <3>2. tasks[t] \in Int
      BY DEF A!TypeOK, A!Time
    <3>3. <<tasks[t], t>> # e => A!Earlier(e, <<tasks[t], t>>)
      BY <2>1, <3>1 DEF A!IsBegin
    <3> QED BY <2>3, <3>2, <3>3 DEF A!Earlier
  <2> QED BY <2>1, <2>2, <2>3, <2>4
<1>3. CASE tasks # <<>> /\ schedule = {}
  <2>1. DOMAIN tasks = {}
    BY <1>3 DEF A!MapsAgree
  <2>2. tasks = <<>>
    BY <2>1 DEF A!TypeOK
  <2> QED BY <1>3, <2>2
<1> QED BY <1>1, <1>2, <1>3
-----------------------------------------------------------------------------
(* The invariant of the loop.  refresh() runs in one place, and from its   *)
(* end to sleep_time() no task is left that was due when it read the       *)
(* clock; the first turn has no tasks.  So a task that is overdue at       *)
(* sleep_time() has become due in between, and what the wait is given      *)
(* follows; until its end neither tasks nor sockets change.                *)
RefreshPlace == phase # "idle" => pc = "refresh"

NoneLeft ==
  /\ pc = "start" => schedule = {}
  /\ pc \in {"ready", "sleep"} => \A e \in schedule : upto < e[1]

LoopInv == RefreshPlace /\ NoneLeft /\ NoOversleep /\ ReadyBeforeWait

(* The step that reads sleep_time() and gives it to the poller.            *)
LEMMA SleepInv ==
  ASSUME A!TypeOK, A!MapsAgree, LoopInv, Sleep
  PROVE  LoopInv'
<1> DEFINE d == SleepTime(MaxSleep)
<1> USE LoopAssumption DEF LoopInv
<1>1. /\ pc = "sleep" /\ pc' = "wait"
      /\ timeout' = ToMs(d) /\ since' = now
      /\ UNCHANGED <<now, tasks, schedule, phase, upto, connections, readied>>
  BY DEF Sleep, alarmVars
<1>2. /\ d \in Int /\ d <= MaxSleep
      /\ \A t \in DOMAIN tasks : d <= tasks[t] - now
      /\ d = MaxSleep \/ \E e \in schedule : d = e[1] - now
  BY SleepTimes
<1>3. now \in Int /\ upto \in Int /\ \A e \in schedule : e[1] \in Int
  BY DEF A!TypeOK, A!Time
<1>4. \A t \in DOMAIN tasks : tasks[t] \in Int
  BY DEF A!TypeOK, A!Time
<1> HIDE DEF d
<1>5. /\ ToMs(d) \in Int
      /\ ToMs(d) * TicksPerMs <= IF d < 0 THEN 0 ELSE d
      /\ -TicksPerMs < d => 0 <= ToMs(d)
  BY <1>2, Rounding
<1> DEFINE ticks == ToMs(d) * TicksPerMs
<1>6. ticks \in Int /\ ticks <= IF d < 0 THEN 0 ELSE d
  BY <1>5
<1> HIDE DEF ticks
<1>7. ToMs(d) < 0 => now - upto > TicksPerMs
  <2>1. ASSUME d = MaxSleep PROVE 0 <= ToMs(d)
    BY <1>5, <2>1
  <2>2. ASSUME NEW e \in schedule, d = e[1] - now, ToMs(d) < 0
        PROVE  now - upto > TicksPerMs
    <3>1. upto < e[1]
      BY <1>1 DEF NoneLeft
    <3>2. ~(-TicksPerMs < d)
      BY <1>5, <2>2
    <3> QED BY <1>3, <2>2, <3>1, <3>2
  <2> QED BY <1>2, <1>5, <2>1, <2>2
<1>8. 0 <= ToMs(d) => ticks <= MaxSleep
  BY <1>2, <1>6
<1>9. ASSUME NEW t \in DOMAIN tasks
      PROVE  now + ticks <= IF tasks[t] < now THEN now ELSE tasks[t]
  <2>1. d <= tasks[t] - now /\ tasks[t] \in Int
    BY <1>2, <1>4
  <2> QED BY <1>2, <1>3, <1>6, <2>1
<1>10. NoOversleep'
  BY <1>1, <1>5, <1>7, <1>8, <1>9 DEF NoOversleep, ticks
<1>11. (RefreshPlace /\ NoneLeft /\ ReadyBeforeWait)'
  BY <1>1 DEF RefreshPlace, NoneLeft, ReadyBeforeWait
<1> QED BY <1>10, <1>11

(* The clock is read by refresh(), and at its end nothing due is left.     *)
LEMMA RefreshInv ==
  ASSUME A!TypeOK, LoopInv,
         \/ RefreshStart \/ (\E e \in schedule : RefreshCall(e))
         \/ RefreshErase \/ RefreshEnd
  PROVE  LoopInv'
<1> USE DEF LoopInv, RefreshPlace, NoneLeft, ReadyBeforeWait, NoOversleep
<1>1. CASE RefreshStart
  BY <1>1, LoopAssumption DEF RefreshStart, A!RefreshStart
<1>2. ASSUME NEW e \in schedule, RefreshCall(e) PROVE LoopInv'
  BY <1>2 DEF RefreshCall, A!RefreshCall, loopVars
<1>3. CASE RefreshErase
  BY <1>3 DEF RefreshErase, A!RefreshErase, loopVars
<1>4. CASE RefreshEnd
  BY <1>4 DEF RefreshEnd, A!RefreshEnd, NextTurn
<1> QED BY <1>1, <1>2, <1>3, <1>4

(* Handlers run before refresh() or in it, so what they arm, cancel and    *)
(* make is seen by the rest of the turn.                                   *)
LEMMA HandlerInv ==
  ASSUME LoopInv, Handler
  PROVE  LoopInv'
<1> DEFINE Kept == /\ pc \in {"dispatch", "refresh"}
                   /\ UNCHANGED <<now, phase, upto, pc>>
<1>1. Kept
  <2>1. ASSUME NEW time \in A!Time, HandlerAt(time) PROVE Kept
    BY <2>1 DEF HandlerAt, HandlerRuns, A!At, loopVars
  <2>2. ASSUME NEW t \in A!Task, HandlerCancel(t) PROVE Kept
    BY <2>2 DEF HandlerCancel, HandlerRuns, A!Cancel, loopVars
  <2>3. ASSUME NEW s \in Socket, MakeSocket(s) \/ RemoveSocket(s) PROVE Kept
    BY <2>3 DEF MakeSocket, RemoveSocket, HandlerRuns, alarmVars
  <2>4. CASE Stop
    BY <2>4 DEF Stop, HandlerRuns, alarmVars
  <2> QED
    BY <2>1, <2>2, <2>3, <2>4 DEF Handler
<1> QED
  BY <1>1 DEF LoopInv, RefreshPlace, NoneLeft, ReadyBeforeWait, NoOversleep

(* Every step of the loop keeps its invariant.                             *)
LEMMA LoopStep ==
  A!TypeOK /\ A!MapsAgree /\ LoopInv /\ [Next]_vars => LoopInv'
<1> SUFFICES ASSUME A!TypeOK, A!MapsAgree, LoopInv, [Next]_vars PROVE LoopInv'
  OBVIOUS
<1> USE DEF LoopInv, RefreshPlace, NoneLeft, ReadyBeforeWait, NoOversleep
<1>1. CASE Start \/ (\E s \in Socket : Ready(s)) \/ AllReady
  <2>1. /\ pc \in {"start", "ready"} /\ pc' \in {"ready", "sleep", "done"}
        /\ pc' = "sleep" => connections \subseteq readied
        /\ UNCHANGED <<now, schedule, phase, upto, connections>>
        /\ pc = "start" => schedule = {}
    BY <1>1 DEF Start, Ready, AllReady, alarmVars
  <2>2. pc' = "sleep" => readied' = readied
    BY <1>1 DEF Start, Ready, AllReady
  <2> QED BY <2>1, <2>2
<1>2. CASE Sleep
  BY <1>2, SleepInv
<1>3. CASE WakeByEvent \/ WakeByTimeout \/ Dispatched
  <2>1. /\ pc \in {"wait", "dispatch"} /\ pc' \in {"dispatch", "refresh"}
        /\ UNCHANGED <<now, phase, upto>>
    BY <1>3 DEF WakeByEvent, WakeByTimeout, Dispatched, AfterEvents, alarmVars
  <2> QED BY <2>1
<1>4. CASE RefreshStart \/ (\E e \in schedule : RefreshCall(e)) \/ RefreshErase
             \/ RefreshEnd
  BY <1>4, RefreshInv
<1>5. CASE Handler
  BY <1>5, HandlerInv
<1>6. CASE Tick
  BY <1>6 DEF Tick, A!Tick, loopVars
<1>7. CASE WaitOn \/ Returned \/ UNCHANGED vars
  BY <1>7 DEF WaitOn, Returned, vars, alarmVars, loopVars
<1> QED
  BY <1>1, <1>2, <1>3, <1>4, <1>5, <1>6, <1>7 DEF Next, Loop

(* So it holds always, as the alarm keeps its own.                         *)
LEMMA LoopInvariance == Spec => []LoopInv
<1>1. Init => LoopInv
  BY LoopAssumption DEF Init, A!Init, LoopInv, RefreshPlace, NoneLeft,
                        ReadyBeforeWait, NoOversleep
<1> QED BY <1>1, LoopStep, AlarmTypesInLoop, MapsAgreeInLoop, PTL DEF Spec

(* The loop's own variables are well typed, and so are the alarm's in it.  *)
THEOREM LoopTypeCorrect == Spec => []TypeOK
<1> DEFINE Own == /\ pc \in Pc /\ working \in BOOLEAN
                  /\ connections \subseteq Socket /\ readied \subseteq Socket
                  /\ timeout \in Int /\ since \in A!Time
<1> USE DEF Own, Pc
<1>1. Init => Own
  <2>1. 0 \in A!Time
    BY LoopAssumption DEF A!Time
  <2>2. 0 \in Int
    OBVIOUS
  <2> QED BY <2>1, <2>2, Zenon DEF Init
<1>2. A!TypeOK /\ A!MapsAgree /\ Own /\ [Next]_vars => Own'
  <2> SUFFICES ASSUME A!TypeOK, A!MapsAgree, Own, [Next]_vars PROVE Own'
    OBVIOUS
  <2>1. CASE Start \/ (\E s \in Socket : Ready(s)) \/ AllReady
    BY <2>1 DEF Start, Ready, AllReady
  <2>2. CASE Sleep
    BY <2>2, SleepTimes, Rounding DEF Sleep, A!TypeOK
  <2>3. CASE WakeByEvent \/ WakeByTimeout \/ Dispatched
    BY <2>3 DEF WakeByEvent, WakeByTimeout, Dispatched, AfterEvents
  <2>4. CASE RefreshStart \/ (\E e \in schedule : RefreshCall(e)) \/ RefreshErase
    BY <2>4 DEF RefreshStart, RefreshCall, RefreshErase, loopVars
  <2>5. CASE RefreshEnd
    BY <2>5 DEF RefreshEnd, NextTurn
  <2>6. ASSUME NEW s \in Socket, MakeSocket(s) \/ RemoveSocket(s) PROVE Own'
    BY <2>6 DEF MakeSocket, RemoveSocket
  <2>7. CASE \/ \E time \in A!Time : HandlerAt(time)
             \/ \E t \in A!Task : HandlerCancel(t)
    BY <2>7 DEF HandlerAt, HandlerCancel, loopVars
  <2>8. CASE Stop \/ Tick
    BY <2>8 DEF Stop, Tick, loopVars
  <2>9. CASE WaitOn \/ Returned \/ UNCHANGED vars
    BY <2>9 DEF WaitOn, Returned, vars, loopVars
  <2> QED
    BY <2>1, <2>2, <2>3, <2>4, <2>5, <2>6, <2>7, <2>8, <2>9 DEF Next, Loop, Handler
<1>3. A!TypeOK /\ Own => TypeOK
  BY DEF TypeOK
<1> QED
  BY <1>1, <1>2, <1>3, AlarmTypesInLoop, MapsAgreeInLoop, PTL DEF Spec

(* No event of a socket is waited for before the socket is bound, or is    *)
(* connecting or listening, whenever handlers make sockets.                *)
THEOREM AlwaysReadyBeforeWait == Spec => []ReadyBeforeWait
<1>1. LoopInv => ReadyBeforeWait
  BY DEF LoopInv
<1> QED BY <1>1, LoopInvariance, PTL

(* No wait ends only after the time of a task or after max_sleep_time,     *)
(* whatever handlers arm and cancel and however long they take; and the    *)
(* loop waits for ever only after more than a millisecond from refresh()   *)
(* to sleep_time().                                                        *)
THEOREM WakesInTime == Spec => []NoOversleep
<1>1. LoopInv => NoOversleep
  BY DEF LoopInv
<1> QED BY <1>1, LoopInvariance, PTL
=============================================================================
