---------------------------- MODULE PlayerProofs ----------------------------
(***************************************************************************)
(* Theorems about the player, for every bound on its clock, data and       *)
(* commands, every time of its watchdog, and all that the radio and the    *)
(* users do.                                                               *)
(***************************************************************************)
EXTENDS Player, TLAPS

AP == INSTANCE AlarmProofs

Shape ==
  /\ task \in Nat
  /\ connection \in {"none", "connecting", "failed", "up", "closed"}
  /\ radio \in {"quiet", "data", "end"}

(* refresh() runs in one place of the turn of the loop.                    *)
InTurn == phase # "idle" => pc = "refresh"

(* Before the stream plays there is no data.                               *)
Silent == connection \in {"none", "connecting", "failed"} => last = -1

(* What the radio has sent finds room below the bounds.                    *)
Room == radio = "data" => counter < MaxTask /\ now + Wait <= MaxTime

(* The alarm knows no task but the one of the static variable, and when it *)
(* runs, it has closed the stream.                                         *)
OnlyTask ==
  /\ DOMAIN tasks \subseteq {task}
  /\ phase = "call" => connection = "closed"

(* While the stream plays, that task is armed; armed, it is for Wait after *)
(* the data.                                                               *)
Armed ==
  /\ connection = "up" /\ last >= 0 => task \in DOMAIN tasks
  /\ task \in DOMAIN tasks => tasks[task] = last + Wait

Inv ==
  /\ AP!IInv
  /\ Shape /\ InTurn /\ Silent /\ Room /\ OnlyTask /\ Armed
-----------------------------------------------------------------------------
LEMMA Bounds == MaxTime \in Nat /\ MaxTask \in Nat /\ Wait \in Nat \ {0}
BY PlayerAssumption

(* What AlarmProofs knows of the alarm, in the words of this module.       *)
LEMMA AlarmFacts ==
  ASSUME AP!IInv
  PROVE  /\ now \in 0..MaxTime /\ upto \in 0..MaxTime
         /\ counter \in 0..MaxTask /\ mark \in 0..MaxTask
         /\ DOMAIN tasks \subseteq 1..counter
         /\ tasks \in [DOMAIN tasks -> 0..MaxTime]
         /\ schedule = Due(tasks)
         /\ phase \in {"idle", "scan", "call"}
         /\ element \in (0..MaxTime) \X ((1..MaxTask) \cup {0})
<1>1. AP!TypeOK
  BY DEF AP!IInv
<1>2. DOMAIN tasks \subseteq 1..counter
  BY <1>1 DEF AP!IInv, AP!Numbered, AP!TypeOK, AP!Task
<1>3. schedule = Due(tasks)
  BY DEF AP!IInv, AP!MapsAgree, Due
<1> QED
  BY <1>1, <1>2, <1>3 DEF AP!TypeOK, AP!Time, AP!Task, AP!Phase

(* on_recv_data() cancels a task and arms one, two steps of the alarm.     *)
LEMMA Rearmed ==
  ASSUME Inv, Receive
  PROVE  /\ AP!IInv'
         /\ DOMAIN tasks' = {task'} /\ tasks'[task'] = now + Wait
<1>1. /\ radio = "data" /\ pc = "batch"
      /\ task' = counter + 1 /\ counter' = counter + 1
      /\ tasks' = [t \in DOMAIN Uncancelled(task) \cup {counter + 1} |->
                     IF t = counter + 1 THEN now + Wait ELSE tasks[t]]
      /\ schedule' = Due(tasks')
      /\ UNCHANGED <<now, phase, upto, element, mark>>
  BY DEF Receive, Notify, A!Fresh
<1>2. counter + 1 \in 1..MaxTask /\ now + Wait \in 0..MaxTime
  BY <1>1, AlarmFacts, Bounds DEF Inv, Room
<1>3. DOMAIN Uncancelled(task) = {}
  BY DEF Uncancelled, Restrict, Inv, OnlyTask
<1>4. DOMAIN tasks' = {task'} /\ tasks'[task'] = now + Wait
  BY <1>1, <1>3
<1>5. tasks' \in [DOMAIN tasks' -> 0..MaxTime]
  BY <1>1, <1>2, <1>3
<1>6. phase = "idle" /\ phase' = "idle"
  BY <1>1 DEF Inv, InTurn
<1>7. AP!TypeOK'
  <2>1. schedule' = {<<now + Wait, task'>>}
    BY <1>1, <1>4 DEF Due
  <2> QED
    BY <1>1, <1>2, <1>4, <1>5, <1>6, <2>1, AlarmFacts
       DEF Inv, AP!TypeOK, AP!Time, AP!Task, AP!Phase
<1>8. AP!MapsAgree'
  BY <1>1 DEF AP!MapsAgree, Due
<1>9. AP!Numbered'
  BY <1>1, <1>2, <1>4 DEF AP!Numbered
<1>10. AP!ArmedLater' /\ AP!IteratorValid'
  BY <1>6 DEF AP!ArmedLater, AP!IteratorValid
<1> QED BY <1>4, <1>7, <1>8, <1>9, <1>10 DEF AP!IInv

(* Every other step is one of the alarm, or leaves it alone.               *)
LEMMA AlarmStep ==
  ASSUME Next \/ UNCHANGED vars, ~Receive
  PROVE  [A!Next]_(A!alarmVars)
<1> USE DEF alarmVars, A!alarmVars
<1>1. CASE Start \/ AllReady \/ Poll \/ Connected \/ HangUp \/ Commanded \/ Dispatched
  BY <1>1 DEF Start, AllReady, Poll, Connected, HangUp, Commanded, Dispatched
<1>2. CASE RefreshStart \/ RefreshErase \/ RefreshEnd \/ Tick \/ \E e \in schedule : RefreshCall(e)
  BY <1>2 DEF RefreshStart, RefreshErase, RefreshEnd, Tick, RefreshCall, A!Next
<1>3. CASE Radio \/ WaitOn \/ Returned \/ UNCHANGED vars \/ \E c \in Command : Send(c)
  BY <1>3 DEF Radio, WaitOn, Returned, Send, vars
<1> QED BY <1>1, <1>2, <1>3 DEF Next, Loop

LEMMA AlarmInv ==
  ASSUME Inv, Next \/ UNCHANGED vars
  PROVE  AP!IInv'
<1>1. CASE Receive
  BY <1>1, Rearmed
<1>2. CASE ~Receive
  <2>1. [A!Next]_(A!alarmVars) => [AP!Next]_(AP!alarmVars)
    BY DEF A!Next, AP!Next, A!alarmVars, AP!alarmVars, A!Time, AP!Time, A!Task, AP!Task,
           A!At, AP!At, A!Future, AP!Future, A!Fresh, AP!Fresh,
           A!ClientRuns, AP!ClientRuns, A!Cancel, AP!Cancel, A!MayCancel, AP!MayCancel,
           A!Unscheduled, AP!Unscheduled, A!Restrict, AP!Restrict,
           A!RefreshStart, AP!RefreshStart, A!RefreshCall, AP!RefreshCall,
           A!IsBegin, AP!IsBegin, A!Earlier, AP!Earlier,
           A!RefreshErase, AP!RefreshErase, A!RefreshEnd, AP!RefreshEnd, A!Tick, AP!Tick
  <2>2. AP!IInv /\ [AP!Next]_(AP!alarmVars) => AP!IInv'
    BY Bounds, AP!StepInv
  <2> QED BY <1>2, <2>1, <2>2, AlarmStep DEF Inv
<1> QED BY <1>1, <1>2
-----------------------------------------------------------------------------
(* Every action keeps the invariant.                                       *)
LEMMA InvStep ==
  ASSUME Inv, Next \/ UNCHANGED vars
  PROVE  Inv'
<1>0. AP!IInv'
  BY AlarmInv
<1>f. /\ now \in 0..MaxTime /\ counter \in 0..MaxTask
      /\ phase \in {"idle", "scan", "call"}
  BY AlarmFacts DEF Inv
<1> USE DEF Inv, Shape, InTurn, Silent, Room, OnlyTask, Armed
<1>1. CASE Start
  BY <1>0, <1>1 DEF Start, loop, alarmVars
<1>2. CASE AllReady \/ Poll \/ Commanded \/ Dispatched \/ WaitOn \/ Returned
             \/ UNCHANGED vars
  <2>1. UNCHANGED <<alarmVars, client>>
    BY <1>2 DEF AllReady, Poll, Commanded, Dispatched, WaitOn, Returned, vars
  <2>2. phase' # "idle" => pc' = "refresh"
    BY <1>2, <2>1 DEF AllReady, Poll, Commanded, Dispatched, WaitOn, Returned, vars, loop, alarmVars
  <2> QED BY <1>0, <2>1, <2>2 DEF alarmVars, client
<1>3. CASE Connected
  BY <1>0, <1>3 DEF Connected, Notify, alarmVars
<1>4. CASE HangUp
  BY <1>0, <1>4 DEF HangUp, Notify, alarmVars
<1>5. CASE Receive
  <2>1. /\ DOMAIN tasks' = {task'} /\ tasks'[task'] = now + Wait
    BY <1>5, Rearmed
  <2>2. /\ task' = counter + 1 /\ last' = now /\ radio' = "quiet"
        /\ connection = "up" /\ UNCHANGED <<phase, pc, connection>>
    BY <1>5 DEF Receive, Notify, A!Fresh
  <2>3. phase = "idle"
    BY <1>5 DEF Receive, Notify
  <2> QED BY <1>0, <1>f, <2>1, <2>2, <2>3
<1>6. CASE RefreshStart
  BY <1>0, <1>6 DEF RefreshStart, A!RefreshStart, loop, client
<1>7. ASSUME NEW e \in schedule, RefreshCall(e) PROVE Inv'
  <2>1. /\ UNCHANGED <<now, tasks, counter, task, last, pc>>
        /\ connection' = "closed" /\ radio' = "quiet" /\ phase = "scan"
    BY <1>7 DEF RefreshCall, A!RefreshCall, loop, Disconnected
  <2> QED BY <1>0, <2>1
<1>8. CASE RefreshErase
  <2>1. /\ UNCHANGED <<now, counter, client, pc>>
        /\ phase = "call" /\ phase' = "scan"
        /\ DOMAIN tasks' \subseteq DOMAIN tasks
        /\ \A t \in DOMAIN tasks' : tasks'[t] = tasks[t]
    BY <1>8 DEF RefreshErase, A!RefreshErase, A!Restrict, loop
  <2> QED BY <1>0, <2>1 DEF client
<1>9. CASE RefreshEnd
  BY <1>0, <1>9 DEF RefreshEnd, A!RefreshEnd, client
<1>10. CASE Tick
  <2>1. /\ UNCHANGED <<tasks, counter, phase, client, pc>> /\ now' = now + 1
        /\ radio = "data" => now + Wait < MaxTime
    BY <1>10 DEF Tick, A!Tick, loop
  <2> QED BY <1>0, <1>f, <2>1, Bounds DEF client
<1>11. CASE Radio
  <2>1. /\ UNCHANGED <<alarmVars, pc, connection, task, last>>
        /\ radio' \in {"data", "end"}
        /\ radio' = "data" => counter < MaxTask /\ now + Wait <= MaxTime
    BY <1>11 DEF Radio, loop
  <2> QED BY <1>0, <2>1 DEF alarmVars
<1>12. CASE \E c \in Command : Send(c)
  BY <1>0, <1>12 DEF Send, alarmVars, loop, client
<1> QED
  BY <1>1, <1>2, <1>3, <1>4, <1>5, <1>6, <1>7, <1>8, <1>9, <1>10, <1>11, <1>12
     DEF Next, Loop

LEMMA InvInit == Init => Inv
<1> SUFFICES ASSUME Init PROVE Inv
  OBVIOUS
<1>1. AP!IInv
  <2>1. AP!Init
    BY DEF Init, A!Init, AP!Init
  <2> QED BY <2>1, Bounds, AP!InitInv
<1>2. DOMAIN tasks = {}
  BY DEF Init, A!Init
<1> QED
  BY <1>1, <1>2 DEF Init, A!Init, Inv, Shape, InTurn, Silent, Room, OnlyTask, Armed

(* The invariant holds always: of the alarm, the loop and the static       *)
(* variable of on_recv_data() (src/player.cc), which together know one     *)
(* watchdog.                                                               *)
THEOREM PlayerInvariance == Spec => []Inv
<1>1. Inv /\ [Next]_vars => Inv'
  BY InvStep
<1> QED BY <1>1, InvInit, PTL DEF Spec

(* While the stream plays, exactly one watchdog is armed, that of the data *)
(* which came last (on_recv_data() of src/player.cc), for any number of    *)
(* data and at any moment of the loop; after a hang-up at most that one.   *)
THEOREM PlayerWatchdog == Spec => []Watchdog
<1>1. Inv => Watchdog
  <2> SUFFICES ASSUME Inv PROVE Watchdog
    OBVIOUS
  <2>1. DOMAIN A!Armed = IF phase = "call" THEN DOMAIN tasks \ {element[2]} ELSE DOMAIN tasks
    BY DEF A!Armed, A!Restrict
  <2>2. DOMAIN A!Armed \subseteq {task}
    BY <2>1 DEF Inv, OnlyTask
  <2>3. connection = "up" /\ last >= 0 =>
          task \in DOMAIN A!Armed /\ tasks[task] = last + Wait
    BY <2>1 DEF Inv, OnlyTask, Armed
  <2> QED BY <2>2, <2>3 DEF Watchdog
<1> QED BY <1>1, PlayerInvariance, PTL

(* The alarm closes the stream only when there has been no data for Wait,  *)
(* however often data came and armed it anew (on_recv_data() of            *)
(* src/player.cc with the refresh() of src/asio/alarm.hh).                 *)
THEOREM PlayerClosedOnlyOfSilence ==
  Spec => [][\A e \in schedule : RefreshCall(e) => last + Wait <= now]_vars
<1>1. ASSUME Inv, NEW e \in schedule, RefreshCall(e) PROVE last + Wait <= now
  <2>1. e[1] <= upto
    BY <1>1 DEF RefreshCall, A!RefreshCall
  <2>2. upto <= now
    BY <1>1 DEF RefreshCall, A!RefreshCall, Inv, AP!IInv, AP!ArmedLater
  <2>3. PICK t \in DOMAIN tasks : e = <<tasks[t], t>>
    BY <1>1, AlarmFacts DEF Inv, Due
  <2>4. e[1] = last + Wait
    BY <1>1, <2>3 DEF Inv, OnlyTask, Armed
  <2>5. e[1] \in Nat /\ upto \in Nat /\ now \in Nat
    BY <1>1, <2>3, AlarmFacts, Bounds DEF Inv
  <2> QED BY <2>1, <2>2, <2>4, <2>5
<1>2. Inv /\ [Next]_vars =>
        [\A e \in schedule : RefreshCall(e) => last + Wait <= now]_vars
  BY <1>1
<1> QED BY <1>2, PlayerInvariance, PTL DEF Spec
=============================================================================
