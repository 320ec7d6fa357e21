---------------------------- MODULE AlarmProofs ----------------------------
(***************************************************************************)
(* Theorems about the timer queue, for every bound on the clock and on the *)
(* number of tasks.                                                        *)
(***************************************************************************)
EXTENDS Alarm, WellFoundedInduction, TLAPS

(* A set of natural numbers has a least one.                               *)
Below == {p \in Nat \X Nat : p[1] < p[2]}

LEMMA BelowWellFounded == IsWellFoundedOn(Below, Nat)
BY NatLessThanWellFounded DEF OpToRel, Below

LEMMA Least ==
  ASSUME NEW S \in SUBSET Nat, S # {}
  PROVE  \E m \in S : \A n \in S : m <= n
<1>1. PICK m \in S : \A n \in S : <<n, m>> \notin Below
  BY BelowWellFounded, WFMin
<1>2. ASSUME NEW n \in S PROVE m <= n
  <2>1. n \in Nat /\ m \in Nat
    OBVIOUS
  <2>2. n < m => <<n, m>> \in Below
    BY <2>1 DEF Below
  <2> QED BY <1>1, <2>1, <2>2
<1> QED BY <1>2
-----------------------------------------------------------------------------

(* What refresh() relies on.  No task is numbered above `counter'; during  *)
(* refresh() the clock has only moved on, and a task armed since it was    *)
(* entered lies after the time it looks at.                                *)
Numbered == \A t \in DOMAIN tasks : t <= counter

ArmedLater ==
  phase # "idle" =>
    /\ upto <= now
    /\ mark <= counter
    /\ \A t \in DOMAIN tasks : mark < t => upto < tasks[t]

IInv ==
  /\ TypeOK
  /\ MapsAgree
  /\ Numbered
  /\ ArmedLater
  /\ IteratorValid

-----------------------------------------------------------------------------
(* Every action keeps the variables in their types.                        *)
LEMMA TypeStep == TypeOK /\ [Next]_alarmVars => TypeOK'
<1> SUFFICES ASSUME TypeOK, [Next]_alarmVars PROVE TypeOK'
  OBVIOUS
<1> USE BoundsAssumption DEF TypeOK, Time, Task, Phase
<1>1. ASSUME NEW time \in Time, At(time) PROVE TypeOK'
  <2>1. CASE Future(time)
    <3>1. /\ counter' \in 0..MaxTask /\ Fresh \in Task
          /\ schedule' \subseteq Time \X Task
      BY <1>1, <2>1 DEF At, Fresh
    <3>2. /\ DOMAIN tasks' \subseteq Task
          /\ tasks' \in [DOMAIN tasks' -> Time]
      BY <1>1, <2>1, <3>1 DEF At
    <3> QED BY <1>1, <3>1, <3>2 DEF At
  <2>2. CASE ~Future(time)
    BY <1>1, <2>2 DEF At
  <2> QED BY <2>1, <2>2
<1>2. ASSUME NEW t \in Task, Cancel(t) PROVE TypeOK'
  BY <1>2 DEF Cancel, Restrict, Unscheduled
<1>3. CASE RefreshStart
  BY <1>3 DEF RefreshStart
<1>4. ASSUME NEW e \in schedule, RefreshCall(e) PROVE TypeOK'
  BY <1>4 DEF RefreshCall, IsBegin
<1>5. CASE RefreshErase
  BY <1>5 DEF RefreshErase, Restrict
<1>6. CASE RefreshEnd
  BY <1>6 DEF RefreshEnd
<1>7. CASE Tick
  BY <1>7 DEF Tick
<1>8. CASE UNCHANGED alarmVars
  BY <1>8 DEF alarmVars
<1> QED
  BY <1>1, <1>2, <1>3, <1>4, <1>5, <1>6, <1>7, <1>8 DEF Next

(* Type correctness of the timer queue.                                    *)
THEOREM TypeCorrect == Spec => []TypeOK
<1>1. Init => TypeOK
  BY BoundsAssumption DEF Init, TypeOK, Time, Task, Phase
<1> QED BY <1>1, TypeStep, PTL DEF Spec
-----------------------------------------------------------------------------
(* The invariant holds of an alarm that is empty.                          *)
LEMMA InitInv == Init => IInv
<1> SUFFICES ASSUME Init PROVE IInv
  OBVIOUS
<1>1. TypeOK
  BY BoundsAssumption DEF Init, TypeOK, Time, Task, Phase
<1>2. DOMAIN tasks = {}
  BY DEF Init
<1> QED
  BY <1>1, <1>2 DEF Init, IInv, MapsAgree, Numbered, ArmedLater, IteratorValid

(* at() adds one entry to either map, under a fresh number and with a time *)
(* that is still to come, so later than the time refresh() looks at.       *)
LEMMA AtInv ==
  ASSUME IInv, TypeOK', NEW time \in Time, At(time)
  PROVE  IInv'
<1> USE BoundsAssumption DEF IInv, TypeOK, Time, Task
<1>1. CASE Future(time)
  <2>1. /\ counter' = counter + 1 /\ Fresh = counter + 1
        /\ DOMAIN tasks' = DOMAIN tasks \cup {Fresh}
        /\ \A t \in DOMAIN tasks' :
             tasks'[t] = IF t = Fresh THEN time ELSE tasks[t]
        /\ schedule' = schedule \cup {<<time, Fresh>>}
        /\ UNCHANGED <<now, phase, upto, element, mark>>
    BY <1>1 DEF At, Fresh
  <2>2. Fresh \notin DOMAIN tasks
    BY <2>1 DEF Numbered
  <2>3. MapsAgree'
    BY <2>1, <2>2 DEF MapsAgree
  <2>4. Numbered'
    BY <2>1 DEF Numbered
  <2>5. ArmedLater'
    BY <1>1, <2>1 DEF ArmedLater, Future
  <2>6. IteratorValid'
    BY <2>1 DEF IteratorValid
  <2> QED BY <2>3, <2>4, <2>5, <2>6
<1>2. CASE ~Future(time)
  BY <1>2 DEF At, MapsAgree, Numbered, ArmedLater, IteratorValid
<1> QED BY <1>1, <1>2

(* cancel() removes the same task from both maps, and not the one whose    *)
(* action runs.                                                            *)
LEMMA CancelInv ==
  ASSUME IInv, TypeOK', NEW t \in Task, Cancel(t)
  PROVE  IInv'
<1> USE DEF IInv
<1>1. CASE t \in DOMAIN tasks
  <2>1. /\ DOMAIN tasks' = DOMAIN tasks \ {t}
        /\ \A u \in DOMAIN tasks' : tasks'[u] = tasks[u]
        /\ schedule' = schedule \ {<<tasks[t], t>>}
        /\ UNCHANGED <<now, counter, phase, upto, element, mark>>
    BY <1>1 DEF Cancel, Restrict, Unscheduled
  <2>2. MapsAgree'
    BY <1>1, <2>1 DEF MapsAgree
  <2>3. Numbered' /\ ArmedLater'
    BY <2>1 DEF Numbered, ArmedLater
  <2>4. IteratorValid'
    <3> SUFFICES ASSUME phase = "call" PROVE element \in schedule'
      BY <2>1 DEF IteratorValid
    <3>1. element[2] # t
      BY DEF Cancel, MayCancel
    <3> QED BY <2>1, <3>1 DEF IteratorValid
  <2> QED BY <2>2, <2>3, <2>4
<1>2. CASE t \notin DOMAIN tasks
  BY <1>2 DEF Cancel, MapsAgree, Numbered, ArmedLater, IteratorValid
<1> QED BY <1>1, <1>2

(* When an action returns, its element goes and so does its task.          *)
LEMMA EraseInv ==
  ASSUME IInv, TypeOK', RefreshErase
  PROVE  IInv'
<1> USE DEF IInv
<1> DEFINE id == element[2]
<1>1. /\ DOMAIN tasks' = DOMAIN tasks \ {id}
      /\ \A u \in DOMAIN tasks' : tasks'[u] = tasks[u]
      /\ schedule' = schedule \ {element}
      /\ phase = "call" /\ phase' = "scan"
      /\ UNCHANGED <<now, counter, upto, element, mark>>
  BY DEF RefreshErase, Restrict
<1>2. PICK t \in DOMAIN tasks : element = <<tasks[t], t>>
  BY <1>1 DEF IteratorValid, MapsAgree
<1>3. id = t
  BY <1>2
<1>4. MapsAgree'
  BY <1>1, <1>2, <1>3 DEF MapsAgree
<1>5. Numbered' /\ ArmedLater' /\ IteratorValid'
  BY <1>1 DEF Numbered, ArmedLater, IteratorValid
<1> QED BY <1>4, <1>5

(* Every action keeps the invariant.                                       *)
LEMMA StepInv == IInv /\ [Next]_alarmVars => IInv'
<1> SUFFICES ASSUME IInv, [Next]_alarmVars PROVE IInv'
  OBVIOUS
<1>t. TypeOK'
  BY TypeStep DEF IInv
<1> USE DEF MapsAgree, Numbered, ArmedLater, IteratorValid
<1>1. ASSUME NEW time \in Time, At(time) PROVE IInv'
  BY <1>1, <1>t, AtInv
<1>2. ASSUME NEW t \in Task, Cancel(t) PROVE IInv'
  BY <1>2, <1>t, CancelInv
<1>3. CASE RefreshStart
  <2>1. \A t \in DOMAIN tasks : ~(counter < t)
    BY <1>t DEF IInv, TypeOK, Task
  <2> QED BY <1>3, <1>t, <2>1 DEF RefreshStart, IInv, TypeOK, Time
<1>4. ASSUME NEW e \in schedule, RefreshCall(e) PROVE IInv'
  BY <1>4, <1>t DEF RefreshCall, IInv, Phase, TypeOK
<1>5. CASE RefreshErase
  BY <1>5, <1>t, EraseInv
<1>6. CASE RefreshEnd
  BY <1>6, <1>t DEF RefreshEnd, IInv
<1>7. CASE Tick
  BY <1>7, <1>t DEF Tick, IInv, TypeOK, Time
<1>8. CASE UNCHANGED alarmVars
  BY <1>8, <1>t DEF alarmVars, IInv
<1> QED
  BY <1>1, <1>2, <1>3, <1>4, <1>5, <1>6, <1>7, <1>8 DEF Next

(* So it holds always.                                                     *)
LEMMA Invariance == Spec => []IInv
BY InitInv, StepInv, PTL DEF Spec

(* The two maps hold the same tasks with the same times, always.           *)
THEOREM MapsAlwaysAgree == Spec => []MapsAgree
<1>1. IInv => MapsAgree
  BY DEF IInv
<1> QED BY Invariance, <1>1, PTL

(* refresh() never erases by an iterator that an action invalidated.       *)
THEOREM IteratorAlwaysValid == Spec => []IteratorValid
<1>1. IInv => IteratorValid
  BY DEF IInv
<1> QED BY Invariance, <1>1, PTL

(* One refresh() runs only tasks that existed when it was entered.         *)
THEOREM NeverRearmedInSameRefresh == Spec => []NoRearmInSameRefresh
<1>1. IInv => NoRearmInSameRefresh
  <2> SUFFICES ASSUME IInv, phase = "call" PROVE element[2] <= mark
    BY DEF NoRearmInSameRefresh
  <2>1. PICK t \in DOMAIN tasks : element = <<tasks[t], t>>
    BY DEF IInv, IteratorValid, MapsAgree
  <2>2. tasks[t] <= upto /\ element[2] = t
    BY <2>1 DEF IInv, IteratorValid
  <2>3. ~(mark < t)
    BY <2>2 DEF IInv, ArmedLater, TypeOK, Time, Task
  <2> QED BY <2>2, <2>3 DEF IInv, TypeOK, Task
<1> QED BY Invariance, <1>1, PTL
-----------------------------------------------------------------------------
(* The refinement.  at() arms, cancel() disarms, the call in refresh()     *)
(* expires a timer; the erasure after the call, and the rest of refresh(), *)
(* change nothing a client of a timer queue can see.                       *)

(* The task whose action runs is the one that is not armed any more.       *)
LEMMA RunningTask ==
  ASSUME IInv, phase = "call"
  PROVE  element[2] \in DOMAIN tasks /\ element = <<tasks[element[2]], element[2]>>
BY DEF IInv, IteratorValid, MapsAgree

(* at() arms a timer, or changes nothing when its time has come.           *)
LEMMA AtArms ==
  ASSUME IInv, NEW time \in Time, At(time)
  PROVE  Abs!Arm(time) \/ UNCHANGED Abs!vars
<1> USE BoundsAssumption DEF IInv, TypeOK, Time, Task
<1>1. CASE Future(time)
  <2>1. /\ Fresh = counter + 1 /\ counter' = counter + 1
        /\ counter' \in Task
        /\ tasks' = [t \in DOMAIN tasks \cup {Fresh} |->
                       IF t = Fresh THEN time ELSE tasks[t]]
        /\ UNCHANGED <<now, phase, element>>
    BY <1>1 DEF At, Fresh
  <2>2. phase = "call" => element[2] # counter'
    BY <2>1, RunningTask DEF Numbered
  <2>3. DOMAIN Armed' = DOMAIN Armed \cup {counter'}
    BY <2>1, <2>2 DEF Armed, Restrict
  <2>4. Armed' = [t \in DOMAIN Armed \cup {counter'} |->
                    IF t = counter' THEN time ELSE Armed[t]]
    BY <2>1, <2>2, <2>3 DEF Armed, Restrict
  <2> QED BY <1>1, <2>1, <2>4 DEF Abs!Arm, Future
<1>2. CASE ~Future(time)
  BY <1>2 DEF At, Abs!vars, Armed
<1> QED BY <1>1, <1>2

(* cancel() disarms the timer, if it is armed.                             *)
LEMMA CancelDisarms ==
  ASSUME IInv, NEW t \in Task, Cancel(t)
  PROVE  Abs!Disarm(t) \/ UNCHANGED Abs!vars
<1>1. CASE t \in DOMAIN tasks
  <2>1. /\ tasks' = Restrict(tasks, DOMAIN tasks \ {t})
        /\ UNCHANGED <<now, counter, phase, element>>
        /\ phase = "call" => t # element[2]
    BY <1>1 DEF Cancel, MayCancel
  <2>2. t \in DOMAIN Armed
    BY <1>1, <2>1 DEF Armed, Restrict
  <2>3. DOMAIN Armed' = DOMAIN Armed \ {t}
    BY <2>1 DEF Armed, Restrict
  <2>4. Armed' = Restrict(Armed, DOMAIN Armed \ {t})
    BY <2>1, <2>3 DEF Armed, Restrict
  <2> QED BY <2>1, <2>2, <2>4 DEF Abs!Disarm, Abs!Restrict, Restrict
<1>2. CASE t \notin DOMAIN tasks
  BY <1>2 DEF Cancel, Abs!vars, Armed
<1> QED BY <1>1, <1>2

(* refresh() calls the action of the soonest timer, which is due.          *)
LEMMA CallExpires ==
  ASSUME IInv, NEW e \in schedule, RefreshCall(e)
  PROVE  Abs!Expire(e[2])
<1> USE DEF IInv
<1>1. PICK t \in DOMAIN tasks : e = <<tasks[t], t>>
  BY DEF MapsAgree
<1>2. /\ phase = "scan" /\ phase' = "call" /\ element' = e
      /\ tasks[t] <= upto
      /\ UNCHANGED <<now, tasks, counter>>
  BY <1>1 DEF RefreshCall
<1>3. /\ DOMAIN Armed = DOMAIN tasks
      /\ \A u \in DOMAIN tasks : Armed[u] = tasks[u]
  BY <1>2 DEF Armed, Restrict
<1>4. t \in DOMAIN Armed /\ Armed[t] <= now
  BY <1>1, <1>2, <1>3, BoundsAssumption DEF ArmedLater, TypeOK, Time
<1>5. Abs!Soonest(t)
  <2> SUFFICES ASSUME NEW u \in DOMAIN tasks \ {t}
               PROVE  tasks[t] < tasks[u] \/ (tasks[t] = tasks[u] /\ t < u)
    BY <1>1, <1>3 DEF Abs!Soonest
  <2>1. <<tasks[u], u>> \in schedule \ {e}
    BY <1>1 DEF MapsAgree
  <2>2. Earlier(e, <<tasks[u], u>>)
    BY <2>1 DEF RefreshCall, IsBegin
  <2> QED BY <1>1, <2>2 DEF Earlier
<1>6. Armed' = Restrict(Armed, DOMAIN Armed \ {t}) /\ element'[2] = t
  BY <1>1, <1>2, <1>3 DEF Armed, Restrict
<1> QED BY <1>1, <1>2, <1>4, <1>5, <1>6 DEF Abs!Expire, Abs!Restrict, Restrict

(* The erasure after the action is not seen: the timer expired before it.  *)
LEMMA EraseStutters ==
  ASSUME IInv, RefreshErase
  PROVE  UNCHANGED Abs!vars
<1>1. /\ phase = "call" /\ phase' = "scan"
      /\ tasks' = Restrict(tasks, DOMAIN tasks \ {element[2]})
      /\ UNCHANGED <<now, counter, element>>
  BY DEF RefreshErase
<1>2. Armed' = Armed
  BY <1>1 DEF Armed, Restrict
<1> QED BY <1>1, <1>2 DEF Abs!vars

(* Every action is one of the timer queue, or changes nothing of it.       *)
LEMMA StepRefines == IInv /\ [Next]_alarmVars => [Abs!Next]_(Abs!vars)
<1> SUFFICES ASSUME IInv, [Next]_alarmVars PROVE [Abs!Next]_(Abs!vars)
  OBVIOUS
<1>1. ASSUME NEW time \in Time, At(time) PROVE [Abs!Next]_(Abs!vars)
  BY <1>1, AtArms DEF Abs!Next
<1>2. ASSUME NEW t \in Task, Cancel(t) PROVE [Abs!Next]_(Abs!vars)
  BY <1>2, CancelDisarms DEF Abs!Next
<1>3. CASE RefreshStart
  BY <1>3 DEF RefreshStart, Abs!vars, Armed
<1>4. ASSUME NEW e \in schedule, RefreshCall(e) PROVE [Abs!Next]_(Abs!vars)
  <2>1. e[2] \in Task
    BY DEF IInv, TypeOK
  <2> QED BY <1>4, <2>1, CallExpires DEF Abs!Next
<1>5. CASE RefreshErase
  BY <1>5, EraseStutters
<1>6. CASE RefreshEnd
  BY <1>6 DEF RefreshEnd, Abs!vars, Armed
<1>7. CASE Tick
  <2>1. now' \in Time /\ now < now'
    BY <1>7, BoundsAssumption DEF Tick, IInv, TypeOK, Time
  <2>2. UNCHANGED <<Armed, counter, element>>
    BY <1>7 DEF Tick, Armed
  <2> QED BY <2>1, <2>2 DEF Abs!Next, Abs!Pass
<1>8. CASE UNCHANGED alarmVars
  BY <1>8 DEF alarmVars, Abs!vars, Armed
<1> QED
  BY <1>1, <1>2, <1>3, <1>4, <1>5, <1>6, <1>7, <1>8 DEF Next

(* asio::Alarm implements the timer queue of Timers.                       *)
THEOREM AlarmImplementsTimers == Spec => ImplementsTimers
<1>1. Init => Abs!Init
  <2> SUFFICES ASSUME Init PROVE Abs!Init
    OBVIOUS
  <2>1. now \in Time /\ counter = 0 /\ element[2] = 0
    BY BoundsAssumption DEF Init, Time
  <2>2. Armed = <<>>
    BY DEF Init, Armed, Restrict
  <2> QED BY <2>1, <2>2 DEF Abs!Init
<1>2. IInv /\ [Next]_alarmVars => [Abs!Next]_(Abs!vars)
  BY StepRefines
<1> QED BY <1>1, <1>2, Invariance, PTL DEF Spec, ImplementsTimers, Abs!Spec
=============================================================================
