------------------------------- MODULE Alarm -------------------------------
(***************************************************************************)
(* asio::Alarm, the timer queue of the event loop (src/asio/alarm.hh).     *)
(*                                                                         *)
(* The class keeps every task twice: `tasks' gives the time of a task, and *)
(* `schedule', a std::map ordered by <<time, task>>, gives the action to   *)
(* run.  The action itself is abstracted: what an action does to the alarm *)
(* is to call at() and cancel() again, and the model lets it do so.        *)
(*                                                                         *)
(* at() and cancel() are called from outside refresh() (a socket handler)  *)
(* or from the action refresh() is running, so refresh() is split at the   *)
(* call: an iteration of its loop is RefreshCall (read schedule.begin(),   *)
(* call the action) and, when the action returns, RefreshErase.            *)
(***************************************************************************)
EXTENDS Integers, Functions

CONSTANTS
  MaxTime,  \* bound on the clock
  MaxTask   \* bound on the tasks armed, so on `counter' (64 bits in the code)

ASSUME BoundsAssumption == MaxTime \in Nat /\ MaxTask \in Nat

VARIABLES
  now,       \* steady_clock::now()
  tasks,     \* time of every task
  schedule,  \* the keys of the map `schedule', <<time, task>>
  counter,   \* the last task number given out
  phase,     \* where refresh() is
  upto,      \* the clock as refresh() read it on entry
  element,   \* the key `element' points at while its action runs
  mark       \* history: `counter' when refresh() was entered

alarmVars == <<now, tasks, schedule, counter, phase, upto, element, mark>>

Time == 0..MaxTime
Task == 1..MaxTask
Phase == {"idle",   \* not in refresh()
          "scan",   \* at the head of the loop of refresh()
          "call"}   \* in the call of the action of `element'

Init ==
  /\ now = 0
  /\ tasks = <<>>
  /\ schedule = {}
  /\ counter = 0
  /\ phase = "idle"
  /\ upto = 0
  /\ element = <<0, 0>>
  /\ mark = 0
-----------------------------------------------------------------------------
(* operator< of std::pair<time_point, task>.                               *)
Earlier(e, f) == e[1] < f[1] \/ (e[1] = f[1] /\ e[2] < f[2])

IsBeginHashed(e) == e \in schedule                              \* mutant

(* e is the element schedule.begin() points at.                            *)
IsBegin(e) == e \in schedule /\ \A f \in schedule \ {e} : Earlier(e, f)

(* Code runs that may call the alarm: a handler, or an action.             *)
ClientRuns == phase \in {"idle", "call"}

FutureLate(time) == now <= time                                  \* mutant

(* Is `time' still to come when at() reads the clock?                      *)
Future(time) == now < time

FreshPostIncrement == counter                                    \* mutant

(* The number of a new task, ++counter: never 0, which at() returns for    *)
(* an action it ran itself.                                                *)
Fresh == counter + 1

(* at(time, action): a time already reached runs the action on the spot    *)
(* and records nothing; the caller gets 0, which is no task.               *)
At(time) ==
  /\ ClientRuns
  /\ IF Future(time)
       THEN /\ counter < MaxTask
            /\ counter' = counter + 1
            /\ tasks' = [t \in DOMAIN tasks \cup {Fresh} |->
                           IF t = Fresh THEN time ELSE tasks[t]]
            /\ schedule' = schedule \cup {<<time, Fresh>>}
       ELSE UNCHANGED <<tasks, schedule, counter>>
  /\ UNCHANGED <<now, phase, upto, element, mark>>

(* The contract of the callers in src/: no action cancels the task that    *)
(* runs it.  The watchdog of the player disconnects, on_alarm() of the     *)
(* master drops a request; neither calls cancel().                         *)
MayCancel(t) == phase = "call" => t # element[2]

UnscheduledNot(t) == schedule                                    \* mutant

(* `schedule' after cancel() found the time of t and erased its action.    *)
Unscheduled(t) == schedule \ {<<tasks[t], t>>}

(* cancel(t): a number that is not a task any more is ignored.             *)
Cancel(t) ==
  /\ ClientRuns
  /\ MayCancel(t)
  /\ IF t \in DOMAIN tasks
       THEN /\ tasks' = Restrict(tasks, DOMAIN tasks \ {t})
            /\ schedule' = Unscheduled(t)
       ELSE UNCHANGED <<tasks, schedule>>
  /\ UNCHANGED <<now, counter, phase, upto, element, mark>>

RefreshStart ==
  /\ phase = "idle"
  /\ phase' = "scan"
  /\ upto' = now
  /\ mark' = counter
  /\ UNCHANGED <<now, tasks, schedule, counter, element>>

RefreshCall(e) ==
  /\ phase = "scan"
  /\ IsBegin(e)
  /\ e[1] <= upto
  /\ element' = e
  /\ phase' = "call"
  /\ UNCHANGED <<now, tasks, schedule, counter, upto, mark>>

RefreshErase ==
  /\ phase = "call"
  /\ schedule' = schedule \ {element}
  /\ tasks' = Restrict(tasks, DOMAIN tasks \ {element[2]})
  /\ phase' = "scan"
  /\ UNCHANGED <<now, counter, upto, element, mark>>

(* schedule.begin() is end(), or not due.                                  *)
RefreshEnd ==
  /\ phase = "scan"
  /\ \A e \in schedule : upto < e[1]
  /\ phase' = "idle"
  /\ UNCHANGED <<now, tasks, schedule, counter, upto, element, mark>>

(* The clock runs on, also while an action runs.                           *)
Tick ==
  /\ now < MaxTime
  /\ now' = now + 1
  /\ UNCHANGED <<tasks, schedule, counter, phase, upto, element, mark>>

Next ==
  \/ \E time \in Time : At(time)
  \/ \E t \in Task : Cancel(t)
  \/ RefreshStart
  \/ \E e \in schedule : RefreshCall(e)
  \/ RefreshErase
  \/ RefreshEnd
  \/ Tick

Spec == Init /\ [][Next]_alarmVars
-----------------------------------------------------------------------------
(* The values of the variables.                                            *)
TypeOK ==
  /\ now \in Time /\ upto \in Time
  /\ counter \in 0..MaxTask /\ mark \in 0..MaxTask
  /\ DOMAIN tasks \subseteq Task
  /\ tasks \in [DOMAIN tasks -> Time]
  /\ schedule \subseteq Time \X Task
  /\ phase \in Phase
  /\ element \in Time \X (Task \cup {0})

(* The two maps of the alarm hold the same tasks with the same times, at   *)
(* any moment at which other code can look: after at() and cancel() from   *)
(* handlers and from actions, and while refresh() is in a call.  cancel()  *)
(* finds the action through the time it reads in `tasks', and sleep_time() *)
(* tests `tasks' and then reads schedule.begin(), so they depend on it.    *)
MapsAgree == schedule = {<<tasks[t], t>> : t \in DOMAIN tasks}

(* While an action runs, the iterator refresh() will erase by is valid:    *)
(* its element is still in the map, whatever the action armed or           *)
(* cancelled within the contract, and it was due when refresh() began.     *)
IteratorValid ==
  phase = "call" => /\ element \in schedule
                    /\ element[1] <= upto
                    /\ upto <= now

(* A task armed by an action waits for a later refresh(): one refresh()    *)
(* runs only tasks that existed when it was entered, so actions that arm   *)
(* themselves again cannot keep the loop of refresh() from ending.         *)
NoRearmInSameRefresh == phase = "call" => element[2] <= mark

(* A task that an action is running has left the set of armed timers; the  *)
(* code takes it out of its maps only after the action.                    *)
Armed ==
  Restrict(tasks, IF phase = "call" THEN DOMAIN tasks \ {element[2]}
                                    ELSE DOMAIN tasks)

Abs == INSTANCE Timers
         WITH Instant <- Time, Timer <- Task, armed <- Armed, issued <- counter,
              latest <- element[2]

(* The alarm implements the timer queue: a task runs at most once, never   *)
(* after it was cancelled, not before its time, in the order of the times. *)
ImplementsTimers == Abs!Spec
=============================================================================
