------------------------------- MODULE Player -------------------------------
(***************************************************************************)
(* The player program (src/player.cc): its TCP socket C to the radio, its  *)
(* UDP socket U for commands, the alarm (module Alarm) that closes C five  *)
(* seconds after the last data, and the loop that runs them until QUIT.    *)
(*                                                                         *)
(* What the bytes of the stream say is module Shoutcast; here data come,   *)
(* or do not.  Commands are datagrams, one to a notify() of U.             *)
(***************************************************************************)
EXTENDS Integers, Sequences, Functions

CONSTANTS
  MaxTime, MaxTask,  \* bounds of Alarm, MaxTask also of the data
  Wait,              \* the five seconds, in ticks
  MaxCommand         \* bound on the commands

ASSUME PlayerAssumption ==
  /\ MaxTime \in Nat /\ MaxTask \in Nat /\ MaxCommand \in Nat
  /\ Wait \in Nat \ {0}

VARIABLES
  now, tasks, schedule, counter, phase, upto, element, mark,  \* Alarm
  pc,           \* where work() is
  working,      \* Driver::working
  members,      \* Driver::connections
  connection,   \* C
  task,         \* the static variable of on_recv_data()
  bound,        \* does U have its port?
  replies,      \* titles in the write buffer of U
  batch,        \* the sockets whose events are still to be handled
  radio,        \* kernel: what there is of C
  inbox,        \* kernel: the commands that wait in U
  commands,     \* how many commands have come
  last          \* history: when on_recv_data() last ran, -1 before

A == INSTANCE Alarm

alarmVars == <<now, tasks, schedule, counter, phase, upto, element, mark>>
loop == <<pc, working, batch>>
client == <<connection, task, radio, last>>
server == <<bound, replies, inbox, commands>>
vars == <<alarmVars, loop, members, client, server>>

Command == {"PLAY or PAUSE", "TITLE", "QUIT", "unknown"}

Init ==
  /\ A!Init
  /\ pc = "ready" /\ working = TRUE /\ batch = {}
  /\ members = {"C", "U"}
  /\ connection = "none" /\ task = 0 /\ radio = "quiet" /\ last = -1
  /\ bound = FALSE /\ replies = 0 /\ inbox = <<>> /\ commands = 0
-----------------------------------------------------------------------------
(* The ready pass: C connects to its one address, U is bound to its port;  *)
(* that it is taken, or that the connection fails at once, stops nothing.  *)
Start ==
  /\ pc = "ready" /\ connection = "none"
  /\ connection' \in {"connecting", "up", "failed"}
  /\ bound' \in BOOLEAN
  /\ UNCHANGED <<alarmVars, loop, members, task, radio, last, replies, inbox, commands>>

(* A task that has become due since refresh() looked for due ones: more    *)
(* than a millisecond, and the wait is for ever (EventLoop.NoOversleep).   *)
Overdue == \E t \in DOMAIN tasks : tasks[t] <= now

(* The end of the ready pass, which ends the loop with the last socket and *)
(* alarm.                                                                  *)
AllReady ==
  /\ pc = "ready" /\ connection # "none"
  /\ IF schedule = {} /\ members = {}
       THEN pc' = "done"
       ELSE pc' = "wait" \/ (Overdue /\ pc' = "asleep")
  /\ UNCHANGED <<alarmVars, working, batch, members, client, server>>

(* epoll_wait returns, with events or, unless it waits for ever, without.  *)
Poll ==
  /\ pc \in {"wait", "asleep"}
  /\ batch' = {s \in members : \/ s = "C" /\ radio # "quiet"
                               \/ s = "U" /\ (inbox # <<>> \/ replies > 0)}
  /\ pc = "asleep" => batch' # {}
  /\ pc' = "batch"
  /\ UNCHANGED <<alarmVars, working, members, client, server>>
-----------------------------------------------------------------------------
Notify(s) ==
  /\ pc = "batch" /\ s \in batch
  /\ batch' = batch \ {s}
  /\ UNCHANGED <<pc, working>>

(* notify_connect(): on_connect asks for the stream; on_connect_error does *)
(* nothing, and C stays in the driver.                                     *)
Connected ==
  /\ connection = "connecting" /\ Notify("C")
  /\ connection' = IF radio = "data" THEN "up" ELSE "failed"
  /\ radio' = "quiet"
  /\ UNCHANGED <<alarmVars, members, task, last, server>>

HangUp ==
  /\ connection = "up" /\ radio = "end" /\ Notify("C")
  /\ connection' = "closed" /\ radio' = "quiet"
  /\ members' = members \ {"C"}
  /\ UNCHANGED <<alarmVars, task, last, server>>

CancelNever(t) == tasks                                          \* mutant

(* The tasks cancel(t) leaves; 0 and a task that has run are none.         *)
Uncancelled(t) == Restrict(tasks, DOMAIN tasks \ {t})

Due(until) == {<<until[t], t>> : t \in DOMAIN until}

(* on_recv_data(): the watchdog is cancelled and armed anew (at(), whose   *)
(* time is still to come).                                                 *)
Receive ==
  /\ connection = "up" /\ radio = "data" /\ Notify("C")
  /\ tasks' = [t \in DOMAIN Uncancelled(task) \cup {A!Fresh} |->
                 IF t = A!Fresh THEN now + Wait ELSE tasks[t]]
  /\ schedule' = Due(tasks')
  /\ counter' = A!Fresh
  /\ task' = A!Fresh
  /\ last' = now
  /\ radio' = "quiet"
  /\ UNCHANGED <<now, phase, upto, element, mark, connection, members, server>>

StopNot == working                                               \* mutant

(* Driver::stop()                                                          *)
Stop == FALSE

(* notify() of U: on_recv_msg() for one command, then one reply goes out.  *)
(* An unknown command is ignored; play() and pause() are in Shoutcast.     *)
Commanded ==
  /\ pc = "batch" /\ "U" \in batch
  /\ batch' = batch \ {"U"}
  /\ LET title == IF inbox # <<>> /\ Head(inbox) = "TITLE" THEN 1 ELSE 0
         quit == inbox # <<>> /\ Head(inbox) = "QUIT"
     IN  /\ \/ replies' = replies + title
            \/ replies > 0 /\ replies' = replies + title - 1
         /\ working' = IF quit THEN Stop ELSE working
  /\ inbox' = IF inbox = <<>> THEN inbox ELSE Tail(inbox)
  /\ UNCHANGED <<alarmVars, pc, members, client, bound, commands>>

(* The handlers have returned, or there was no event.                      *)
Dispatched ==
  /\ pc = "batch" /\ batch = {}
  /\ pc' = "refresh"
  /\ UNCHANGED <<alarmVars, working, batch, members, client, server>>
-----------------------------------------------------------------------------
RefreshStart ==
  /\ pc = "refresh"
  /\ A!RefreshStart
  /\ UNCHANGED <<loop, members, client, server>>

ShutDown == connection                                           \* mutant

(* disconnect(true) closes C at once.                                      *)
Disconnected == "closed"

(* The alarm disconnects C, also when it has closed since.                 *)
RefreshCall(e) ==
  /\ A!RefreshCall(e)
  /\ connection' = Disconnected
  /\ radio' = "quiet"
  /\ members' = members \ {"C"}
  /\ UNCHANGED <<loop, task, last, server>>

RefreshErase ==
  /\ A!RefreshErase
  /\ UNCHANGED <<loop, members, client, server>>

(* while(working)                                                          *)
RefreshEnd ==
  /\ A!RefreshEnd
  /\ pc' = IF working THEN "ready" ELSE "done"
  /\ UNCHANGED <<working, batch, members, client, server>>
-----------------------------------------------------------------------------
(* The radio accepts or refuses, sends, or ends the connection.            *)
Radio ==
  /\ pc # "done" /\ connection \in {"connecting", "up"}
  /\ \/ /\ radio = "quiet" /\ counter < MaxTask /\ now + Wait <= MaxTime
        /\ radio' = "data"
     \/ radio # "end" /\ radio' = "end"
  /\ UNCHANGED <<alarmVars, loop, members, connection, task, last, server>>

(* A command comes.                                                        *)
Send(c) ==
  /\ pc # "done" /\ bound
  /\ commands < MaxCommand
  /\ commands' = commands + 1
  /\ inbox' = Append(inbox, c)
  /\ UNCHANGED <<alarmVars, loop, members, client, bound, replies>>

(* Near MaxTime the clock waits for data to be handled.                    *)
Tick ==
  /\ pc # "done"
  /\ radio = "data" => now + Wait < MaxTime
  /\ A!Tick
  /\ UNCHANGED <<loop, members, client, server>>

(* epoll_wait(-1): only an event ends this wait.                           *)
WaitOn == pc = "asleep" /\ UNCHANGED vars

Returned == pc = "done" /\ UNCHANGED vars
-----------------------------------------------------------------------------
Loop ==
  \/ Start \/ AllReady \/ Poll
  \/ Connected \/ HangUp \/ Receive \/ Commanded \/ Dispatched
  \/ RefreshStart \/ (\E e \in schedule : RefreshCall(e)) \/ RefreshErase \/ RefreshEnd

Next == Loop \/ Radio \/ (\E c \in Command : Send(c)) \/ Tick \/ WaitOn \/ Returned

(* The loop goes round and time passes; the radio and the users do what    *)
(* they like.                                                              *)
Spec == Init /\ [][Next]_vars /\ WF_vars(Loop) /\ WF_vars(Tick)
-----------------------------------------------------------------------------
(* While the stream plays, exactly one watchdog is armed: the task that    *)
(* the static variable names, for five seconds after the data that came    *)
(* last.  An older one would close the stream too early, a forgotten one   *)
(* never.  After a hang-up at most that one is left.                       *)
Watchdog ==
  /\ DOMAIN A!Armed \subseteq {task}
  /\ connection = "up" /\ last >= 0 =>
       task \in DOMAIN A!Armed /\ tasks[task] = last + Wait

(* A stream that falls silent after its first data is closed, whatever     *)
(* commands come, as long as the loop wakes from its waits for ever.       *)
SilenceEnds ==
  []<>(pc # "asleep") =>
    \A n \in 1..MaxTask :
      connection = "up" /\ counter = n ~> counter > n \/ connection # "up" \/ pc = "done"

(* A QUIT that has come ends the program, whatever the radio does.         *)
QuitEnds == (\E i \in DOMAIN inbox : inbox[i] = "QUIT") ~> pc = "done"

(* The program ends with the stream.                                       *)
EndsWithStream == connection = "closed" ~> pc = "done"
=============================================================================
