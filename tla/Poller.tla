------------------------------- MODULE Poller -------------------------------
(***************************************************************************)
(* The sockets of one Driver, their poller (src/asio/epoll.cc) and the     *)
(* numbers the kernel gives their descriptors.                             *)
(*                                                                         *)
(* epoll_wait fills an array of max_events elements, and the poller looks  *)
(* every number in it up in its map when the turn of that event comes: by  *)
(* then handlers of the events before it have closed, opened and accepted  *)
(* sockets, and the kernel gives a new descriptor the lowest free number.  *)
(*                                                                         *)
(* What a socket does with its bytes is module TcpSocket; here a           *)
(* descriptor has nothing to report (`level' is "quiet"), or input (a      *)
(* connecting one: that it is connected), or its end (an error).           *)
(***************************************************************************)
EXTENDS Integers, Sequences, SequencesExt, Functions

CONSTANTS
  Listener,   \* TCP sockets that listen, made before the loop
  Client,     \* TCP sockets that connect, made before the loop
  Session,    \* TCP sockets made by accept()
  MaxFd,      \* numbers of descriptors
  MaxEvents,  \* events of one epoll_wait, 16 in the code
  MaxAddr,    \* addresses a name may have
  Aborts,     \* may a client give up before it is accepted?
  NoSocket

Socket == Listener \cup Client \cup Session

ASSUME PollerAssumption ==
  /\ MaxFd \in Nat /\ MaxAddr \in Nat
  /\ MaxEvents \in Nat \ {0}
  /\ Aborts \in BOOLEAN
  /\ NoSocket \notin Socket
  /\ Listener \cap Client = {} /\ Session \cap (Listener \cup Client) = {}
  /\ \A s, t \in Listener : s = t   \* neither program has two

VARIABLES
  pc,          \* where the thread is, or what it died of
  members,     \* Driver::connections
  todo,        \* the members the ready pass has still to visit
  ready_done,
  connecting,
  addresses,   \* how many addresses are left to a connecting client
  fd,          \* the descriptor of every socket, NoFd if it has none
  watchdog,    \* the clients that an alarm will disconnect
  notified,    \* the socket that closes in its notify_transmission()
  self,        \* the reference notify_transmission() holds to it
  connections, \* Epoll::connections
  events,      \* Epoll::events: those still to be handled
  registered,  \* kernel: the descriptors of the epoll instance
  queue,       \* kernel: the ready list of the epoll instance
  level,       \* kernel: what epoll would report of a socket
  file         \* history: how many descriptors the socket has had

driver == <<members, todo, ready_done>>
tcp == <<connecting, addresses, watchdog>>
notifying == <<notified, self>>
table == <<fd, connections, registered, file>>
kernel == <<queue, level>>
vars == <<pc, driver, tcp, notifying, events, table, kernel>>

NoFd == -1
Fd == 1..MaxFd
Fatal == {"null", "assertion", "exception"}

Init ==
  /\ pc = "ready"
  /\ members = Listener \cup Client /\ todo = members /\ ready_done = {}
  /\ connecting = {} /\ addresses = [s \in Socket |-> 0] /\ watchdog = {}
  /\ fd = [s \in Socket |-> NoFd]
  /\ notified = NoSocket /\ self = NoSocket
  /\ connections = <<>> /\ events = <<>>
  /\ registered = {} /\ queue = <<>>
  /\ level = [s \in Socket |-> "quiet"]
  /\ file = [s \in Socket |-> 0]
-----------------------------------------------------------------------------
ErasedNot(f) == DOMAIN connections                               \* mutant

(* The numbers Epoll::connections has after remove() of f.                 *)
Erased(f) == DOMAIN connections \ {f}

(* The descriptor of s, if it has one, is removed and closed (remove(),    *)
(* close()); then, unless f is NoFd, it gets f (open(), add()).            *)
Move(s, f) ==
  /\ fd' = [fd EXCEPT ![s] = f]
  /\ connections' = [g \in Erased(fd[s]) \cup ({f} \ {NoFd}) |->
                       IF g = f THEN s ELSE connections[g]]
  /\ registered' = (registered \ {fd[s]}) \cup ({f} \ {NoFd})
  /\ file' = IF f = NoFd THEN file ELSE [file EXCEPT ![s] = @ + 1]

(* Nothing more is to be reported of s.                                    *)
Quieted(s) ==
  /\ level' = [level EXCEPT ![s] = "quiet"]
  /\ queue' = RemoveFirst(queue, fd[s])

Close(s) == Move(s, NoFd) /\ Quieted(s)

(* The kernel gives s the lowest number no other socket has.               *)
Open(s) ==
  \E f \in Fd :
    /\ \A t \in Socket \ {s} : fd[t] # f
    /\ \A g \in 1..f - 1 : \E t \in Socket \ {s} : fd[t] = g
    /\ Move(s, f)

(* request_connect() with n addresses left; any number of them may fail at *)
(* once.                                                                   *)
RequestConnect(s, n) ==
  /\ Quieted(s)
  /\ \/ /\ \E left \in 1..n : addresses' = [addresses EXCEPT ![s] = left]
        /\ connecting' = connecting \cup {s}
        /\ Open(s)
     \/ /\ addresses' = [addresses EXCEPT ![s] = 0]
        /\ connecting' = connecting \ {s}
        /\ \/ n > 0 /\ Open(s)              \* connected at once
           \/ Move(s, NoFd)                 \* on_connect_error
-----------------------------------------------------------------------------
(* The ready pass of Driver::work() visits s for the first time.           *)
FirstVisit(s) ==
  /\ pc = "ready" /\ s \in todo \ ready_done
  /\ todo' = todo \ {s}
  /\ ready_done' = ready_done \cup {s}
  /\ UNCHANGED <<members, watchdog, notifying, events>>

ReadyClient(s) ==
  /\ s \in Client
  /\ FirstVisit(s)
  /\ \E n \in 0..MaxAddr : RequestConnect(s, n)
  /\ UNCHANGED pc

(* listen(): its loop goes on after an address that worked, and opening a  *)
(* second descriptor fails an assertion; it throws when none worked.       *)
ReadyListener(s) ==
  /\ s \in Listener
  /\ FirstVisit(s)
  /\ \/ MaxAddr > 0 /\ Open(s) /\ UNCHANGED pc
     \/ pc' = "exception" /\ UNCHANGED table
     \/ MaxAddr > 1 /\ pc' = "assertion" /\ UNCHANGED table
  /\ UNCHANGED <<connecting, addresses, kernel>>

(* A session has no ready handler; others have had theirs.                 *)
NothingToReady(s) ==
  /\ pc = "ready" /\ s \in todo
  /\ s \in Session \cup ready_done
  /\ todo' = todo \ {s}
  /\ ready_done' = ready_done \cup {s}
  /\ UNCHANGED <<pc, members, tcp, notifying, events, table, kernel>>

(* The end of the pass; the loop ends with the last socket (and alarm).    *)
AllReady ==
  /\ pc = "ready" /\ todo = {}
  /\ pc' = IF members = {} THEN "done" ELSE "wait"
  /\ UNCHANGED <<driver, tcp, notifying, events, table, kernel>>
-----------------------------------------------------------------------------
Owner(f) == CHOOSE s \in Socket : fd[s] = f

(* The ready descriptors epoll_wait reports: the first of the kernel.      *)
Reported == SubSeq(queue, 1, IF Len(queue) < MaxEvents THEN Len(queue) ELSE MaxEvents)

(* What the kernel writes for descriptor f.                                *)
Event(f) ==
  [fd |-> f, of |-> Owner(f), file |-> file[Owner(f)], what |-> level[Owner(f)]]

BatchMax(q) ==                                                   \* mutant
  q \o [i \in 1..MaxEvents - Len(q) |-> [Head(q) EXCEPT !.fd = NoFd]]

(* Of the array, the loop of wait() reads what epoll_wait has filled.      *)
Batch(q) == q

(* epoll_wait: what is reported goes to the end of the list, and stays in  *)
(* it while it is ready.                                                   *)
Wait ==
  /\ pc = "wait"
  /\ Reported # <<>>
  /\ events' = Batch([i \in DOMAIN Reported |-> Event(Reported[i])])
  /\ queue' = SubSeq(queue, Len(Reported) + 1, Len(queue)) \o Reported
  /\ pc' = "batch"
  /\ UNCHANGED <<driver, tcp, notifying, fd, connections, registered, file, level>>

Timeout ==
  /\ pc = "wait"
  /\ Reported = <<>>
  /\ pc' = "refresh"
  /\ UNCHANGED <<driver, tcp, notifying, events, table, kernel>>
-----------------------------------------------------------------------------
(* The next event whose number is found, or 0: "Unfound" ones are skipped.  *)
Found == SelectInSeq(events, LAMBDA e : e.fd \in DOMAIN connections)

Current == events[Found]

NoneLeft == <<>>                                                 \* mutant

(* The events after this one.                                              *)
Left == SubSeq(events, Found + 1, Len(events))

(* The poller calls notify() of socket s for the next event.               *)
Notify(s) ==
  /\ pc = "batch" /\ Found # 0
  /\ connections[Current.fd] = s
  /\ events' = Left
  /\ UNCHANGED <<todo, ready_done>>

Unmade == {s \in Session : file[s] = 0}
New == CHOOSE s \in Unmade : TRUE

(* accept(): the new socket is a member at once.                           *)
Accept(s) ==
  /\ s \in Listener
  /\ Notify(s)
  /\ level[s] # "quiet" /\ Quieted(s)
  /\ Open(New)
  /\ members' = members \cup {New}
  /\ UNCHANGED <<pc, tcp, notifying>>

(* accept() of a connection that has gone returns null, and master.cc      *)
(* builds a session on it; or it fails for another reason, and throws.     *)
AcceptNull(s) ==
  /\ s \in Listener
  /\ Notify(s)
  /\ level[s] = "quiet"
  /\ pc' \in {"null", "exception"}
  /\ UNCHANGED <<members, tcp, notifying, table, kernel>>

PreviousAddress(s) == addresses[s] + 1                           \* mutant

(* connect_current++                                                       *)
NextAddress(s) == addresses[s] - 1

(* notify_connect()                                                        *)
NotifyConnect(s) ==
  /\ s \in connecting
  /\ Notify(s)
  /\ IF Current.what = "end"
       THEN RequestConnect(s, NextAddress(s))
       ELSE /\ connecting' = connecting \ {s}
            /\ addresses' = [addresses EXCEPT ![s] = 0]
            /\ Quieted(s)
            /\ UNCHANGED table
  /\ UNCHANGED <<pc, members, watchdog, notifying>>

(* The read of a notify(); the slot of the player arms the watchdog.       *)
Read(s) ==
  /\ s \in (Client \cup Session) \ connecting
  /\ Notify(s)
  /\ Current.what = "input"
  /\ watchdog' = watchdog \cup ({s} \cap Client)
  /\ IF level[s] = "end" THEN UNCHANGED kernel ELSE Quieted(s)
  /\ UNCHANGED <<pc, members, connecting, addresses, notifying, table>>

SelfNone(s) == NoSocket                                          \* mutant

(* auto self = shared_from_this()                                          *)
SelfOf(s) == s

(* notify_transmission() of a hang-up: close(), by which the poller drops  *)
(* its pointer, and the signals; then socket_closed(), by which the driver *)
(* drops its own; then the end of notify_transmission().                   *)
HangUp(s) ==
  /\ s \in (Client \cup Session) \ connecting
  /\ Notify(s)
  /\ Current.what = "end"
  /\ notified' = s /\ self' = SelfOf(s)
  /\ Close(s)
  /\ pc' = "closed"
  /\ UNCHANGED <<members, tcp>>

SocketClosed ==
  /\ pc = "closed"
  /\ members' = members \ {notified}
  /\ pc' = "removed"
  /\ UNCHANGED <<todo, ready_done, tcp, notifying, events, table, kernel>>

Return ==
  /\ pc = "removed"
  /\ notified' = NoSocket /\ self' = NoSocket
  /\ pc' = "batch"
  /\ UNCHANGED <<driver, tcp, events, table, kernel>>

EndBatch ==
  /\ pc = "batch" /\ Found = 0
  /\ pc' = "refresh"
  /\ events' = <<>>
  /\ UNCHANGED <<driver, tcp, notifying, table, kernel>>
-----------------------------------------------------------------------------
(* disconnect(true) by the watchdog, also of a socket that is closed.      *)
Disconnect(s) ==
  /\ pc = "refresh" /\ s \in watchdog
  /\ watchdog' = watchdog \ {s}
  /\ Close(s)
  /\ members' = members \ {s}
  /\ UNCHANGED <<pc, todo, ready_done, connecting, addresses, notifying, events>>

EndRefresh ==
  /\ pc = "refresh"
  /\ pc' = "ready"
  /\ todo' = members
  /\ UNCHANGED <<members, ready_done, tcp, notifying, events, table, kernel>>
-----------------------------------------------------------------------------
(* The network: a connection comes, is established, sends, ends or fails.  *)
Stir(s) ==
  /\ pc \notin Fatal \cup {"done"}
  /\ fd[s] # NoFd
  /\ \/ /\ level[s] = "quiet"
        /\ s \in Listener => Unmade # {}
        /\ level' = [level EXCEPT ![s] = "input"]
     \/ /\ s \notin Listener /\ level[s] # "end"
        /\ level' = [level EXCEPT ![s] = "end"]
  /\ queue' = IF level[s] = "quiet" THEN Append(queue, fd[s]) ELSE queue
  /\ UNCHANGED <<pc, driver, tcp, notifying, events, table>>

(* The client that waits for accept() gives up.                            *)
Abort(s) ==
  /\ Aborts
  /\ s \in Listener
  /\ level[s] = "input" /\ Quieted(s)
  /\ pc \notin Fatal
  /\ UNCHANGED <<pc, driver, tcp, notifying, events, table>>

Ended ==
  /\ pc \in Fatal \cup {"done"}
  /\ UNCHANGED vars
-----------------------------------------------------------------------------
Ready(s) == ReadyClient(s) \/ ReadyListener(s) \/ NothingToReady(s)

Handle(s) == Accept(s) \/ AcceptNull(s) \/ NotifyConnect(s) \/ Read(s) \/ HangUp(s)

Loop ==
  \/ \E s \in Socket : Ready(s) \/ Handle(s)
  \/ AllReady \/ Wait \/ Timeout
  \/ SocketClosed \/ Return \/ EndBatch
  \/ EndRefresh

Next ==
  \/ Loop
  \/ \E s \in Socket : Disconnect(s) \/ Stir(s) \/ Abort(s)
  \/ Ended

(* The loop goes round; when the watchdog runs is a matter of time.        *)
Spec == Init /\ [][Next]_vars /\ WF_vars(Loop)
-----------------------------------------------------------------------------
Level == {"quiet", "input", "end"}

(* The values of the variables.                                            *)
TypeOK ==
  /\ pc \in {"ready", "wait", "batch", "closed", "removed", "refresh", "done"} \cup Fatal
  /\ {members, todo, ready_done} \subseteq SUBSET Socket
  /\ {connecting, watchdog} \subseteq SUBSET Client
  /\ addresses \in [Socket -> 0..MaxAddr]
  /\ fd \in [Socket -> Fd \cup {NoFd}]
  /\ {notified, self} \subseteq Socket \cup {NoSocket}
  /\ registered \subseteq Fd
  /\ connections \in [DOMAIN connections -> Socket]
  /\ queue \in Seq(Fd)
  /\ level \in [Socket -> Level] /\ file \in [Socket -> Nat]
  /\ Len(events) <= MaxEvents

(* The map of the poller, the epoll instance and the sockets agree in      *)
(* every state: each open descriptor is registered, is found under its     *)
(* number, and belongs to a socket of the driver; a number that was closed *)
(* and given again leads to its new socket only.                           *)
Registered ==
  /\ DOMAIN connections = registered
  /\ registered = {fd[s] : s \in Socket} \ {NoFd}
  /\ \A f \in registered : connections[f] \in members /\ fd[connections[f]] = f

(* Every event of a batch reaches the socket the kernel meant, and on the  *)
(* descriptor it meant: whatever the handlers of the events before it      *)
(* closed, opened and accepted, no number has changed hands.               *)
ReachesItsFile ==
  pc = "batch" =>
    \A i \in DOMAIN events :
      LET e == events[i]
      IN  /\ e.fd \in DOMAIN connections /\ connections[e.fd] = e.of
          /\ file[e.of] = e.file

(* No socket is destroyed while it is used: one that closes itself in its  *)
(* notify() is held by somebody until that returns, and the ready pass     *)
(* walks over sockets the driver still has.                                *)
NothingDangles ==
  /\ notified # NoSocket =>
       notified \in members \cup Range(connections) \cup {self}
  /\ pc = "ready" => todo \subseteq members

(* Whatever other sockets do, and if there are more ready ones than one    *)
(* wait reports, a socket that has something to handle is handled.         *)
EveryoneServed ==
  \A s \in Socket : level[s] # "quiet" ~> level[s] = "quiet" \/ pc \in Fatal
=============================================================================
