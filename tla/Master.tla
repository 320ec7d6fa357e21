------------------------------- MODULE Master -------------------------------
(***************************************************************************)
(* The master program (src/master.cc): telnet sessions, the players they   *)
(* connect to over UDP, and the TITLE requests that wait for an answer of  *)
(* a player or for the alarm of three seconds.                             *)
(*                                                                         *)
(* A turn of the event loop is a batch of handlers, in any order, then     *)
(* alarm->refresh() (module Alarm), then the ready pass, in which the UDP  *)
(* sockets that were made in the batch are bound.  `connections', as the   *)
(* std::map of the code, keeps every session for ever: closed ones too,    *)
(* and the null ones that connections[id] inserts.                         *)
(*                                                                         *)
(* A request is named by its alarm; `asked' holds the queries of requests  *)
(* whose answers are under way.                                            *)
(*                                                                         *)
(* An exception that leaves a handler ends the process: nothing in the     *)
(* program catches one.  `death' names the place it came from.             *)
(***************************************************************************)
EXTENDS Integers, Sequences, FiniteSets, Functions

CONSTANTS
  MaxTime, MaxTask,  \* bounds of Alarm, MaxTask also of the requests
  MaxSession,        \* bound on the sessions
  MaxPlayer,         \* bound on the players
  Wait,              \* the three seconds a request waits, in ticks
  Network,           \* what UDP, and the hosts on it, may do
  Users              \* what telnet users may do

ASSUME MasterAssumption ==
  /\ MaxTime \in Nat /\ MaxTask \in Nat /\ MaxSession \in Nat /\ MaxPlayer \in Nat
  /\ Wait \in Nat \ {0}
  /\ Network \subseteq {"lose", "reorder", "late", "stranger", "unreachable", "gone"}
  /\ Users \subseteq {"hang up", "reset", "pipeline", "huge id", "abort"}

VARIABLES
  now, tasks, schedule, counter, phase, upto, element, mark,  \* Alarm
  connections,         \* session id -> "open", "closed" or "null"
  connection_counter,
  players,             \* player id -> is its UDP socket bound?
  titles,              \* player id -> the deque of its requests
  owner,               \* alarm -> the player whose on_alarm() it calls
  asked,               \* player id -> the requests whose answers may come
  mishap,              \* history: what the network did to answers
  said,                \* what the last step sent to sessions
  death                \* what the process died of, or "none"

A == INSTANCE Alarm

alarmVars == <<now, tasks, schedule, counter, phase, upto, element, mark>>
vars == <<alarmVars, connections, connection_counter, players, titles, owner,
          asked, mishap, said, death>>

Player == 1..MaxPlayer
Session == DOMAIN connections
Open == {s \in Session : connections[s] = "open"}
Death == {"none",
          "accept", "reset", "recvfrom", "sendto",  \* system calls that fail
          "number",                                 \* stoi()
          "unbound",                                \* send() of a player's socket
          "closed", "null",                         \* a line to such a session
          "pop"}                                    \* pop_front() of no request
crashed == death # "none"

Init ==
  /\ A!Init
  /\ connections = <<>> /\ connection_counter = 0
  /\ players = <<>> /\ titles = <<>> /\ asked = <<>> /\ owner = <<>>
  /\ said = {} /\ mishap = {}
  /\ death = "none"
-----------------------------------------------------------------------------
(* f with x |-> y.                                                         *)
With(f, x, y) == [z \in DOMAIN f \cup {x} |-> IF z = x THEN y ELSE f[z]]

Line(s, what, request, query) ==
  [to |-> s, what |-> what, request |-> request, query |-> query]

(* Sends to S, in the order of their numbers: the first that is closed     *)
(* throws, the first that is null is dereferenced.                         *)
SendsTo(S) ==
  LET bad == {s \in S : connections[s] # "open"}
  IN  IF bad = {} THEN "none"
      ELSE connections[CHOOSE s \in bad : \A r \in bad : s <= r]

(* error(): a line to every session.                                       *)
Error ==
  /\ death' = SendsTo(Session)
  /\ said' = IF crashed' THEN {} ELSE {Line(s, "ERROR", 0, 0) : s \in Session}

(* Handlers of a batch.                                                    *)
Batch == ~crashed /\ phase = "idle"

(* connection_id_gen()                                                     *)
ConnectionId ==
  CHOOSE i \in connection_counter + 1 .. connection_counter + MaxPlayer + 1 :
    /\ i \notin Session
    /\ \A j \in connection_counter + 1 .. i - 1 : j \in Session

(* accepted(); when the client gave up ("abort"), accept() throws or       *)
(* returns null, which TelnetConnection dereferences.                      *)
Accepted ==
  /\ Batch
  /\ Cardinality({s \in Session : connections[s] # "null"}) < MaxSession
  /\ \/ /\ connections' = With(connections, ConnectionId, "open")
        /\ connection_counter' = ConnectionId
        /\ UNCHANGED death
     \/ /\ "abort" \in Users
        /\ death' = "accept"
        /\ connection_counter' \in {connection_counter, ConnectionId}
        /\ UNCHANGED connections
  /\ said' = {}
  /\ UNCHANGED <<alarmVars, players, titles, owner, asked, mishap>>

(* The user hangs up; the socket closes and nobody tells the session.  A   *)
(* reset after epoll_wait() has returned is met by read() or write(),      *)
(* which throw.                                                            *)
HangUp(s) ==
  /\ Batch
  /\ s \in Open
  /\ \/ /\ "hang up" \in Users
        /\ connections' = With(connections, s, "closed")
        /\ UNCHANGED death
     \/ /\ "reset" \in Users
        /\ death' = "reset"
        /\ UNCHANGED connections
  /\ said' = {}
  /\ UNCHANGED <<alarmVars, connection_counter, players, titles, owner, asked, mishap>>

(* CONNECT of session s: a new player, whose socket will be bound in the   *)
(* next ready pass.                                                        *)
Connect(s) ==
  /\ Batch
  /\ s \in Open
  /\ Cardinality(DOMAIN players) < MaxPlayer
  /\ LET id == Cardinality(DOMAIN players) + 1   \* player_id_gen(): none is erased
     IN  /\ players' = With(players, id, FALSE)
         /\ titles' = With(titles, id, <<>>)
         /\ asked' = With(asked, id, {})
         /\ said' = {Line(s, "OK", 0, 0)}
  /\ UNCHANGED <<alarmVars, connections, connection_counter, owner, death,
                 mishap>>

(* The players a command can name.  A user who waits for OK names one that *)
(* is bound by then; a user who does not ("pipeline") may be early.        *)
Named == {p \in DOMAIN players : players[p] \/ "pipeline" \in Users}

(* sendto() throws, in a later notify(), when the player is "unreachable"; *)
(* here at once, as nothing until then depends on it.                      *)
SendFails == "unreachable" \in Network /\ death' = "sendto"

(* UDPSocket::send() of a socket that is not bound throws: the poller does *)
(* not know it.                                                            *)
SendTo(p) ==
  IF players[p] THEN UNCHANGED death \/ SendFails ELSE death' = "unbound"

(* connections[id] with the id of a PLAYER: null is inserted if there is   *)
(* no session of that number.                                              *)
Guarded(p) == IF p \in Session THEN connections ELSE With(connections, p, "null")

PushFront(q, request) == <<request>> \o q                        \* mutant

(* titles.push_back()                                                      *)
PushBack(q, request) == Append(q, request)

(* TITLE p of session s: get_title() with now() = `now'.                   *)
Title(s, p) ==
  /\ Batch
  /\ s \in Open /\ p \in Named
  /\ now + Wait <= MaxTime
  /\ A!At(now + Wait)
  /\ connections' = Guarded(p)
  /\ titles' = [titles EXCEPT ![p] = PushBack(@, [task |-> A!Fresh, session |-> s,
                                                   tp |-> now + Wait])]
  /\ owner' = With(owner, A!Fresh, p)
  /\ asked' = [asked EXCEPT ![p] = @ \cup {A!Fresh}]
  /\ SendTo(p)
  /\ said' = {}
  /\ UNCHANGED <<connection_counter, players, mishap>>

(* PLAY, PAUSE or QUIT p, or a TITLE of no player, which does nothing; a   *)
(* number that is no int ("huge id") makes stoi() throw.                   *)
Command ==
  /\ Batch
  /\ Open # {}
  /\ \/ \E p \in Named : SendTo(p)
     \/ "huge id" \in Users /\ death' = "number"
  /\ said' = {}
  /\ UNCHANGED <<alarmVars, connections, connection_counter, players, titles,
                 owner, asked, mishap>>

CancelLast(q) == q[Len(q)].task                                  \* mutant

(* The alarm on_title() cancels: that of the request it answers.           *)
Cancelled(q) == Head(q).task

(* on_title(): the first request gets the answer, whatever it answers.     *)
OnTitle(p, query) ==
  IF titles[p] = <<>>
    THEN Error /\ UNCHANGED <<alarmVars, titles>>
    ELSE LET td == Head(titles[p])
         IN  /\ titles' = [titles EXCEPT ![p] = Tail(@)]
             /\ A!Cancel(Cancelled(titles[p]))
             /\ death' = SendsTo({td.session})
             /\ said' = IF crashed' THEN {}
                        ELSE {Line(td.session, "title", td.task, query)}

TasksOf(p) == {titles[p][i].task : i \in DOMAIN titles[p]}

Happened(kind, cond) == mishap' = IF cond THEN mishap \cup {kind} ELSE mishap

(* An answer comes; in the order of the queries unless UDP reorders.       *)
Answer(p, query) ==
  /\ Batch
  /\ query \in asked[p]
  /\ "reorder" \in Network \/ \A r \in asked[p] : query <= r
  /\ asked' = [asked EXCEPT ![p] = @ \ {query}]
  /\ OnTitle(p, query)
  /\ Happened("reorder", \E r \in asked[p] : r < query)
  /\ UNCHANGED <<connections, connection_counter, players, owner>>

(* Any host may send to the port of a player's socket.                     *)
Stranger(p) ==
  /\ Batch /\ "stranger" \in Network
  /\ players[p]
  /\ OnTitle(p, 0)
  /\ Happened("stranger", TRUE)
  /\ UNCHANGED <<connections, connection_counter, players, owner, asked>>

(* recvfrom() fails: it throws, or if the datagram is "gone" (EAGAIN) the  *)
(* buffer is cut to size -1, which throws too.                             *)
ReadFails(p) ==
  /\ Batch /\ "gone" \in Network
  /\ players[p]
  /\ death' = "recvfrom"
  /\ said' = {}
  /\ UNCHANGED <<alarmVars, connections, connection_counter, players, titles,
                 owner, asked, mishap>>

(* The query or the answer of a request is lost; nobody misses that of a   *)
(* request that has timed out.                                             *)
Lose(p, query) ==
  /\ ~crashed /\ "lose" \in Network
  /\ query \in asked[p]
  /\ asked' = [asked EXCEPT ![p] = @ \ {query}]
  /\ Happened("lose", query \in TasksOf(p))
  /\ said' = {}
  /\ UNCHANGED <<alarmVars, connections, connection_counter, players, titles,
                 owner, death>>
-----------------------------------------------------------------------------
(* The end of a batch: refresh(), then the ready pass.                     *)
RefreshStart ==
  /\ ~crashed
  /\ A!RefreshStart
  /\ said' = {}
  /\ UNCHANGED <<connections, connection_counter, players, titles, owner,
                 asked, death, mishap>>

AfterAlarmKept(q) == q                                           \* mutant

(* titles.pop_front() of on_alarm().                                       *)
AfterAlarm(q) == Tail(q)

(* refresh() calls on_alarm() of the player that armed e: the first        *)
(* request is dropped, and tle() is not called.  pop_front() of an empty   *)
(* deque is undefined: the process is taken to die.  The answer never      *)
(* comes, or late.                                                         *)
RefreshCall(e) ==
  /\ ~crashed
  /\ A!RefreshCall(e)
  /\ LET p == owner[e[2]]
     IN  IF titles[p] = <<>>
           THEN death' = "pop" /\ UNCHANGED <<titles, asked, mishap>>
           ELSE /\ titles' = [titles EXCEPT ![p] = AfterAlarm(@)]
                /\ \/ /\ asked' = [asked EXCEPT ![p] = @ \ {e[2]}]
                      /\ UNCHANGED mishap
                   \/ /\ "late" \in Network /\ e[2] \in asked[p]
                      /\ Happened("late", TRUE)
                      /\ UNCHANGED asked
                /\ UNCHANGED death
  /\ said' = {}
  /\ UNCHANGED <<connections, connection_counter, players, owner>>

RefreshErase ==
  /\ A!RefreshErase
  /\ said' = {}
  /\ UNCHANGED <<connections, connection_counter, players, titles, owner,
                 asked, death, mishap>>

(* refresh() returns, and the ready pass binds every new socket.           *)
RefreshEnd ==
  /\ A!RefreshEnd
  /\ players' = [p \in DOMAIN players |-> TRUE]
  /\ said' = {}
  /\ UNCHANGED <<connections, connection_counter, titles, owner, asked,
                 death, mishap>>

Tick ==
  /\ ~crashed
  /\ A!Tick
  /\ said' = {}
  /\ UNCHANGED <<connections, connection_counter, players, titles, owner,
                 asked, death, mishap>>

Crashed == crashed /\ UNCHANGED vars
-----------------------------------------------------------------------------
Loop ==
  \/ RefreshStart
  \/ ~crashed /\ (RefreshErase \/ RefreshEnd)
  \/ \E e \in schedule : RefreshCall(e)

Handlers ==
  \/ Accepted
  \/ Command
  \/ \E s \in Session : HangUp(s) \/ Connect(s)
  \/ \E s \in Session, p \in DOMAIN players : Title(s, p)
  \/ \E p \in DOMAIN players : \E query \in asked[p] : Answer(p, query)
  \/ \E p \in DOMAIN players : Stranger(p) \/ ReadFails(p)

Lost == \E p \in DOMAIN players : \E query \in asked[p] : Lose(p, query)

Next == Loop \/ Handlers \/ Lost \/ Tick \/ Crashed

Spec == Init /\ [][Next]_vars
-----------------------------------------------------------------------------
(* The values of the variables.                                            *)
TypeOK ==
  /\ A!TypeOK
  /\ connections \in [Session -> {"open", "closed", "null"}]
  /\ Session \subseteq 1..MaxSession + MaxPlayer
  /\ connection_counter \in 0..MaxSession + MaxPlayer
  /\ DOMAIN players \subseteq Player
  /\ players \in [DOMAIN players -> BOOLEAN]
  /\ titles \in [DOMAIN players -> Seq([task : A!Task, session : Session, tp : A!Time])]
  /\ asked \in [DOMAIN players -> SUBSET A!Task]
  /\ owner \in [1..counter -> DOMAIN players]
  /\ death \in Death /\ mishap \subseteq {"lose", "reorder", "late", "stranger"}

(* The requests of a player and its alarms are the same, in the same       *)
(* order: a request waits as long as its alarm does, no alarm is left that *)
(* would drop the request of another one, and no request is left that      *)
(* nothing will ever drop.                                                 *)
TitlesMatchAlarms ==
  \A p \in DOMAIN players :
    /\ TasksOf(p) = {t \in DOMAIN A!Armed : owner[t] = p}
    /\ \A i, j \in DOMAIN titles[p] :
         i < j => /\ titles[p][i].task < titles[p][j].task
                  /\ tasks[titles[p][i].task] <= tasks[titles[p][j].task]

(* on_alarm() never pops from a deque without requests: however answers    *)
(* (which cancel alarms), timeouts and stray datagrams interleave, there   *)
(* are as many requests as alarms that will drop one.                      *)
NeverPopsEmpty == death # "pop"

(* A request waits no longer than to the first refresh() that reads the    *)
(* clock after its three seconds: in no batch is there one left whose time *)
(* had come then.  (When that refresh() comes is a matter of EventLoop.)   *)
DroppedInTime ==
  phase = "idle" =>
    \A p \in DOMAIN players : \A i \in DOMAIN titles[p] : upto < titles[p][i].tp

(* And no shorter: the alarm of a request that was answered drops none     *)
(* that still has time.                                                    *)
NotTooSoon ==
  [][\A e \in schedule :
       RefreshCall(e) => LET q == titles[owner[e[2]]]
                         IN  q # <<>> => q[1].tp <= now]_vars

(* A title goes to a session whose own query it answers, as long as the    *)
(* network answers in order and in time, also when players are silent and  *)
(* requests time out.  Of what is lost while a request waits, it goes to   *)
(* an earlier request than its own; of what is late, to a later one.       *)
AnswersShift ==
  \A m \in said : m.what = "title" =>
    /\ mishap \subseteq {"lose"} => m.request <= m.query
    /\ mishap \subseteq {"late"} => m.query <= m.request

(* Lost answers alone never make the master report an unexpected message   *)
(* to its sessions, or die of doing so.                                    *)
UnexpectedIsStray ==
  (\E m \in said : m.what = "ERROR") \/ death = "null" => ~(mishap \subseteq {"lose"})

(* The master survives what its players send: an answer that is late, and  *)
(* reported to every session, does not make it use one that is not there.  *)
RobustToData == death # "null"
=============================================================================
