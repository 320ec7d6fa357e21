# Verification of sik-radio

`sik-radio` is a small asynchronous I/O library (`src/asio/`) and two programs
built on it: `player`, which downloads a SHOUTcast radio stream and is
controlled over UDP, and `master`, which telnet users talk to and which
controls players. Both programs are one thread: an event loop that waits in
`epoll_wait`, runs the handlers of the events, and runs the alarms that are due.
What is hard in it is not parallelism but order: handlers called from handlers,
state that the kernel, the peer or an alarm changes between the look and the
step that relies on it, and sequences of calls nobody tested.

This directory holds TLA+ models of these parts, TLC configurations that check
them on small instances, and TLAPS proofs. `PROJECT.json` maps every definition
to the lines it models and lists runs, mutants, findings, hazards and theorems.

## The system

| component | state | operations | interacts with |
|---|---|---|---|
| alarm, `asio/alarm.hh` | two maps: task → time, (time, task) → action | `at`, `cancel`, `refresh`, `sleep_time` | called by handlers and by its own actions |
| driver, `asio/driver.*` | the set of sockets, `working` | `work`, `make_socket`, `remove_socket`, `stop` | poller, alarm, ready handlers |
| poller, `asio/epoll.*` | descriptor → socket | `add`, `modify`, `remove`, `wait` | kernel; calls `notify` |
| TCP socket, `asio/tcp.*`, `socket.hh` | descriptor, flags, two buffers, the events it waits for | `connect`, `disconnect`, `send`, `receive`, `notify` | kernel, poller; emits signals |
| TCP listener, `asio/tcp.hh` | descriptor | `listen`, `accept` | makes TCP sockets |
| UDP socket, `asio/udp.*` | descriptor, two queues of messages | `bind`, `send`, `receive`, `notify` | poller |
| processor and tasks, `asio/processor.hh` | the current task, its partial data | `task`, `finish` | driven by a TCP socket, calls back |
| signals, `asio/events.hh` | lists of slots | `trigger`, `add`, `remove` | everything |
| SHOUTcast client, `shoutcast.*` | header fields, `metaint`, title, `paused` | the read handlers, `play`, `pause` | processor, standard output |
| player, `player.cc` | the watchdog task | handlers of data and messages | client, alarm, UDP |
| master, `master.cc` | sessions, players, deques of title requests | telnet commands, answers, alarms | TCP, UDP, alarm |

What makes each part correct, and where it bites, is the list of hazards in
`PROJECT.json`. In short: the alarm must keep its two maps together while actions
call it again; the loop must neither miss an alarm nor sleep for ever; a socket
must neither lose, reorder nor duplicate bytes and must always be waiting for
the right events; the processor must not use a task that is deleted; the client
must not mistake audio for metadata; the master must match answers and
timeouts to the requests they belong to, and must not die of what the network
or a user does.

## Modules

| module | what it is |
|---|---|
| `Timers` | abstract specification of a timer queue |
| `Alarm` | `asio::Alarm`; implements `Timers` |
| `AlarmProofs` | theorems about `Alarm`, checked by TLAPS |
| `EventLoop` | `Driver::work()` with an `Alarm`, sockets to be readied, the timeout of the poller |
| `EventLoopProofs` | theorems about `EventLoop`, checked by TLAPS |
| `Poller` | the driver's set of sockets, the poller's map, the epoll instance and the numbers of descriptors |
| `PollerProofs` | theorems about `Poller`, checked by TLAPS |
| `Pipe` | abstract specification of one direction of a stream |
| `TcpSocket` | one TCP socket with kernel, peer and application; implements two `Pipe`s |
| `TcpSocketProofs` | theorems about `TcpSocket`, checked by TLAPS |
| `UdpSocket` | one UDP socket with kernel and application; implements two `Pipe`s of datagrams |
| `LineReaders` | the tasks `ReadTelnetLine` and `ReadLineCRLF`, byte by byte, with a telnet client |
| `Signals` | signals and slots, and their destructors |
| `AsioProofs` | theorems about `UdpSocket`, `LineReaders` and `Signals`, checked by TLAPS |
| `Shoutcast` | the SHOUTcast client on its processor, with the server |
| `ShoutcastProofs` | theorems about `Shoutcast`, checked by TLAPS |
| `Player` | the player program with an `Alarm` |
| `PlayerProofs` | theorems about `Player`, checked by TLAPS |
| `Master` | the master program with an `Alarm` |
| `MasterProofs` | theorems about `Master`, checked by TLAPS |
| `MC*` | the modules TLC is run on; their `.cfg` files give the constants |

`EventLoop`, `Player` and `Master` compose with the alarm: they declare its variables and take
its actions with `A == INSTANCE Alarm`, conjoined with their own.

### Alarm

`tasks` and the keys of `schedule` are the two maps; `counter` numbers the tasks.
An action is what it may do to the alarm: `At` and `Cancel` are enabled outside
`refresh()` and in the call of an action. `refresh()` is cut at that call:
`RefreshStart` reads the clock (`upto`), `RefreshCall` takes `schedule.begin()`
and calls it, `RefreshErase` erases after it. `mark` is a history variable.
`MayCancel` states the contract the code needs and its two programs keep: an
action does not cancel the task it runs for (without it `IteratorValid` fails,
and an `erase()` through it would be undefined). In the refinement a task leaves `armed` when its action
is called; the code takes it out afterwards. `latest`, the timer that expired last, is the
task of `element`: it tells a timer that expired from one that was disarmed, so the
order in which actions run is part of what is refined.

### EventLoop

`pc` follows `work()`: ready pass, the test that ends the loop, `sleep_time`,
wait, handlers, `refresh()`. The clock is read twice, by `refresh()` (`upto`) and by
`sleep_time()` (`since`), and moves between the two as it likes: the actions of
other alarms, `getaddrinfo` in the ready pass or the scheduler may take any time there. `ToMs`
rounds as `duration_cast` does. `WakeByTimeout` needs a timeout that is not negative,
as with `epoll_wait`; with a negative one the loop is `Asleep`, and only an event ends the
wait. Handlers do what concerns the loop.

### TcpSocket

The thread is in the event loop or other handlers (`idle`), about to run or in
`notify()`, or in slots of `on_connect` or `on_data_received`, the two signals
whose slots call the socket. Kernel and peer move between any two steps, so
`events` may be out of date when it is acted on. `RequestConnect` is the whole
recursion over addresses. `Level` is what epoll reports of a TCP socket.
`Calls` says what the application does: `reset` is the watchdog of the player,
`shutdown` is `disconnect(false)` (part of the library, called by neither
program), `early send` is a `send()` before the connection is up, `late send` one on a
closed socket, as by a session of the master. A process that dies stays at the `pc`
`assertion` or `exception`. When an attempt to connect fails, the incoming stream starts
over (`Restart` of `Pipe`): what the abandoned connection received was never seen.
`connected` and the destructor that reads it are left out, and so is `disconnect(false)`
of a socket that still connects. A write to a socket
that was shut down counts as an exception, though the kernel may raise SIGPIPE,
which ends the process as well.

### Poller

The other modules look at one socket each; here are several, and the two maps that
know them: `members` is `Driver::connections`, `connections` is
`Epoll::connections`. `fd`, `registered`, `queue` and `level` are the kernel's: the
table of descriptors, the epoll instance, its ready list, and what it would report of a
socket. `Open` takes the lowest free number, as the kernel does, so a number that
a handler closes is what the next handler of the same batch gets. `Wait` reports the first
`MaxEvents` of the ready list and moves them to its end, as Linux does; the array is
`events`, and each element carries, as history, the socket and the descriptor (`file`) it
is of. The loop of `wait()` looks numbers up one by one: `Notify` takes the next
event whose number is found (those before it are the "Unfound" ones).

A hang-up is cut where the code drops references to the socket: `HangUp` (the poller's),
`SocketClosed` (the driver's), `Return`. `self` is the reference `notify_transmission()`
holds, without which the socket would die between the last two. `Disconnect` is the
watchdog of the player, whose time is not modelled. `ReadyListener` is `listen()`: its
loop goes on after an address that worked, so a name with two addresses fails an
assertion. `AcceptNull` is `accept()` of a connection that has gone: it returns null, on which
`master.cc` builds a session, or throws.

`ReachesItsFile` holds because in one batch only a socket's own `notify()` closes it, and
`epoll_wait` reports a descriptor once: alarms, which close others, run between batches.

### UdpSocket

A `notify()` is `Read` (one datagram), the slots of `on_data_received`, `Write` (one
datagram), the slots of `on_data_sent`; `Send` and `Receive` may run in the slots or from
elsewhere. `ChangePoller` is the value of the variable `send()` does not initialise when
the buffer is not empty: either. Datagrams are numbers, so that both directions
are instances of `Pipe`; `arrived` counts what `recvfrom()` gave, since UDP itself may lose
anything. `Faults` is what else may happen: `send()` before `bind()`, no address to
bind, a datagram that is reported and gone, `sendto()` failing, no room.

### LineReaders

A client sends text, ends of lines and telnet sequences; `stream` holds the bytes, which reach
both tasks one by one, as `Processor` gives them. `meant` and `partial` are the
lines by the client's intention, built from the pieces it sends and not from the
bytes. `escaped` and `lost` follow what `IAC IAC` does: the code drops the character 255 and
takes the next byte for a command. The texts include bytes that are codes of commands
(240, 250), and options whose number is LF or IAC. `Doubled` is what the client owes the
master: IAC inside a subnegotiation comes twice, as telnet has it. `CutAtCrlf` speaks of
positions in `fed`, the bytes given so far: where a CR LF ends (`Ends`) and which came before
(`Before`).

### Signals

`Signal` and `Slot` are mirror images of each other, so both are objects with `links`. A
destructor walks its vector while `remove()` erases from it: undefined behaviour, modelled by
what `erase()` of libstdc++ leaves in `memory`. With two links the walk still finds the right
objects (the last element is not overwritten); with three it may not, and the assertion of
`remove()` fails: `LinksMutual` says that only then. No object of the programs has
more than two.

### Shoutcast

Every byte has the kind the server meant and a number the client looks at; a
header line counts as one byte. The steps of a data handler are `Collect`, one
action per handler of the client, and `Return`, which unwinds the nested loops
and deletes the tasks. `objects` are the tasks in memory, so use after deletion
and leaks can be stated. `title` values stand for titles, and a first metadata
byte of 0 for metadata that does not match the pattern. `heard` is a history: the audio
bytes that arrived, each with `paused` at that moment. What `paused` decides is the fate of
whole chunks, when their last byte is read: a pause that ends before it leaves nothing out.
An `icy-metaint` is a natural number here; of the others, one that is no number makes `stoi()`
throw, and a negative one is a chunk that is never complete (`shoutcast.cc:67`).

### Player

`work()` again, with the two sockets of the program: `connection` is `C`'s life, `bound` and
`replies` are `U`'s. `task` is the static variable of `on_recv_data()`, which keeps the
number of a task that has run. `Poll` takes the sockets that have something; a socket
is handled by what there is of it then. `RefreshCall` is the action of the watchdog, which
disconnects `C` whether or not it is still open. An error of `bind` or `connect` stops
nothing. The wait is not timed: from `wait` the loop may go on at once, as events and alarms
may come at any moment; but if a task became due after `refresh()` looked (`Overdue`), the wait
may be one for ever (`asleep`), as `EventLoop` finds, and then only an event ends it.
`Commanded` is a `notify()` of `U`: one command, one reply.

### Master

A batch of handlers (phase `idle` of the alarm), then `refresh()`, then the
ready pass (in `RefreshEnd`), which binds the UDP sockets made in the batch.
`connections` keeps closed sessions, as the code does, and the null entries of
`connections[id]`. A request is named by its alarm number and keeps its time `tp`, as the code
does. `asked` is the network: the queries whose answers may still come. `said` is what the
last step wrote to sessions. No exception is caught, so every one ends the process: `death`
names what it died of. `Network` and `Users` say what the environment does:

* `lose`, `reorder`, `late`, `stranger`: answers are lost, overtake each other, come
  after the timeout; datagrams come that nobody asked for;
* `unreachable`, `gone`: `sendto()` fails; `recvfrom()` fails or finds nothing;
* `hang up`, `reset`, `pipeline`, `huge id`, `abort`: users leave, reset the connection between
  `epoll_wait` and `read` or `write`, send the next command without waiting for the
  answer, use a number no int holds, give up before `accept`.

`mishap` collects what the network has done to answers: lost one while its request waited,
delayed it beyond the timeout, let it overtake another, or made one up.

A query waits in no write buffer: the delay of the buffer is part of that of the
network. A session reads one line at a time; lines are read already.

## Runs

| run | module | shows |
|---|---|---|
| `alarm` | `Alarm` | agreement of the maps, no rearming in the same `refresh()`, refinement of `Timers` |
| `event_loop` | `EventLoop` | when a wait ends at the latest, and when it may be one for ever; sockets ready before the wait; every alarm runs unless the loop stays in such a wait |
| `poller` | `Poller` | maps, epoll instance and descriptors agree; events reach the descriptor they are of; no use after destruction; nobody starves |
| `tcp` | `TcpSocket` | both directions are pipes; what the process may die of; the right events; connecting ends, bytes go out, the end is noticed |
| `small_parts` | `UdpSocket`, `LineReaders`, `Signals` | both directions are pipes of datagrams, and the poller waits for room exactly when needed; the lines a telnet client means, and cuts at CR LF only; nobody points at a dead object |
| `shoutcast` | `Shoutcast` | tasks used and deleted correctly; lines, audio and metadata kept apart in any segments; which chunks are written and which dropped; the title current |
| `player` | `Player` | one watchdog, of the data that came last; silence ends the stream unless the loop sleeps for ever; QUIT ends the program |
| `master` | `Master` | requests match alarms; no deque is popped empty; requests are dropped in time and not too soon; whose answer a session gets |
| `event_loop_hang` | `EventLoop` | violation: an alarm that came due since `refresh()` is never run |
| `master_data` | `Master` | violation: a late answer makes the master use a null session |
| `tcp_hang_up` | `TcpSocket` | violation: bytes that come with the FIN are lost |
| `player_end` | `Player` | violation: the program does not end with its stream |

The passing runs in more detail:

* `alarm`: clock to 4, three tasks: enough for two tasks at one time, one armed by an
  action and one cancelled by it.
* `event_loop`: two sockets, so that one can be made while another keeps the loop going. Two
  ticks are a millisecond, so that rounding shows: an alarm that is overdue by one tick when
  `sleep_time()` is asked gives a timeout of 0, one overdue by two a timeout of -1. The clock
  goes to 5, so both happen, and nothing limits how far it moves between two steps.
* `poller`: a listener, a client with two addresses and a watchdog, two sessions, `MaxEvents`
  2: more sockets than one batch takes, and a batch in which one socket closes and
  another is accepted or connects again.
* `tcp`: everything the application may call and resets by the network. `Chunk` is 2
  with three bytes in either direction, so reads and writes are split. The process dies of a
  reset that comes between `epoll_wait` and the call, of bytes left at
  `disconnect(false)`, and of sending on a closed socket: all uncaught exceptions;
  `DiesOnlyOf` says that there is nothing else.
* `small_parts`: three parts that share no state, so in a behaviour only one of them moves. Of
  `UdpSocket` four datagrams each way and all faults. Of `LineReaders` four pieces, of 15
  kinds, so that every sequence comes before, in and after a line. Of `Signals` two
  signals, three slots, up to three links, every order of adding, removing and destroying.
* `shoutcast`: `icy-metaint` of 0, 1, 2 or none, two headers, segments of up to 3
  bytes, so that boundaries fall everywhere; 4 audio bytes make two chunks or more, with a pause or a play before, in and between them.
  With 0 the client ends in the assertion of `ReadChunk`.
* `player`: two pieces of data, two commands, five ticks with a watchdog of two: a watchdog that
  is armed anew, one that runs, one that outlives a hang-up.
* `master`: everything users, players and network may do, two requests, two players, two
  sessions. `NotTooSoon` and `DroppedInTime` are the two sides of the three seconds: an alarm
  drops no request before its time, and a `refresh()` leaves none whose time had come
  when it read the clock. When that `refresh()` comes is a matter of the loop, which may
  sleep for ever, so there is no liveness here and no fairness is assumed. `AnswersShift`
  says what losses and delays do: with losses alone a session gets a title that was meant for
  it or for a later request, with delays alone for it or for an earlier one.
  Of the ends of the process (`death`) the run reaches all but `pop`.

The four violations: a task that comes due after `refresh()` and more than a millisecond before
`sleep_time()` reads the clock makes the timeout of `epoll_wait` negative, and the loop waits
for ever with the alarm armed (`driver.cc:15`); so the five seconds of the player and the
three of the master may never end. `connections[id]` in `master.cc` is indexed by the number
of a player and inserts a null session if no session has it, which `error()` dereferences when
an answer comes that no request waits for. The hang-up branch of `notify_transmission()` closes the socket before
it reads, so the end of a stream whose FIN comes with data is lost. And `work()` ends by itself
only without sockets and alarms, while the UDP socket of the player stays, so that the program
goes on after the radio has closed. `PROJECT.json` quotes what the documents say. The same
holds of a server that is silent from the start, for which no watchdog is ever armed, and of
a connection that fails.

The models show more, for which no configuration is kept:

| module | with | what happens |
|---|---|---|
| `TcpSocket` | `Calls = {"reset"}` | the watchdog disconnects a socket that a hang-up closed; its signals are emitted twice (`player.cc:45`) |
| `TcpSocket` | `Resets = TRUE` | a reset between `epoll_wait` and `write` ends the process (`tcp.cc:118`) |
| `TcpSocket` | `Calls = {"shutdown"}`, `Resets = FALSE` | `disconnect(false)` with bytes in `write_buffer`: the next `Output` writes to a socket that was shut down, and throws |
| `Poller` | two addresses of the listener's name | `listen()` opens the socket again and fails an assertion (`tcp.hh:121`) |
| `Master` | `Network = {"stranger"}` | a datagram of any host is the answer to the first request, or is reported to all sessions, as `master_data` shows of a late one |
| `Master` | `Network = {"late"}` | an answer after its timeout goes to the next request (`master.cc:86`) |
| `Master` | `Network = {"unreachable"}` | `sendto()` fails, and throws (`udp.cc:145`) |
| `Master` | `Users = {"reset"}` | a reset between `epoll_wait` and `read` or `write` throws (`tcp.cc:94`, `tcp.cc:118`) |
| `Master` | any | a request that times out is dropped without a word to its session (`master.cc:94`) |
| `Master` | `Users = {"hang up"}` | the answer to the request of a user who left is sent to a closed socket, and throws |
| `Master` | `Users = {"pipeline"}` | a command in the batch of its `CONNECT` is sent through a UDP socket that is not bound yet, and throws |
| `Master` | `Users = {"huge id"}` | `stoi()` of a player number no `int` holds throws |
| `LineReaders` | `SendIAC` | `IAC IAC`, the character 255, is lost together with the byte after it (`processor.hh:166`) |
| `Signals` | three links | a destructor fails the assertion of `remove()` (`events.hh:48`) |

Bounds: `MaxTime`, `MaxTask`, `MaxOut`, `MaxIn`, `MaxAddr`, `MaxHeader`, `MaxAudio`,
`MaxSession`, `MaxPlayer`, `MaxItem`, `MaxLinks`, `MaxCommand`, `MaxFd` cap what has no
bound in the code;
`Chunk`, `Segment`, `Unit`, `Default`, `Wait`, `MaxSleep`, `MaxEvents` stand for constants of the
code (4096 bytes, bytes of a read, 16, 4096, 3 s or 5 s, 10 s, 16), small so that both sides of
each boundary are met. No run uses symmetry.

Fairness. The thread of the loop runs on (`WF` of its own steps, never of handlers'
choices), because the code has no blocking call in it but `epoll_wait`; the clock
moves on; events may never come. In `TcpSocket` epoll is level-triggered and polled
again and again, slots return, the kernel answers a connection attempt (at the latest
with its own timeout) and finds room to write while the connection is up; a peer
need never send or close. In `Poller` the loop goes round, and the ready list of the
kernel, which rotates, does the rest. In `Player` loop and clock go on; radio and users do
what they like. Neither in `EventLoop` nor in `Player` does a wait for ever end by
fairness: events need not come, so their liveness properties say what holds if the loop
wakes again and again (`[]<>~Asleep`), and `event_loop_hang` what happens if not. `LineReaders`, `Signals`, `UdpSocket`, `Shoutcast` and `Master` have safety
properties only (`IsStream` of `UdpSocket` is a refinement without fairness).

## Proofs

`AlarmProofs` proves, for all bounds: `TypeCorrect`, `MapsAlwaysAgree`,
`IteratorAlwaysValid`, `NeverRearmedInSameRefresh` and `AlarmImplementsTimers`. The
assumption is `BoundsAssumption` (the two bounds are naturals). The inductive
invariant `IInv` joins the types, `MapsAgree`, the iterator and:
all tasks have numbers up to `counter`; while `refresh()` runs, tasks newer than
`mark` are due after `upto`, because `at()` reads the clock later than
`refresh()` did. That last fact is what makes `NoRearmInSameRefresh` inductive.
`TypeCorrect` needs types alone, and `AtInv`, `CancelInv` and `EraseInv` say what
each operation does to the rest. For the refinement each step has a
lemma: `At` arms, `Cancel` disarms, the call expires the soonest task,
the erase stutters.

`EventLoopProofs` proves, for every set of sockets and all bounds:

- `LoopUsesAlarm`: the loop with its handlers implements `Alarm`'s specification, so
  that what `AlarmProofs` proves carries over (`MapsAgreeInLoop`, which
  `sleep_time()` relies on, and the alarm's types);
- `LoopTypeCorrect` and `AlwaysReadyBeforeWait`;
- `WakesInTime`: the timeout the loop gives `epoll_wait` ends the wait no later than
  `max_sleep_time` and the next task allow, or at once if that task is overdue; it is negative
  only if more than a millisecond passed between the two looks at the clock. This is exact:
  the run `event_loop_hang` has such a timeout.

They assume `LoopAssumption` (the bounds are naturals and a millisecond is at least a
tick). The inductive invariant `LoopInv` joins `ReadyBeforeWait` and `NoOversleep` to
what they follow from: `refresh()` runs in one place of the turn (`RefreshPlace`), and
from its end to `sleep_time()` no task that was due at `upto` is left (`NoneLeft`), so that
a task can only be overdue by what has passed since. `Rounding`
is the arithmetic of `duration_cast`, and `BeginExists` shows that a schedule that is not
empty has a first element (`Least` of `AlarmProofs`: a set of naturals has a least one, by
well-founded induction).

`PollerProofs` proves, for every set of clients and sessions and every number of
descriptors, of events in a batch and of addresses: `PollerTypeCorrect`,
`PollerRegistered`, `PollerReachesItsFile` and `PollerNothingDangles`. It assumes
`PollerAssumption`: the bounds are naturals, a batch has room for an event, the kinds of
sockets are disjoint, and there is at most one listener, as in both programs. The
inductive invariant `Inv` joins the types to

- `Table`: an open descriptor has one number in the map of `Epoll`, in the epoll
  instance and in its socket; `Member`: its socket is the driver's;
- `QueueOK`: what is in the ready list is open, has something to report, and is in it
  once. Hence `EventsOK`: the events of a batch are of different sockets, so that the
  handler of one, which moves no descriptor but its own or one nobody had, cannot
  change the number of another (`EventsLeft`). This is why `ReachesItsFile` holds;
- `Unvisited`: a socket has no descriptor before its first visit in the ready pass,
  without which `listen()` could drop one it had;
- `Closing` and `Spare`, which say who holds a socket that closes itself, and that the
  model has a socket for the connection that waits.

`Moved` says what `open()` and `close()` do to the three maps, `Removed` and `Rotated` what
the two operations on the ready list keep, `Handled` is the step of every handler but
`Accept`.

What a pipe and its buffer share is `Carries(buffer, in, out)`: what came out and what is
in the buffer are together the first `in` items. Putting one in and taking some out keep it,
and are the two steps of `Pipe`.

`AsioProofs` is about three small modules of the library. Of `UdpSocket` it proves `UdpIsStream`, for any number of datagrams, from `Carries` of both
buffers, and `UdpPollerKnows`. The latter needs `Waiting`, which also says that an
unbound socket waits for nothing and that a socket with something to send waits for room
even while slots run.

Of `Signals` it proves `SignalsLinksMutual`, for any sets of signals and slots and any number
of links (`SignalsAssumption`: no object is both, `None` is none of them). The inductive
invariant `SignalsInv`, which TLC has checked as well, joins

- `Mutual`: each occurs in the links of the other as often (`Occurs`, the number of positions),
  and nobody in its own, so that `remove()` takes one from both sides. `RemovedFirst` and what
  precedes it say what `RemoveFirst` does to a sequence and to such numbers;
- `Gone`: an object that is gone has no links, hence by `Mutual` nobody is linked with it;
- `Destructor`: each turn of the loop has erased one element, and with two links what the
  iterator reads in its second turn, which is what `erase()` left in memory, is still the
  element that is left. With one link there is no second turn, so `remove()` can only fail
  where there were three.

Of `LineReaders` it proves both properties, for any bytes of text, options and payloads of
subnegotiations (`LineReadersAssumption`):

- `ReadersCutAtCrlf`: `CutInv` is the property with the types. A byte leaves the ends before it
  where they are and adds at most one, the last (`CrlfByteCuts`), so lines cut before stay
  and the buffer grows or starts over;
- `ReadersLinesAsMeant`: as with the client of SHOUTcast the bytes on their way are a path.
  `ByteOf(h, b)` is what `ReadTelnetLine` makes of a byte, on a record of mode, buffer and
  lines; `Leads(stream, Hearing, Meaning)` says that the bytes not yet given take it from
  where it is to what the client means by now, and that lines only grow on the way, which
  gives the prefix. `LinesInv` says that this holds until a sequence has begun by accident.
  The client adds to the far end (`LeadsOnce`, `LeadsTwice`, `LeadsThrough` a payload,
  `LeadsSequence`), the task takes the first step. `LeadsThrough` is where `Doubled` is
  needed: after each pair of IAC the reader is in the subnegotiation again.

`TcpSocketProofs` proves `TcpTypeCorrect`, `TcpDiesOnlyOf`, `TcpPollerKnows` and `TcpIsStream`,
for any number of bytes, of addresses and of bytes in a read or write
(`SizesAssumption`: three naturals and a positive one). `Inv` joins the properties to

- `Out` and `In`: `Carries` for each direction; on the way in there is also the kernel's
  queue, which follows what was read, and is all that arrived while there is a link;
- `Course`: what holds of a socket nobody connected, of one that connects (it has received
  nothing, which is why the incoming pipe may restart), and of an open one (its link is
  up or reset); and that a connecting socket is notified only of what
  `notify_connect()` handles, without which its `assert(false)` could fail.

`RequestConnect`, `CloseWith` and `Emit` have lemmas of their own (`Requested`, `Closed`,
`Emitted`), as many actions end in them.

`MasterProofs` proves the type invariant and every property of the run: `MasterTitlesMatchAlarms`,
`MasterNeverPopsEmpty`, `MasterDropsInTime`, `MasterNotTooSoon`, `MasterAnswersShift` and
`MasterUnexpectedIsStray`, for all that users and network may do and every bound, assuming
`MasterAssumption` (the bounds are naturals, the timeout is positive). Each step of the
master is one of the alarm or leaves it alone (`AlarmStep`), so the invariant of
`AlarmProofs` carries over. The rest of `Inv`:

- `TitlesMatchAlarms` itself needs `InTime`: no alarm is armed for later than a new request
  would be, so requests are due in the order in which they were made, and the alarm that
  runs is that of the front of the deque (`AlarmPops`), which `on_alarm()` pops without a look.
  `QueuePut` and `QueueDrop` say what the two operations on a deque keep;
- `Numbering`: which numbers above `connection_counter` may already be sessions. From it
  `FreeId`: `connection_id_gen()` finds a free number, and by a count of the sessions
  and players (`IdBounded`) one within the bounds;
- `Heard`: who waits for an answer is a session that has existed, so that there is somebody
  whom the answer is for;
- `TimesKept`: a request was made for the time its alarm is armed for. Cancelling and
  arming others does not move it, hence `NotTooSoon`;
- `NoneDue`: outside `refresh()` no task is left that was due when `refresh()` last read the
  clock, hence `DroppedInTime`;
- `Expected` and `Awaited`, the two halves of `AnswersShift`. While the network at most loses
  answers, each answer under way is one that a request waits for; while it is at most late,
  the answer to each waiting request is still under way. With neither, the answer that comes
  is that of the front (`FirstIsOldest`); with one of them it is of a request on one side of
  the front. `Expected` gives `UnexpectedIsStray` too.

`ShoutcastProofs` proves all properties of its run, for every `icy-metaint`, every size of
segments and any number of headers and audio bytes (`StreamAssumption`):
`ShoutcastTypeCorrect`, `ShoutcastTasksOwned`, `ShoutcastInSync`, `ShoutcastAudioInChunks` and
`ShoutcastTitleCurrent`. The idea is to look at the bytes on their way as a path. A
`Position` is what comes next in the stream and what is behind it; `Moves(p, b, q)`
says which byte can come at `p` and leads to `q`. The bytes in the buffer and in the
network lead from where the client is to where the server is:
`Leads(read_buffer \o net, Place(d), Source)`. The server extends the path at
its end (`LeadsOn`), the client goes one step along it (`LeadsFrom`), and where segments cut
it makes no difference. `InSync` is the first step of the path; the title
of the client is that of its position, which is the server's when nothing is under
way. `Inv` is in these parts:

- `Shape`, the types, and `Fresh`, the state before the connection;
- `Tasks`, the ownership, with a count: tasks that run and bytes to read are together at
  most a segment, so that the memory of the model suffices for the task that `make_shared`
  would make (`FreeExists`);
- `Course`: what the client knows when it collects which kind of task, and that the current
  one is not complete;
- `Output`: what was written is whole chunks. The arithmetic of chunks, which end at multiples
  of `metaint`, is in `Multiple` and `ChunkEnd`;
- `Progressing`: the first `d` audio bytes are written or dropped, those after them are in
  the current task, and the path leads on from there.

What a pause drops has an inductive invariant of its own, `Pauses` (`ShoutcastPauses`), on top
of `Inv`: each byte behind the client was written or dropped as its chunk's last byte says
(`ChunkEndsAt` finds that byte), and `Unread`: what the client is reading came under the
`paused` of this moment, as `pause()` is called only between two reads.

`PlayerProofs` proves `PlayerWatchdog`, and `PlayerClosedOnlyOfSilence`: when the alarm closes
the stream, no data has come for `Wait`. `Receive` cancels and arms in one step, so it is
not a step of the alarm; `Rearmed` shows the invariant of `AlarmProofs` for it, and every
other step is one of the alarm. `OnlyTask` is what makes `Watchdog` inductive: the alarm knows no
task but that of the static variable, and while that one runs the stream is closed already.

All invariants and refinements the passing runs check are theorems. Only model-checked:

- liveness, of `EventLoop`, `Poller`, `TcpSocket` and `Player`: TLAPS does not reason
  about fairness and ENABLED here;
- the four violations, which are counterexamples of TLC.

## Not modelled, and what is left

Six hazards have no property, each with its reason in `PROJECT.json`. Four of them end in a
step in which the process dies, which the models show and a property would only repeat:
`listen()` with a name of two addresses, an `icy-metaint` of 0, an answer to a session that
has hung up, and a command for a player whose UDP socket is not bound yet. The fifth is an action that
cancels its own task, which no program does (`MayCancel`); that the iterator of
`refresh()` is valid without it is a theorem (`IteratorAlwaysValid`). The sixth, the
depth of the nested loops of the processor, has no bound but the size of a read. What
could be added is an account of the addresses themselves and of several TCP sockets in one
loop, with buffers; `Poller` has the sockets without the bytes, `TcpSocket` the bytes of one.

Left out for good: `Address` (blocking name resolution, copies of `sockaddr`), the
interface declarations, the build, the empty commands START and AT, logging, and
the text of lines and titles; of `tcp.cc` the destructor (the one open
socket it meets is that of the stream, when the player returns from `main()` after QUIT) and `close_read()`, which nothing calls; of `processor.hh` `InfiniteStdout` and of
`shoutcast.cc` `skip_audio_data()`, which nothing uses.
