----------------------------- MODULE Shoutcast -----------------------------
(***************************************************************************)
(* ShoutCastClient and the Processor that feeds it (src/shoutcast.cc,      *)
(* src/asio/processor.hh), with the server that sends the stream.          *)
(*                                                                         *)
(* The processor hands the bytes of the socket, one by one, to its task:   *)
(* an object that collects a line, a chunk or a byte, and then calls an    *)
(* action of the client, which gives the processor the next task.  Giving  *)
(* a task calls the loop of the processor again, below the task that is    *)
(* not yet deleted: `stack' holds those tasks.                             *)
(*                                                                         *)
(* A line of the header counts as one byte.  Every byte has a kind, which  *)
(* is what the server meant by it, and a number, which is all the client   *)
(* looks at; audio bytes are numbered as they are sent.                    *)
(***************************************************************************)
EXTENDS Integers, Sequences, SequencesExt, Functions

CONSTANTS
  MetaInts,   \* values of icy-metaint the server may send
  Default,    \* the chunk of a stream without metadata, 4096 in the code
  Unit,       \* the unit of the length of metadata, 16 in the code
  Segment,    \* bytes that may arrive together
  MaxHeader,  \* bound on the headers
  MaxAudio    \* bound on the audio bytes

ASSUME StreamAssumption ==
  /\ MetaInts \subseteq Nat
  /\ Default \in Nat \ {0} /\ Unit \in Nat \ {0} /\ Segment \in Nat \ {0}
  /\ MaxHeader \in Nat /\ MaxAudio \in Nat

VARIABLES
  pc,           \* where the thread is
  read_buffer,  \* of the socket
  stream,       \* does the processor still have its stream?
  task,         \* Processor::_task: a task object, 0 for nullptr
  objects,      \* the task objects that exist
  stack,        \* tasks whose action runs, the innermost first
  status,       \* response_status
  header,       \* response_headers["icy-metaint"], -1 if there is none
  metaint, title, paused,
  written,      \* the bytes written to standard output
  net,          \* bytes on their way from the server
  server,       \* what the server sends next
  sending,      \* how much of it is left
  interval,     \* the audio bytes between the server's metadata
  headers,      \* history: headers sent
  audio,        \* history: audio bytes sent
  dropped,      \* history: audio bytes of chunks that were not written
  titles,       \* history: title of the metadata the server has sent, so far
  heard         \* history: the audio bytes that arrived, each with `paused' then

client == <<stream, task, objects, stack, status, header, metaint, title, paused,
            written, dropped>>
origin == <<server, sending, interval, headers, audio, titles>>
vars == <<pc, read_buffer, net, client, origin, heard>>

Kind == {"status", "header", "blank", "audio", "length", "meta"}
Byte(kind, n) == [kind |-> kind, n |-> n]
OK == 200

Init ==
  /\ pc = "start"
  /\ read_buffer = <<>> /\ net = <<>>
  /\ stream = TRUE /\ task = 0 /\ objects = <<>> /\ stack = <<>>
  /\ status = -1 /\ header = -1 /\ metaint = 0
  /\ title = 0 /\ paused = TRUE
  /\ written = <<>> /\ dropped = {}
  /\ server = "status" /\ sending = 0 /\ interval = 0
  /\ headers = 0 /\ audio = 0 /\ titles = 0
  /\ heard = {}
-----------------------------------------------------------------------------
(* The server.                                                             *)
SendByte(b) ==
  /\ Len(net) < Segment
  /\ net' = Append(net, b)
  /\ UNCHANGED <<pc, read_buffer, client, heard>>

SendStatus ==
  /\ server = "status" /\ pc # "start"
  /\ \E s \in {OK, 404} : SendByte(Byte("status", s))
  /\ server' = "header"
  /\ UNCHANGED <<sending, interval, headers, audio, titles>>

(* A header: the interval of the metadata, or (-1) something else.         *)
SendHeader ==
  /\ server = "header" /\ headers < MaxHeader
  /\ \E m \in MetaInts \cup {-1} :
       /\ SendByte(Byte("header", m))
       /\ interval' = IF m = -1 THEN interval ELSE m
  /\ headers' = headers + 1
  /\ UNCHANGED <<server, sending, audio, titles>>

SendBlank ==
  /\ server = "header"
  /\ SendByte(Byte("blank", 0))
  /\ server' = "audio"
  /\ sending' = interval
  /\ UNCHANGED <<interval, headers, audio, titles>>

SendAudio ==
  /\ server = "audio" /\ audio < MaxAudio
  /\ interval = 0 \/ sending > 0
  /\ SendByte(Byte("audio", audio + 1))
  /\ audio' = audio + 1
  /\ sending' = IF interval = 0 THEN 0 ELSE sending - 1
  /\ server' = IF sending = 1 THEN "length" ELSE "audio"
  /\ UNCHANGED <<interval, headers, titles>>

SendLength ==
  /\ server = "length"
  /\ \E n \in 0..1 :
       /\ SendByte(Byte("length", n))
       /\ server' = IF n = 0 THEN "audio" ELSE "meta"
       /\ sending' = IF n = 0 THEN interval ELSE n * Unit
  /\ UNCHANGED <<interval, headers, audio, titles>>

(* The bytes of the metadata: the first one tells if there is a title.     *)
SendMeta ==
  /\ server = "meta"
  /\ \E t \in IF sending = Unit THEN 0..2 ELSE {0} :
       /\ SendByte(Byte("meta", t))
       /\ titles' = IF t = 0 THEN titles ELSE t
  /\ server' = IF sending = 1 THEN "audio" ELSE "meta"
  /\ sending' = IF sending = 1 THEN interval ELSE sending - 1
  /\ UNCHANGED <<interval, headers, audio>>
-----------------------------------------------------------------------------
(* Task objects: `size' is what is to be collected, `got' what has been.   *)
NewTask(kind, size) == [kind |-> kind, size |-> size, got |-> <<>>]

(* Memory for a new object.                                                *)
Free == CHOOSE o \in 1..Segment + 2 : o \notin DOMAIN objects

(* Objects with o |-> t.                                                   *)
With(o, t) == [p \in DOMAIN objects \cup {o} |-> IF p = o THEN t ELSE objects[p]]

OnConnect ==
  /\ pc = "start"
  /\ objects' = With(Free, NewTask("status", 1))
  /\ task' = Free
  /\ pc' = "idle"
  /\ UNCHANGED <<read_buffer, net, stream, stack, status, header, metaint, title,
                 paused, written, dropped, origin, heard>>

(* Data arrive: on_data_received calls the loop of the processor.          *)
Arrive ==
  /\ pc = "idle" /\ stream
  /\ net # <<>>
  /\ read_buffer' = read_buffer \o net
  /\ net' = <<>>
  /\ heard' = heard \cup {<<b.n, paused>> : b \in {a \in ToSet(net) : a.kind = "audio"}}
  /\ pc' = "loop"
  /\ UNCHANGED <<client, origin>>

(* The condition of the loop in data_received_handler().                   *)
MoreToDo == task # 0 /\ read_buffer # <<>>

Current == objects[task]
Collected == Append(Current.got, Head(read_buffer).n)
Complete == Len(Collected) = Current.size

Receive == read_buffer' = Tail(read_buffer)

Collect ==
  /\ pc = "loop" /\ MoreToDo
  /\ ~Complete
  /\ Receive
  /\ objects' = With(task, [Current EXCEPT !.got = Collected])
  /\ UNCHANGED <<pc, net, stream, task, stack, status, header, metaint, title, paused,
                 written, dropped, origin, heard>>

KeepNone == DOMAIN objects \ {task}                              \* mutant

(* The objects left when an action begins: the task whose action runs is   *)
(* deleted after it.                                                       *)
Kept == DOMAIN objects

(* The current task is complete, and its action gives the processor t.     *)
Continue(t) ==
  /\ Receive
  /\ objects' = [o \in Kept \cup {Free} |-> IF o = Free THEN t ELSE objects[o]]
  /\ task' = Free
  /\ stack' = <<task>> \o stack
  /\ UNCHANGED <<pc, net, stream, paused, origin, heard>>

Completes(kind) == pc = "loop" /\ MoreToDo /\ Complete /\ Current.kind = kind

(* read_status_line(): any other status leaves the processor without task. *)
ReadStatusLine ==
  /\ Completes("status")
  /\ status' = Collected[1]
  /\ IF status' = OK
       THEN Continue(NewTask("header", 1))
       ELSE /\ Receive
            /\ task' = 0
            /\ objects' = Restrict(objects, DOMAIN objects \ {task})
            /\ UNCHANGED <<pc, net, stream, stack, paused, origin, heard>>
  /\ UNCHANGED <<header, metaint, title, written, dropped>>

FirstChunkMeta ==                                                \* mutant
  NewTask("audio", IF header # -1 THEN header ELSE Default)

(* The chunk that follows the headers: with or without metadata after it.  *)
FirstChunk ==
  IF header # -1 THEN NewTask("audio", header) ELSE NewTask("audio_only", Default)

(* read_headers(); a ReadChunk of no bytes fails an assertion.  Left out   *)
(* are values that are no naturals: stoi() throws if there is no number,   *)
(* and a negative one is a chunk that is never complete.                   *)
ReadHeaders ==
  /\ Completes("header")
  /\ IF Head(read_buffer).kind = "blank"
       THEN /\ metaint' = FirstChunk.size
            /\ IF metaint' = 0
                 THEN pc' = "assertion" /\ UNCHANGED <<read_buffer, net, stream, task,
                                                      objects, stack, paused, origin,
                                                      heard>>
                 ELSE Continue(FirstChunk)
            /\ UNCHANGED header
       ELSE /\ header' = IF Collected[1] = -1 THEN header ELSE Collected[1]
            /\ Continue(NewTask("header", 1))
            /\ UNCHANGED metaint
  /\ UNCHANGED <<status, title, written, dropped>>

WriteOutAlways == written' = written \o Collected /\ UNCHANGED dropped  \* mutant

(* Audio goes to standard output in chunks, unless paused at its end.      *)
WriteOut ==
  IF paused
    THEN dropped' = dropped \cup ToSet(Collected) /\ UNCHANGED written
    ELSE written' = written \o Collected /\ UNCHANGED dropped

ReadAudioData ==
  /\ Completes("audio")
  /\ WriteOut
  /\ Continue(NewTask("length", 1))
  /\ UNCHANGED <<status, header, metaint, title>>

ReadAudioDataOnly ==
  /\ Completes("audio_only")
  /\ WriteOut
  /\ Continue(NewTask("audio_only", metaint))
  /\ UNCHANGED <<status, header, metaint, title>>

MetadataUnscaled(n) == NewTask("meta", n)                        \* mutant

(* The chunk of metadata whose length byte is n.                           *)
Metadata(n) == NewTask("meta", n * Unit)

ReadMetadataHeader ==
  /\ Completes("length")
  /\ Continue(IF Collected[1] > 0 THEN Metadata(Collected[1])
                                  ELSE NewTask("audio", metaint))
  /\ UNCHANGED <<status, header, metaint, title, written, dropped>>

TitleLast(data) == data[Len(data)]                               \* mutant

(* The title of metadata, `title' if it does not match the pattern.        *)
Title(data) == IF data[1] = 0 THEN title ELSE data[1]

ReadMetadataData ==
  /\ Completes("meta")
  /\ title' = Title(Collected)
  /\ Continue(NewTask("audio", metaint))
  /\ UNCHANGED <<status, header, metaint, written, dropped>>

(* The objects after `delete this' of the innermost task whose action ran. *)
Deleted == Restrict(objects, DOMAIN objects \ {Head(stack)})

(* The loop is over.  The outer loop below it deletes its task, and then   *)
(* finds the same condition.                                               *)
Return ==
  /\ pc = "loop" /\ ~MoreToDo
  /\ IF stack = <<>>
       THEN pc' = "idle" /\ UNCHANGED <<objects, stack>>
       ELSE /\ objects' = Deleted
            /\ stack' = Tail(stack)
            /\ UNCHANGED pc
  /\ UNCHANGED <<read_buffer, net, stream, task, status, header, metaint, title, paused,
                 written, dropped, origin, heard>>

(* play() and pause(), from handlers of the UDP socket.                    *)
PlayOrPause ==
  /\ pc = "idle"
  /\ paused' = ~paused
  /\ UNCHANGED <<pc, read_buffer, net, stream, task, objects, stack, status, header,
                 metaint, title, written, dropped, origin, heard>>

(* connection_closed_handler(), on on_peer_shutdown: the task is dropped   *)
(* and not deleted.                                                        *)
Close ==
  /\ pc = "idle" /\ stream
  /\ stream' = FALSE
  /\ task' = 0
  /\ UNCHANGED <<pc, read_buffer, net, objects, stack, status, header, metaint, title,
                 paused, written, dropped, origin, heard>>

Aborted == pc = "assertion" /\ UNCHANGED vars
-----------------------------------------------------------------------------
Server == SendStatus \/ SendHeader \/ SendBlank \/ SendAudio \/ SendLength \/ SendMeta
Action == \/ ReadStatusLine \/ ReadHeaders \/ ReadAudioData \/ ReadAudioDataOnly
          \/ ReadMetadataHeader \/ ReadMetadataData
Processor == Arrive \/ Collect \/ Action \/ Return

Next == Server \/ OnConnect \/ Processor \/ PlayOrPause \/ Close \/ Aborted

Spec == Init /\ [][Next]_vars
-----------------------------------------------------------------------------
(* The values of the variables.                                            *)
TypeOK ==
  /\ pc \in {"start", "idle", "loop", "assertion"}
  /\ {read_buffer, net} \subseteq Seq([kind : Kind, n : Int])
  /\ {stream, paused} \subseteq BOOLEAN
  /\ DOMAIN objects \subseteq 1..Segment + 2
  /\ \A o \in DOMAIN objects :
       /\ objects[o].kind \in Kind \cup {"audio_only"}
       /\ Len(objects[o].got) <= objects[o].size
  /\ status \in {-1, OK, 404}
  /\ {header, metaint} \subseteq MetaInts \cup {-1, 0, Default}
  /\ {title, titles} \subseteq 0..2
  /\ written \in Seq(1..MaxAudio) /\ dropped \subseteq 1..MaxAudio
  /\ heard \subseteq Int \X BOOLEAN

(* The loop never calls a task that is deleted, no task is deleted while   *)
(* its action still runs, however deep actions nest, and when the handler  *)
(* has returned every task but the current one was deleted, while the      *)
(* connection lasts.                                                       *)
TasksOwned ==
  /\ task \in DOMAIN objects \cup {0}
  /\ ToSet(stack) \subseteq DOMAIN objects \ {task}
  /\ \A i, j \in DOMAIN stack : i # j => stack[i] # stack[j]
  /\ pc = "idle" /\ stream => DOMAIN objects = {task} \ {0}

Expected(kind) ==
  CASE kind = "header" -> {"header", "blank"}
    [] kind = "audio_only" -> {"audio"}
    [] OTHER -> {kind}

(* The client takes every byte for what the server meant by it, however    *)
(* the stream is cut into segments: lines, audio, lengths and metadata do  *)
(* not get mixed up.                                                       *)
InSync ==
  pc = "loop" /\ MoreToDo => Head(read_buffer).kind \in Expected(Current.kind)

WholeChunks ==
  \A i \in 1..Len(written) :
    IF (i - 1) % metaint = 0
      THEN (written[i] - 1) % metaint = 0 /\ (i > 1 => written[i - 1] < written[i])
      ELSE written[i] = written[i - 1] + 1

Arrived(n) == n <= audio /\ ~\E i \in DOMAIN net : net[i] = Byte("audio", n)

(* The last byte of the chunk of n.                                        *)
ChunkLast(n) == n + ((-n) % metaint)

NoneWaits ==
  pc = "idle" /\ stream /\ metaint > 0 =>
    ToSet(written) \cup dropped = {n \in 1..audio : Arrived(ChunkLast(n))}

PauseDecides ==
  metaint > 0 => /\ \A n \in ToSet(written) : <<ChunkLast(n), FALSE>> \in heard
                 /\ \A n \in dropped : <<ChunkLast(n), TRUE>> \in heard

(* Standard output gets whole chunks of consecutive audio bytes, in their  *)
(* order, none twice; when the handler has returned every chunk whose last *)
(* byte has arrived is written or dropped: none waits for more data; and   *)
(* it is dropped if the client was paused when that last byte arrived,     *)
(* written if not, however often the user pauses and plays meanwhile.      *)
AudioInChunks == WholeChunks /\ NoneWaits /\ PauseDecides

(* The title is that of the last metadata with a title the server sent.    *)
TitleCurrent ==
  pc = "idle" /\ stream /\ status = OK /\ net = <<>> /\ server # "meta"
    => title = titles
=============================================================================
