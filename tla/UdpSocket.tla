----------------------------- MODULE UdpSocket -----------------------------
(***************************************************************************)
(* One asio::UDPSocket (src/asio/udp.cc), the kernel's queues of its       *)
(* datagrams and the application that uses it.  A notify() receives one    *)
(* datagram and sends one; the slots of its signals, which call receive()  *)
(* and send(), run in between.                                             *)
(*                                                                         *)
(* Datagrams are numbers: the application sends 1, 2, ... and so do all    *)
(* the other hosts together.                                               *)
(***************************************************************************)
EXTENDS Integers, Sequences

CONSTANTS
  MaxOut,  \* datagrams the application sends
  MaxIn,   \* datagrams that arrive
  Faults   \* what else may happen

ASSUME UdpAssumption ==
  /\ MaxOut \in Nat /\ MaxIn \in Nat
  /\ Faults \subseteq {"early send",   \* send() before bind()
                       "taken",        \* no address of bind() is free
                       "dropped",      \* a reported datagram is not there
                       "unreachable",  \* sendto() fails
                       "full"}         \* the kernel has no room to send

VARIABLES
  pc,            \* where the thread is, or that it died
  events,        \* the events notify() was called with
  listening,     \* bind() was called: the descriptor is open
  reachable,     \* kernel: the socket has the address others send to
  write_buffer, read_buffer,
  interest,      \* the events registered with the poller
  rcvq,          \* kernel: datagrams that arrived
  writable,      \* kernel: there is room for a datagram to be sent
  sent, wire,    \* history: given to send(), taken by sendto()
  arrived, received  \* history: given by recvfrom(), returned by receive()

out == <<write_buffer, sent, wire>>
in == <<read_buffer, arrived, received>>
vars == <<pc, events, listening, reachable, interest, rcvq, writable, out, in>>

Init ==
  /\ pc = "idle" /\ events = {}
  /\ listening = FALSE /\ reachable = FALSE
  /\ write_buffer = <<>> /\ read_buffer = <<>>
  /\ interest = {}
  /\ rcvq = 0 /\ writable = TRUE
  /\ sent = 0 /\ wire = <<>> /\ arrived = 0 /\ received = <<>>
-----------------------------------------------------------------------------
(* setup_poller()                                                          *)
Interest(buffer) ==
  {"Input", "Error"} \cup (IF buffer = <<>> THEN {} ELSE {"Output"})

(* bind(), once, from the ready handler: no failure of ::bind is reported, *)
(* and the socket is open in any case.                                     *)
Bind ==
  /\ pc = "idle" /\ ~listening
  /\ listening' = TRUE
  /\ reachable' \in IF "taken" \in Faults THEN BOOLEAN ELSE {TRUE}
  /\ interest' = Interest(write_buffer)
  /\ UNCHANGED <<pc, events, rcvq, writable, out, in>>

Arrive ==
  /\ reachable /\ rcvq + arrived < MaxIn
  /\ rcvq' = rcvq + 1
  /\ UNCHANGED <<pc, events, listening, reachable, interest, writable, out, in>>

Drop ==
  /\ "dropped" \in Faults
  /\ rcvq > 0 /\ rcvq' = rcvq - 1
  /\ UNCHANGED <<pc, events, listening, reachable, interest, writable, out, in>>

Room ==
  /\ writable' = ~writable
  /\ writable => "full" \in Faults
  /\ UNCHANGED <<pc, events, listening, reachable, interest, rcvq, out, in>>
-----------------------------------------------------------------------------
(* What epoll would report.                                                *)
Reported ==
  interest \cap ((IF rcvq > 0 THEN {"Input"} ELSE {})
                 \cup (IF writable THEN {"Output"} ELSE {}))

Poll ==
  /\ pc = "idle"
  /\ Reported # {}
  /\ events' = Reported
  /\ pc' = "notify"
  /\ UNCHANGED <<listening, reachable, interest, rcvq, writable, out, in>>

(* recvfrom(), or the test when there is no Input.  When it finds nothing  *)
(* (EAGAIN), the buffer is resized to size_t(-1), which throws.            *)
Read ==
  /\ pc = "notify"
  /\ IF "Input" \notin events
       THEN pc' = "write" /\ UNCHANGED <<rcvq, in>>
     ELSE IF rcvq = 0
       THEN pc' = "exception" /\ UNCHANGED <<rcvq, in>>
     ELSE /\ rcvq' = rcvq - 1
          /\ arrived' = arrived + 1
          /\ read_buffer' = Append(read_buffer, arrived + 1)
          /\ pc' = "on_data_received"
          /\ UNCHANGED received
  /\ UNCHANGED <<events, listening, reachable, interest, writable, out>>

PopBack(buffer) == SubSeq(buffer, 1, Len(buffer) - 1)            \* mutant

(* write_buffer.pop_front()                                                *)
PopFront(buffer) == Tail(buffer)

(* sendto(), or the test when there is nothing to send or no room for it;  *)
(* a failure other than EAGAIN throws.                                     *)
Write ==
  /\ pc = "write"
  /\ \/ /\ write_buffer = <<>> \/ "Output" \notin events \/ ~writable
        /\ pc' = "idle" /\ UNCHANGED out
     \/ /\ write_buffer # <<>> /\ "Output" \in events
        /\ \/ /\ writable
              /\ wire' = Append(wire, Head(write_buffer))
              /\ write_buffer' = PopFront(write_buffer)
              /\ pc' = "on_data_sent"
              /\ UNCHANGED sent
           \/ "unreachable" \in Faults /\ pc' = "exception" /\ UNCHANGED out
  /\ UNCHANGED <<events, listening, reachable, interest, rcvq, writable, in>>

(* The slots of on_data_received or of on_data_sent have returned; after   *)
(* those of on_output_buffer_empty nothing follows.                        *)
Return ==
  /\ \/ pc = "on_data_received" /\ pc' = "write" /\ UNCHANGED interest
     \/ /\ pc = "on_data_sent" /\ pc' = "idle"
        /\ interest' = IF write_buffer = <<>> THEN Interest(write_buffer) ELSE interest
  /\ UNCHANGED <<events, listening, reachable, rcvq, writable, out, in>>
-----------------------------------------------------------------------------
ChangeKept == {TRUE, FALSE}                                      \* mutant

(* change_poller, which is not initialised when the buffer is not empty.   *)
ChangePoller == IF write_buffer = <<>> THEN {TRUE} ELSE {TRUE, FALSE}

(* send(): the poller throws for a socket that is not open yet.            *)
Send ==
  /\ pc # "exception"
  /\ sent < MaxOut
  /\ listening \/ "early send" \in Faults
  /\ sent' = sent + 1
  /\ write_buffer' = Append(write_buffer, sent + 1)
  /\ \E change_poller \in ChangePoller :
       /\ interest' = IF change_poller /\ listening THEN Interest(write_buffer') ELSE interest
       /\ pc' = IF change_poller /\ ~listening THEN "exception" ELSE pc
  /\ UNCHANGED <<events, listening, reachable, rcvq, writable, wire, in>>

(* receive(n)                                                              *)
Receive(n) ==
  /\ pc # "exception"
  /\ n <= Len(read_buffer)
  /\ received' = received \o SubSeq(read_buffer, 1, n)
  /\ read_buffer' = SubSeq(read_buffer, n + 1, Len(read_buffer))
  /\ UNCHANGED <<pc, events, listening, reachable, interest, rcvq, writable, out,
                 arrived>>

(* An open socket stays open: the programs never close one.                *)
Died == pc = "exception" /\ UNCHANGED vars
-----------------------------------------------------------------------------
Next ==
  \/ Bind \/ Poll \/ Read \/ Write \/ Return
  \/ Arrive \/ Drop \/ Room \/ Died
  \/ Send \/ \E n \in 1..Len(read_buffer) : Receive(n)

Spec == Init /\ [][Next]_vars
-----------------------------------------------------------------------------
Outgoing == INSTANCE Pipe WITH put <- sent, got <- wire
Incoming == INSTANCE Pipe WITH put <- arrived, got <- received

(* Each direction is a pipe of datagrams: every one is sent once, in the   *)
(* order of send(), and received once, in the order it came, whatever the  *)
(* slots of the signals send and receive in the middle of notify().        *)
IsStream == Outgoing!Spec /\ Incoming!Spec

(* The poller waits for room exactly when there is something to send, so   *)
(* that nothing is forgotten and the loop does not spin; that send() reads *)
(* an uninitialised variable makes no difference.                          *)
PollerKnows ==
  listening /\ pc \notin {"on_data_sent", "exception"} =>
    (("Output" \in interest) <=> (write_buffer # <<>>))
=============================================================================
