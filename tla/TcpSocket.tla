----------------------------- MODULE TcpSocket -----------------------------
(***************************************************************************)
(* One asio::TCPSocket (src/asio/tcp.cc, tcp.hh, socket.hh), the kernel's  *)
(* end of its connection, its peer and the application that uses it.       *)
(*                                                                         *)
(* Everything in the process runs on one thread, so the socket moves only  *)
(* when the poller calls notify() or when application code calls it: from  *)
(* a signal of this socket, or from a handler of something else (`idle').  *)
(* The kernel and the peer move at any moment, also between epoll_wait     *)
(* reporting `events' and the handler that acts on them.  The steps of one *)
(* notify() are therefore separate, up to the next system call or signal   *)
(* that application code answers to.                                       *)
(*                                                                         *)
(* Bytes are numbers: the application sends 1, 2, ... and so does the peer.*)
(***************************************************************************)
EXTENDS Integers, Sequences, SequencesExt

CONSTANTS
  MaxOut,   \* bytes the application sends
  MaxIn,    \* bytes the peer sends
  MaxAddr,  \* addresses the name of the server may have
  Chunk,    \* bytes of a read() or write(), 4096 in the code
  Calls,    \* what the application does besides connect, send and receive
  Resets    \* may the peer, or the network, reset the connection?

ASSUME SizesAssumption ==
  /\ MaxOut \in Nat /\ MaxIn \in Nat /\ MaxAddr \in Nat
  /\ Chunk \in Nat \ {0}
  /\ Calls \subseteq {"reset", "shutdown", "early send", "late send"}
  /\ Resets \in BOOLEAN

VARIABLES
  pc,               \* where the thread is, or what it died of
  events,           \* the events notify() was called with
  valid,            \* fd >= 0, so registered with the poller
  connecting,
  addresses,        \* connect_addresses from connect_current on: how many
  peer_shutdowned, self_shutdowned, close_done,
  write_buffer, read_buffer,
  watchdog,         \* application: an alarm that will call disconnect(true)
  interest,         \* the events registered with the poller for fd
  signals,          \* how often every signal was emitted, up to 2
  link,             \* kernel: the connection
  rcvq,             \* kernel: bytes received and not read
  rfin,             \* kernel: the peer will write no more
  writable,         \* kernel: there is room for bytes to be sent
  sent,             \* history: bytes given to send()
  arrived,          \* history: bytes the kernel received, of this connection
  wire,             \* history: bytes the kernel took from write()
  received          \* history: bytes receive() returned

control == <<pc, events>>
socket == <<valid, connecting, addresses, peer_shutdowned, self_shutdowned,
            close_done, interest, signals>>
out == <<write_buffer, wire, sent>>
in == <<read_buffer, received, watchdog>>
kernel == <<link, rcvq, rfin, writable, arrived>>
vars == <<control, socket, out, in, kernel>>

Event == {"Input", "Output", "Error", "RdHangUp"}
Signal == {"connect", "connect_error", "peer_shutdown", "self_shutdown",
           "connection_reset", "connection_close"}
Fatal == {"assertion", "exception"}
Pc == {"idle",       \* other code runs, or epoll_wait
       "notify",     \* notify(events) is about to run
       "on_connect", "on_data_received",  \* in the slots of these signals
       "write"       \* in notify_transmission(), before its write
      } \cup Fatal
Link == {"none", "pending", "up", "refused", "reset"}

Init ==
  /\ pc = "idle" /\ events = {}
  /\ valid = FALSE /\ connecting = FALSE /\ addresses = 0
  /\ peer_shutdowned = FALSE /\ self_shutdowned = FALSE /\ close_done = FALSE
  /\ write_buffer = <<>> /\ read_buffer = <<>> /\ watchdog = FALSE
  /\ interest = {}
  /\ signals = [s \in Signal |-> 0]
  /\ link = "none" /\ rcvq = <<>> /\ rfin = FALSE /\ writable = TRUE
  /\ sent = 0 /\ arrived = 0 /\ wire = <<>> /\ received = <<>>
-----------------------------------------------------------------------------
(* The kernel.                                                             *)
Failed == link \in {"refused", "reset"}

(* What epoll would report for the descriptor.                             *)
Level ==
  (IF rcvq # <<>> \/ rfin \/ Failed THEN {"Input"} ELSE {})
  \cup (IF (link = "up" /\ (writable \/ self_shutdowned)) \/ Failed
          THEN {"Output"} ELSE {})
  \cup (IF Failed THEN {"Error"} ELSE {})
  \cup (IF rfin \/ Failed THEN {"RdHangUp"} ELSE {})

(* What epoll_wait reports: errors whether asked for or not.               *)
Reported == IF valid THEN Level \cap (interest \cup {"Error"}) ELSE {}

(* close(fd): the kernel throws away what was not read.                    *)
CloseLink ==
  /\ link' = "none" /\ rcvq' = <<>> /\ rfin' = FALSE /\ writable' = TRUE
  /\ UNCHANGED arrived

Answer ==
  /\ link = "pending"
  /\ link' \in {"up", "refused"}
  /\ UNCHANGED <<control, socket, out, in, rcvq, rfin, writable, arrived>>

PeerSend ==
  /\ link = "up" /\ ~rfin /\ arrived < MaxIn
  /\ arrived' = arrived + 1
  /\ rcvq' = Append(rcvq, arrived + 1)
  /\ UNCHANGED <<control, socket, out, in, link, rfin, writable>>

PeerClose ==
  /\ link = "up" /\ ~rfin
  /\ rfin' = TRUE
  /\ UNCHANGED <<control, socket, out, in, link, rcvq, writable, arrived>>

Reset ==
  /\ Resets
  /\ link = "up"
  /\ link' = "reset"
  /\ UNCHANGED <<control, socket, out, in, rcvq, rfin, writable, arrived>>

Drain ==
  /\ link = "up" /\ ~writable
  /\ writable' = TRUE
  /\ UNCHANGED <<control, socket, out, in, link, rcvq, rfin, arrived>>
-----------------------------------------------------------------------------
(* Signals s are emitted.                                                  *)
Emit(S) ==
  signals' = [s \in Signal |-> IF s \in S /\ signals[s] < 2 THEN signals[s] + 1
                                                           ELSE signals[s]]

ConnectInterest == {"Output", "Error"}

TransmissionNoHangUp(peer, buffer) ==                            \* mutant
  {"Error"} \cup (IF peer THEN {} ELSE {"Input"})
            \cup (IF buffer = <<>> THEN {} ELSE {"Output"})

(* set_poller_to_transmission()                                            *)
TransmissionInterest(peer, buffer) ==
  {"Error", "RdHangUp"} \cup (IF peer THEN {} ELSE {"Input"})
                        \cup (IF buffer = <<>> THEN {} ELSE {"Output"})

StillConnecting == TRUE                                          \* mutant

(* `connecting' of a socket that has connected.                            *)
DoneConnecting == FALSE

(* The end of request_connect() and notify_connect() when connected.       *)
Connected ==
  /\ connecting' = DoneConnecting
  /\ addresses' = 0
  /\ peer_shutdowned' = FALSE
  /\ interest' = TransmissionInterest(FALSE, write_buffer)
  /\ valid' = TRUE
  /\ Emit({"connect"})
  /\ pc' = "on_connect"
  /\ UNCHANGED <<self_shutdowned, close_done>>

(* request_connect() with n addresses left: it calls itself for the next   *)
(* one while socket() or connect() fail at once, so any number of them may *)
(* be gone when it returns.                                                *)
RequestConnect(n) ==
  \/ /\ \E left \in 1..n : addresses' = left
     /\ connecting' = TRUE /\ valid' = TRUE
     /\ interest' = ConnectInterest
     /\ link' = "pending"
     /\ pc' = "idle"
     /\ UNCHANGED <<peer_shutdowned, self_shutdowned, close_done, signals>>
  \/ n > 0 /\ link' = "up" /\ Connected
  \/ /\ addresses' = 0
     /\ connecting' = FALSE /\ valid' = FALSE /\ interest' = {}
     /\ link' = "none"
     /\ Emit({"connect_error"})
     /\ pc' = "idle"
     /\ UNCHANGED <<peer_shutdowned, self_shutdowned, close_done>>

SameAddress == addresses                                         \* mutant
PreviousAddress == addresses + 1                                 \* mutant

(* connect_current++: the addresses left after one failed.                 *)
NextAddress == addresses - 1

Unused == ~valid /\ ~connecting /\ \A s \in Signal : signals[s] = 0

(* connect(), once, from the ready handler of the socket.                  *)
Connect ==
  /\ pc = "idle" /\ Unused
  /\ \E n \in 0..MaxAddr : RequestConnect(n)
  /\ UNCHANGED <<events, out, in, rcvq, rfin, writable, arrived>>

(* setup_socket_from_listener(): on_connect has no slots yet.              *)
Accepted ==
  /\ pc = "idle" /\ Unused
  /\ valid' = TRUE
  /\ interest' = TransmissionInterest(peer_shutdowned, write_buffer)
  /\ Emit({"connect"})
  /\ link' = "up"
  /\ UNCHANGED <<control, connecting, addresses, peer_shutdowned,
                 self_shutdowned, close_done, out, in, rcvq, rfin, writable,
                 arrived>>
-----------------------------------------------------------------------------
(* epoll_wait reports events of this socket; notify() follows, but other   *)
(* handlers of the same batch may run before.                              *)
Poll ==
  /\ pc = "idle"
  /\ Reported # {}
  /\ events' = Reported
  /\ pc' = "notify"
  /\ UNCHANGED <<socket, out, in, kernel>>

NotifyConnect ==
  /\ pc = "notify" /\ connecting
  /\ IF "Error" \in events
       THEN /\ RequestConnect(NextAddress)
            /\ rcvq' = <<>> /\ rfin' = FALSE /\ writable' = TRUE
            /\ arrived' = 0
       ELSE /\ IF "Output" \in events
                 THEN Connected
                 ELSE pc' = "assertion" /\ UNCHANGED socket
            /\ UNCHANGED kernel
  /\ UNCHANGED <<events, out, in>>

(* close(), the signals and socket_closed(), of notify_transmission() on a *)
(* hang-up and of quit_socket().                                           *)
CloseWith(last) ==
  /\ valid' = FALSE
  /\ interest' = {}
  /\ Emit({last} \cup (IF peer_shutdowned THEN {} ELSE {"peer_shutdown"})
                 \cup (IF self_shutdowned THEN {} ELSE {"self_shutdown"}))
  /\ close_done' = TRUE
  /\ UNCHANGED <<connecting, addresses, peer_shutdowned, self_shutdowned>>

Notified == pc = "notify" /\ ~connecting

HangUp ==
  /\ Notified /\ "RdHangUp" \in events
  /\ CloseWith("connection_reset")
  /\ CloseLink
  /\ pc' = "idle"
  /\ UNCHANGED <<events, out, in>>

Rest(s, n) == SubSeq(s, n + 1, Len(s))
Smaller(m, n) == IF m < n THEN m ELSE n

(* read_buffer with these bytes at its end.                                *)
ReadBuffer(bytes) == read_buffer \o bytes

(* The read of notify_transmission(), or its test when there is no Input.  *)
Read ==
  /\ Notified /\ "RdHangUp" \notin events
  /\ LET n == Smaller(Len(rcvq), Chunk)
     IN  IF "Input" \notin events
           THEN pc' = "write" /\ UNCHANGED <<socket, in, rcvq>>
         ELSE IF n > 0
           THEN /\ rcvq' = Rest(rcvq, n)
                /\ read_buffer' = ReadBuffer(SubSeq(rcvq, 1, n))
                /\ watchdog' = ("reset" \in Calls)
                /\ pc' = "on_data_received"
                /\ UNCHANGED <<socket, received>>
         ELSE IF link = "reset"
           THEN pc' = "exception" /\ UNCHANGED <<socket, in, rcvq>>
         ELSE IF rfin
           THEN /\ peer_shutdowned' = TRUE
                /\ Emit({"peer_shutdown"})
                /\ interest' = TransmissionInterest(TRUE, write_buffer)
                /\ pc' = "write"
                /\ UNCHANGED <<valid, connecting, addresses, self_shutdowned,
                               close_done, in, rcvq>>
         ELSE pc' = "write" /\ UNCHANGED <<socket, in, rcvq>>    \* EAGAIN
  /\ UNCHANGED <<events, out, link, rfin, writable, arrived>>

(* The slots of on_connect or of on_data_received have returned.           *)
Return ==
  /\ \/ pc = "on_connect" /\ pc' = "idle"
     \/ pc = "on_data_received" /\ pc' = "write"
  /\ UNCHANGED <<events, socket, out, in, kernel>>

EraseOneMore(n) == IF n < Len(write_buffer) THEN n + 1 ELSE n    \* mutant

(* How much of write_buffer goes after n bytes were written.               *)
Erased(n) == n

InterestKept(buffer) == interest                                 \* mutant

(* The events after a write left this in write_buffer.                     *)
InterestAfterWrite(buffer) ==
  IF buffer = <<>> THEN TransmissionInterest(peer_shutdowned, buffer)
                   ELSE interest

(* The kernel took n bytes; what follows is on_data_sent, without slots.   *)
Wrote(n) ==
  /\ wire' = wire \o SubSeq(write_buffer, 1, n)
  /\ write_buffer' = Rest(write_buffer, Erased(n))
  /\ interest' = InterestAfterWrite(write_buffer')
  /\ pc' = "idle"
  /\ UNCHANGED <<valid, connecting, addresses, peer_shutdowned, self_shutdowned,
                 close_done, signals, sent>>

(* The write of notify_transmission(), or its test when there is none to   *)
(* do: nothing to send, or no Output when epoll_wait returned.             *)
Write ==
  /\ pc = "write"
  /\ IF write_buffer = <<>> \/ "Output" \notin events
       THEN pc' = "idle" /\ UNCHANGED <<socket, out, writable>>
     ELSE IF link # "up" \/ self_shutdowned
       THEN pc' = "exception" /\ UNCHANGED <<socket, out, writable>>
     ELSE IF writable
       THEN \E n \in 1..Smaller(Len(write_buffer), Chunk) :
              /\ Wrote(n)
              /\ writable' \in BOOLEAN
     ELSE pc' = "idle" /\ UNCHANGED <<socket, out, writable>>    \* EAGAIN
  /\ UNCHANGED <<events, in, link, rcvq, rfin, arrived>>
-----------------------------------------------------------------------------
(* The application: in the slots of this socket, or in other code.  Other  *)
(* handlers of the batch can run while the notify() of this socket waits.  *)
InSlot == pc \in {"on_connect", "on_data_received"}
Elsewhere == pc \in {"idle", "notify"}

SendNoPoller(buffer) == interest                                 \* mutant

(* The poller is told at the end of every send().                          *)
SendInterest(buffer) == TransmissionInterest(peer_shutdowned, buffer)

(* An application that keeps track of its socket sends when it is open.    *)
(* One that does not may call send() on a socket that still connects       *)
(* ("early send"), which asks the poller for the events of an open one, or *)
(* on a closed one ("late send"), for which the poller throws.             *)
MaySend ==
  /\ InSlot \/ Elsewhere
  /\ sent < MaxOut
  /\ \/ valid /\ ~connecting /\ ~self_shutdowned
     \/ "early send" \in Calls /\ connecting
     \/ "late send" \in Calls /\ close_done

Send ==
  /\ MaySend
  /\ sent' = sent + 1
  /\ write_buffer' = Append(write_buffer, sent + 1)
  /\ IF valid
       THEN interest' = SendInterest(write_buffer') /\ UNCHANGED pc
       ELSE pc' = "exception" /\ UNCHANGED interest
  /\ UNCHANGED <<events, valid, connecting, addresses, peer_shutdowned,
                 self_shutdowned, close_done, signals, wire, in, kernel>>

(* receive(n): also of what is left in the buffer of a closed socket.      *)
Receive(n) ==
  /\ InSlot \/ Elsewhere
  /\ n <= Len(read_buffer)
  /\ received' = received \o SubSeq(read_buffer, 1, n)
  /\ read_buffer' = Rest(read_buffer, n)
  /\ UNCHANGED <<control, socket, out, kernel, watchdog>>

(* disconnect(true), which is quit_socket(): from the alarm on_recv_data() *)
(* of the player arms when data comes, whatever happened to the socket     *)
(* before the alarm runs.                                                  *)
DisconnectReset ==
  /\ pc = "idle" /\ watchdog
  /\ watchdog' = FALSE
  /\ CloseWith(IF peer_shutdowned THEN "connection_close" ELSE "connection_reset")
  /\ CloseLink
  /\ UNCHANGED <<control, out, read_buffer, received>>

(* disconnect(false)                                                       *)
Disconnect ==
  /\ "shutdown" \in Calls
  /\ InSlot \/ pc = "idle"
  /\ ~self_shutdowned
  /\ IF peer_shutdowned
       THEN CloseWith("connection_close") /\ CloseLink
       ELSE /\ valid /\ ~connecting
            /\ self_shutdowned' = TRUE
            /\ Emit({"self_shutdown"})
            /\ UNCHANGED <<valid, connecting, addresses, peer_shutdowned,
                           close_done, interest, kernel>>
  /\ UNCHANGED <<control, out, in>>

(* Nothing is left to happen: the process died, or the socket is closed    *)
(* and its slots have nothing to do.                                       *)
Ended ==
  /\ pc \in Fatal \/ (pc = "idle" /\ ~valid /\ ~watchdog /\ ~Unused)
  /\ UNCHANGED vars
-----------------------------------------------------------------------------
Notify == NotifyConnect \/ HangUp \/ Read \/ Write
Application == Send \/ (\E n \in 1..Len(read_buffer) : Receive(n))
                    \/ DisconnectReset \/ Disconnect
Environment == PeerSend \/ PeerClose \/ Reset
Loop == Connect \/ Accepted \/ Poll \/ Notify \/ Return

Next == Loop \/ Application \/ Environment \/ Answer \/ Drain \/ Ended

(* The event loop polls again and again and slots return; a connection     *)
(* attempt is answered, at the latest by the timeout of the kernel; and    *)
(* the kernel finds room for more bytes while the connection is up.        *)
Spec == /\ Init /\ [][Next]_vars
        /\ WF_vars(Poll \/ Notify \/ Return)
        /\ WF_vars(Answer) /\ WF_vars(Drain)
-----------------------------------------------------------------------------
(* The values of the variables.                                            *)
TypeOK ==
  /\ pc \in Pc /\ events \subseteq Event /\ interest \subseteq Event
  /\ {valid, connecting, peer_shutdowned, self_shutdowned, close_done,
      watchdog, rfin, writable} \subseteq BOOLEAN
  /\ addresses \in 0..MaxAddr
  /\ link \in Link
  /\ sent \in 0..MaxOut /\ arrived \in 0..MaxIn
  /\ {write_buffer, wire} \subseteq Seq(1..MaxOut)
  /\ {read_buffer, rcvq, received} \subseteq Seq(1..MaxIn)
  /\ signals \in [Signal -> 0..2]

Outgoing == INSTANCE Pipe WITH put <- sent, got <- wire
Incoming == INSTANCE Pipe WITH put <- arrived, got <- received

(* Each direction is a pipe: what send() was given reaches the kernel, and *)
(* what the kernel received reaches receive(), in order, nothing twice and *)
(* nothing left out in between, over partial writes, chunked reads,        *)
(* sending from slots and reading after the close.                         *)
IsStream == Outgoing!Spec /\ Incoming!Spec

(* The socket kills its process in three situations only: the connection   *)
(* was reset, a buffer was left when the application shut its side down,   *)
(* or it sends on a socket that is closed.  The assert(false) of           *)
(* notify_connect() never fails, also after a send() that asked the poller *)
(* for all that concerns an open socket.                                   *)
DiesOnlyOf ==
  pc \in Fatal => pc = "exception" /\ (link = "reset" \/ self_shutdowned \/ ~valid)

(* While a socket is open the poller waits for room to write exactly when  *)
(* there is something to write (no lost wake-up, no busy loop), and always *)
(* for the end of the connection.                                          *)
PollerKnows ==
  valid /\ ~connecting /\ pc \notin Fatal =>
    /\ ("Output" \in interest) <=> (write_buffer # <<>>)
    /\ "RdHangUp" \in interest

(* An attempt to connect ends, connected or out of addresses, however many *)
(* of them fail.                                                           *)
ConnectResolves == connecting ~> ~connecting

(* Every byte given to send() is written out, unless the connection ends.  *)
Flushed ==
  \A n \in 1..MaxOut :
    (valid /\ n <= sent /\ ~self_shutdowned)
      ~> (n <= Len(wire) \/ ~valid \/ pc \in Fatal)

(* The end of the connection, orderly or not, closes the socket.           *)
EndNoticed ==
  (valid /\ ~connecting /\ (rfin \/ Failed)) ~> (~valid \/ pc \in Fatal)

(* When the peer closes after its last byte, all it sent is read before    *)
(* the socket is closed: the stream is the one that was received.          *)
OrderlyCloseKeepsData ==
  [][valid /\ ~valid' /\ rfin /\ link = "up" => rcvq = <<>>]_vars
=============================================================================
