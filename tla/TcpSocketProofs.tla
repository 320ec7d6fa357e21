-------------------------- MODULE TcpSocketProofs --------------------------
(***************************************************************************)
(* Theorems about one TCP socket, for any number of bytes, addresses and   *)
(* bytes of a read() or write(), and all its application and peer may do.  *)
(***************************************************************************)
EXTENDS TcpSocket, SequenceTheorems, TLAPS

-----------------------------------------------------------------------------
(* The buffer b holds the numbers that come after k.                       *)
Follows(b, k) == b \in Seq(Nat) /\ \A i \in 1..Len(b) : b[i] = k + i

(* The numbers k + 1 to k + n.                                             *)
After(k, n) == [i \in 1..n |-> k + i]

LEMMA FollowsEmpty == ASSUME NEW k \in Nat PROVE Follows(<<>>, k)
BY DEF Follows

LEMMA FollowsAppend ==
  ASSUME NEW k \in Nat, NEW b, Follows(b, k)
  PROVE  /\ Follows(Append(b, k + Len(b) + 1), k)
         /\ Len(Append(b, k + Len(b) + 1)) = Len(b) + 1
<1>1. b \in Seq(Nat) /\ Len(b) \in Nat /\ \A i \in 1..Len(b) : b[i] = k + i
  BY DEF Follows
<1> DEFINE e == k + Len(b) + 1
           r == Append(b, e)
<1>2. e \in Nat
  BY <1>1
<1>3. /\ r \in Seq(Nat) /\ Len(r) = Len(b) + 1 /\ r[Len(b) + 1] = e
      /\ \A i \in 1..Len(b) : r[i] = b[i]
  <2> HIDE DEF e
  <2> QED BY <1>1, <1>2
<1> HIDE DEF r
<1>4. ASSUME NEW i \in 1..Len(r) PROVE r[i] = k + i
  <2>1. CASE i \in 1..Len(b)
    <3>1. r[i] = b[i] /\ b[i] = k + i
      BY <1>1, <1>3, <2>1
    <3> QED BY <3>1
  <2>2. CASE i = Len(b) + 1
    <3>1. r[i] = e
      BY <1>3, <2>2
    <3>2. e = k + i
      BY <1>1, <2>2
    <3> QED BY <3>1, <3>2
  <2> QED BY <1>1, <1>3, <2>1, <2>2
<1>5. Follows(r, k) /\ Len(r) = Len(b) + 1
  BY <1>3, <1>4 DEF Follows
<1> QED BY <1>5 DEF r

(* The first n of a buffer, and the rest.                                  *)
LEMMA FollowsSplit ==
  ASSUME NEW k \in Nat, NEW b, Follows(b, k), NEW n \in 0..Len(b)
  PROVE  /\ SubSeq(b, 1, n) = After(k, n) /\ Follows(SubSeq(b, 1, n), k)
         /\ Len(SubSeq(b, 1, n)) = n
         /\ Follows(SubSeq(b, n + 1, Len(b)), k + n)
         /\ Len(SubSeq(b, n + 1, Len(b))) = Len(b) - n
<1>1. b \in Seq(Nat) /\ Len(b) \in Nat /\ \A i \in 1..Len(b) : b[i] = k + i
  BY DEF Follows
<1> DEFINE a == SubSeq(b, 1, n)
           r == SubSeq(b, n + 1, Len(b))
<1>2. a \in Seq(Nat) /\ Len(a) = n /\ \A i \in 1..n : a[i] = b[i]
  BY <1>1
<1>3. r \in Seq(Nat) /\ Len(r) = Len(b) - n /\ \A i \in 1..Len(b) - n : r[i] = b[i + n]
  BY <1>1
<1> HIDE DEF a, r
<1>4. \A i \in 1..n : a[i] = k + i
  BY <1>1, <1>2
<1>5. Follows(a, k)
  BY <1>2, <1>4 DEF Follows
<1>6. a = After(k, n)
  <2>1. a = [i \in 1..n |-> a[i]]
    BY <1>2
  <2> QED BY <1>4, <2>1 DEF After
<1>7. \A i \in 1..Len(r) : r[i] = k + n + i
  BY <1>1, <1>3
<1>8. Follows(r, k + n)
  BY <1>3, <1>7 DEF Follows
<1> QED BY <1>2, <1>3, <1>5, <1>6, <1>8 DEF a, r

LEMMA FollowsConcat ==
  ASSUME NEW k \in Nat, NEW a, NEW b, Follows(a, k), Follows(b, k + Len(a))
  PROVE  Follows(a \o b, k) /\ Len(a \o b) = Len(a) + Len(b)
<1>1. /\ a \in Seq(Nat) /\ Len(a) \in Nat /\ \A i \in 1..Len(a) : a[i] = k + i
      /\ b \in Seq(Nat) /\ Len(b) \in Nat /\ \A i \in 1..Len(b) : b[i] = k + Len(a) + i
  BY DEF Follows
<1> DEFINE r == a \o b
<1>2. /\ r \in Seq(Nat) /\ Len(r) = Len(a) + Len(b)
      /\ \A i \in 1..Len(a) + Len(b) : r[i] = IF i <= Len(a) THEN a[i] ELSE b[i - Len(a)]
  BY <1>1, ConcatProperties
<1> HIDE DEF r
<1>3. ASSUME NEW i \in 1..Len(r) PROVE r[i] = k + i
  <2>1. CASE i <= Len(a)
    <3>1. i \in 1..Len(a) /\ r[i] = a[i]
      BY <1>1, <1>2, <2>1
    <3>2. a[i] = k + i
      BY <1>1, <3>1
    <3> QED BY <3>1, <3>2
  <2>2. CASE i > Len(a)
    <3> DEFINE j == i - Len(a)
    <3>1. j \in 1..Len(b) /\ r[i] = b[j]
      BY <1>1, <1>2, <2>2
    <3>2. k + Len(a) + j = k + i
      BY <1>1, <1>2
    <3> HIDE DEF j
    <3>3. b[j] = k + Len(a) + j
      BY <1>1, <3>1
    <3> QED BY <3>1, <3>2, <3>3
  <2> QED BY <1>1, <1>2, <2>1, <2>2
<1>4. Follows(r, k) /\ Len(r) = Len(a) + Len(b)
  BY <1>2, <1>3 DEF Follows
<1> QED BY <1>4 DEF r

(* The same for what began with the first number.                          *)
LEMMA FollowsOn ==
  ASSUME NEW a, NEW b, Follows(a, 0), Follows(b, Len(a))
  PROVE  Follows(a \o b, 0) /\ Len(a \o b) = Len(a) + Len(b)
<1> DEFINE z == 0
<1>1. z \in Nat /\ z + Len(a) = Len(a)
  BY DEF Follows
<1> HIDE DEF z
<1>2. Follows(a, z) /\ Follows(b, z + Len(a))
  BY <1>1 DEF z
<1>3. Follows(a \o b, z) /\ Len(a \o b) = Len(a) + Len(b)
  BY <1>1, <1>2, FollowsConcat
<1> QED BY <1>3 DEF z

(* The numbers in a buffer are bounded.                                    *)
LEMMA FollowsBounded ==
  ASSUME NEW k \in Nat, NEW b, Follows(b, k), NEW m \in Nat, k + Len(b) <= m
  PROVE  b \in Seq(1..m)
<1>1. b \in Seq(Nat) /\ Len(b) \in Nat /\ \A i \in 1..Len(b) : b[i] = k + i
  BY DEF Follows
<1>2. \A i \in 1..Len(b) : b[i] \in 1..m
  BY <1>1
<1>3. b = [i \in 1..Len(b) |-> b[i]]
  BY <1>1
<1> QED BY <1>1, <1>2, <1>3, IsASeq
-----------------------------------------------------------------------------
(* A buffer between what was put in, `put' numbers, and what came out.     *)
Carries(b, put, got) ==
  Follows(got, 0) /\ Follows(b, Len(got)) /\ put = Len(got) + Len(b)

LEMMA CarriesNone == Carries(<<>>, 0, <<>>)
<1>1. Len(<<>>) = 0 /\ Follows(<<>>, 0)
  BY FollowsEmpty
<1> QED BY <1>1 DEF Carries

LEMMA CarriesPut ==
  ASSUME NEW b, NEW put, NEW got, Carries(b, put, got)
  PROVE  /\ Carries(Append(b, put + 1), put + 1, got)
         /\ put + 1 \in Nat /\ put < put + 1 /\ Append(b, put + 1) # <<>>
<1>1. /\ Len(got) \in Nat /\ Len(b) \in Nat /\ b \in Seq(Nat)
      /\ Follows(got, 0) /\ Follows(b, Len(got)) /\ put = Len(got) + Len(b)
  BY DEF Carries, Follows
<1>2. put + 1 \in Nat /\ put < put + 1 /\ put + 1 = Len(got) + Len(b) + 1
  BY <1>1
<1>3. /\ Follows(Append(b, put + 1), Len(got))
      /\ Len(Append(b, put + 1)) = Len(b) + 1
  BY <1>1, <1>2, FollowsAppend
<1>4. Append(b, put + 1) # <<>>
  BY <1>1, <1>2, AppendProperties
<1>5. put + 1 = Len(got) + Len(Append(b, put + 1))
  BY <1>1, <1>3
<1> QED BY <1>1, <1>2, <1>3, <1>4, <1>5 DEF Carries

LEMMA CarriesTake ==
  ASSUME NEW b, NEW put, NEW got, Carries(b, put, got), NEW n \in 1..Len(b)
  PROVE  /\ Carries(SubSeq(b, n + 1, Len(b)), put, got \o SubSeq(b, 1, n))
         /\ SubSeq(b, 1, n) = After(Len(got), n)
         /\ n \in 1..(put - Len(got))
<1> DEFINE a == SubSeq(b, 1, n)
           r == SubSeq(b, n + 1, Len(b))
<1>1. /\ Len(got) \in Nat /\ Len(b) \in Nat
      /\ Follows(got, 0) /\ Follows(b, Len(got)) /\ put = Len(got) + Len(b)
  BY DEF Carries, Follows
<1>2. /\ a = After(Len(got), n) /\ Follows(a, Len(got)) /\ Len(a) = n
      /\ Follows(r, Len(got) + n) /\ Len(r) = Len(b) - n
  <2>1. n \in 0..Len(b)
    BY <1>1
  <2> QED BY <1>1, <2>1, FollowsSplit
<1> HIDE DEF a, r
<1>3. Follows(got \o a, 0) /\ Len(got \o a) = Len(got) + n
  BY <1>1, <1>2, FollowsOn
<1>4. Follows(r, Len(got \o a)) /\ put = Len(got \o a) + Len(r)
  BY <1>1, <1>2, <1>3
<1>5. n \in 1..(put - Len(got))
  BY <1>1
<1> QED BY <1>2, <1>3, <1>4, <1>5 DEF Carries, a, r
-----------------------------------------------------------------------------
(* The types of the variables that hold no bytes.                          *)
Shape ==
  /\ pc \in Pc /\ events \subseteq Event /\ interest \subseteq Event
  /\ valid \in BOOLEAN /\ connecting \in BOOLEAN /\ peer_shutdowned \in BOOLEAN
  /\ self_shutdowned \in BOOLEAN /\ close_done \in BOOLEAN /\ watchdog \in BOOLEAN
  /\ rfin \in BOOLEAN /\ writable \in BOOLEAN
  /\ addresses \in 0..MaxAddr /\ link \in Link
  /\ sent <= MaxOut /\ arrived <= MaxIn
  /\ signals \in [Signal -> 0..2]

(* Nothing that send() was given is lost between its buffer and the wire.  *)
Out == Carries(write_buffer, sent, wire)

(* Nothing that came is lost before receive() returns it; close() loses    *)
(* only what was not read from the kernel.                                 *)
Taken == Len(received) + Len(read_buffer)

In ==
  /\ Carries(read_buffer, Taken, received)
  /\ Follows(rcvq, Taken)
  /\ arrived \in Nat /\ Taken + Len(rcvq) <= arrived
  /\ link # "none" => Taken + Len(rcvq) = arrived

(* The socket has received nothing from its peer.                          *)
Untouched ==
  received = <<>> /\ read_buffer = <<>> /\ ~watchdog /\ ~peer_shutdowned

(* The course of a connection: what goes with a socket nobody connected,   *)
(* with one that connects, with an open one; that a descriptor has a link; *)
(* and that a connecting socket is notified only of what notify_connect()  *)
(* knows.                                                                  *)
Course ==
  /\ Unused => /\ pc = "idle" /\ ~close_done /\ ~self_shutdowned /\ Untouched
               /\ rcvq = <<>> /\ ~rfin /\ writable /\ arrived = 0 /\ link = "none"
  /\ connecting => /\ valid /\ ~self_shutdowned /\ Untouched /\ writable
                   /\ "Output" \in interest /\ link # "none"
  /\ link \in {"none", "pending"} => rcvq = <<>> /\ ~rfin
  /\ valid /\ ~connecting => link \in {"up", "reset"}
  /\ pc = "notify" /\ connecting =>
       "Error" \in events \/ ("Output" \in events /\ link \in {"up", "reset"})
  /\ pc \in {"on_connect", "on_data_received", "write"} => ~connecting

Inv == Shape /\ Out /\ In /\ Course /\ DiesOnlyOf /\ PollerKnows

LEMMA Sizes ==
  MaxOut \in Nat /\ MaxIn \in Nat /\ MaxAddr \in Nat /\ Chunk \in Nat \ {0}
BY SizesAssumption

LEMMA Emitted ==
  ASSUME signals \in [Signal -> 0..2], NEW S \in SUBSET Signal, S # {}, Emit(S)
  PROVE  signals' \in [Signal -> 0..2] /\ \E s \in Signal : signals'[s] # 0
<1>1. \A s \in Signal : signals[s] \in 0..2
  OBVIOUS
<1>2. signals' = [s \in Signal |-> IF s \in S /\ signals[s] < 2 THEN signals[s] + 1
                                                               ELSE signals[s]]
  BY DEF Emit
<1>3. \A s \in Signal : (IF s \in S /\ signals[s] < 2 THEN signals[s] + 1
                                                     ELSE signals[s]) \in 0..2
  BY <1>1
<1>4. signals' \in [Signal -> 0..2]
  BY <1>2, <1>3
<1>5. \A s \in S : signals'[s] # 0
  BY <1>1, <1>2
<1> QED BY <1>4, <1>5

(* The three ends of request_connect().                                    *)
Attempting ==
  /\ connecting' = TRUE /\ valid' = TRUE
  /\ interest' = ConnectInterest
  /\ link' = "pending"
  /\ pc' = "idle"
  /\ UNCHANGED <<peer_shutdowned, self_shutdowned, close_done, signals>>

Connecteds ==
  /\ connecting' = FALSE /\ valid' = TRUE /\ peer_shutdowned' = FALSE
  /\ interest' = TransmissionInterest(FALSE, write_buffer)
  /\ pc' = "on_connect"
  /\ \E s \in Signal : signals'[s] # 0
  /\ UNCHANGED <<self_shutdowned, close_done>>

OutOfAddresses ==
  /\ connecting' = FALSE /\ valid' = FALSE /\ interest' = {}
  /\ link' = "none"
  /\ pc' = "idle"
  /\ \E s \in Signal : signals'[s] # 0
  /\ UNCHANGED <<peer_shutdowned, self_shutdowned, close_done>>

LEMMA Requested ==
  ASSUME Shape, NEW n \in Int, n <= MaxAddr, RequestConnect(n)
  PROVE  /\ addresses' \in 0..MaxAddr /\ signals' \in [Signal -> 0..2]
         /\ Attempting \/ (Connecteds /\ link' = "up") \/ OutOfAddresses
<1>1. signals \in [Signal -> 0..2] /\ MaxAddr \in Nat
  BY Sizes DEF Shape
<1>2. CASE /\ \E left \in 1..n : addresses' = left
           /\ Attempting
  BY <1>1, <1>2 DEF Attempting
<1>3. CASE n > 0 /\ link' = "up" /\ Connected
  <2>1. {"connect"} \in SUBSET Signal /\ {"connect"} # {}
    BY DEF Signal
  <2>2. Emit({"connect"})
    BY <1>3 DEF Connected
  <2>3. signals' \in [Signal -> 0..2] /\ \E s \in Signal : signals'[s] # 0
    BY <1>1, <2>1, <2>2, Emitted
  <2> QED BY <1>1, <1>3, <2>3 DEF Connected, Connecteds, DoneConnecting
<1>4. CASE /\ addresses' = 0
           /\ connecting' = FALSE /\ valid' = FALSE /\ interest' = {}
           /\ link' = "none"
           /\ Emit({"connect_error"})
           /\ pc' = "idle"
           /\ UNCHANGED <<peer_shutdowned, self_shutdowned, close_done>>
  <2>1. {"connect_error"} \in SUBSET Signal /\ {"connect_error"} # {}
    BY DEF Signal
  <2>2. signals' \in [Signal -> 0..2] /\ \E s \in Signal : signals'[s] # 0
    BY <1>1, <1>4, <2>1, Emitted
  <2> QED BY <1>1, <1>4, <2>2 DEF OutOfAddresses
<1> QED BY <1>2, <1>3, <1>4 DEF RequestConnect, Attempting

LEMMA Closed ==
  ASSUME Shape, NEW last \in Signal, CloseWith(last)
  PROVE  signals' \in [Signal -> 0..2] /\ \E s \in Signal : signals'[s] # 0
<1> DEFINE S == {last} \cup (IF peer_shutdowned THEN {} ELSE {"peer_shutdown"})
                       \cup (IF self_shutdowned THEN {} ELSE {"self_shutdown"})
<1>1. S \in SUBSET Signal /\ S # {}
  BY DEF Signal
<1>2. Emit(S)
  BY DEF CloseWith
<1> HIDE DEF S
<1> QED BY <1>1, <1>2, Emitted DEF Shape
-----------------------------------------------------------------------------
(* The bytes.                                                              *)
OutStep == Out' /\ [Outgoing!Next]_(Outgoing!pipeVars)
InStep == In' /\ [Incoming!Next]_(Incoming!pipeVars)

LEMMA OutKept == ASSUME Out, UNCHANGED out PROVE OutStep
BY DEF Out, out, OutStep, Outgoing!pipeVars

LEMMA OutStepped ==
  ASSUME Inv, [Next]_vars
  PROVE  OutStep
<1>1. Out
  BY DEF Inv
<1>2. CASE Send
  <2>1. sent' = sent + 1 /\ write_buffer' = Append(write_buffer, sent + 1) /\ UNCHANGED wire
    BY <1>2 DEF Send
  <2> QED BY <1>1, <2>1, CarriesPut DEF Out, OutStep, Outgoing!Next, Outgoing!Put
<1>3. CASE Write
  <2>1. CASE UNCHANGED out
    BY <1>1, <2>1, OutKept
  <2>2. CASE \E n \in 1..Smaller(Len(write_buffer), Chunk) : Wrote(n)
    <3>1. PICK n \in 1..Smaller(Len(write_buffer), Chunk) : Wrote(n)
      BY <2>2
    <3>2. n \in 1..Len(write_buffer)
      <4>1. Len(write_buffer) \in Nat /\ Chunk \in Nat
        BY <1>1, Sizes DEF Out, Carries, Follows
      <4> QED BY <3>1, <4>1 DEF Smaller
    <3>3. /\ wire' = wire \o SubSeq(write_buffer, 1, n) /\ sent' = sent
          /\ write_buffer' = SubSeq(write_buffer, n + 1, Len(write_buffer))
      BY <3>1 DEF Wrote, Rest, Erased
    <3>4. /\ Carries(write_buffer', sent', wire')
          /\ wire' = wire \o After(Len(wire), n) /\ n \in 1..(sent - Len(wire))
      BY <1>1, <3>2, <3>3, CarriesTake DEF Out
    <3>5. Outgoing!Take(n)
      BY <3>3, <3>4 DEF Outgoing!Take, After
    <3> QED BY <3>4, <3>5 DEF Out, OutStep, Outgoing!Next
  <2> QED BY <1>3, <2>1, <2>2 DEF Write
<1>4. CASE \/ Connect \/ Accepted \/ Poll \/ NotifyConnect \/ HangUp \/ Read \/ Return
           \/ (\E n \in 1..Len(read_buffer) : Receive(n)) \/ DisconnectReset \/ Disconnect
           \/ PeerSend \/ PeerClose \/ Reset \/ Answer \/ Drain \/ UNCHANGED vars
  <2>1. UNCHANGED out
    BY <1>4 DEF Connect, Accepted, Poll, NotifyConnect, HangUp, Read, Return, Receive,
                DisconnectReset, Disconnect, PeerSend, PeerClose, Reset, Answer, Drain, vars
  <2> QED BY <1>1, <2>1, OutKept
<1> QED BY <1>2, <1>3, <1>4 DEF Next, Loop, Notify, Application, Environment, Ended

LEMMA LengthsIn ==
  ASSUME In
  PROVE  /\ Len(received) \in Nat /\ Len(read_buffer) \in Nat /\ Len(rcvq) \in Nat
         /\ Taken \in Nat /\ arrived \in Nat
BY DEF In, Carries, Follows, Taken

(* The kernel drops what was not read, or the link is up or closed without *)
(* more coming.                                                            *)
LEMMA InKept ==
  ASSUME In, UNCHANGED <<received, read_buffer, arrived>>,
         \/ rcvq' = <<>> /\ link' = "none"
         \/ UNCHANGED rcvq /\ (link' # "none" => link # "none")
  PROVE  InStep
<1>1. UNCHANGED Taken
  BY DEF Taken
<1>2. Follows(<<>>, Taken) /\ Len(<<>>) = 0
  BY LengthsIn, FollowsEmpty
<1>3. In'
  <2>1. CASE rcvq' = <<>> /\ link' = "none"
    <3>1. Taken + 0 <= arrived
      BY LengthsIn DEF In
    <3> QED BY <1>1, <1>2, <2>1, <3>1 DEF In
  <2>2. CASE UNCHANGED rcvq /\ (link' # "none" => link # "none")
    BY <1>1, <2>2 DEF In
  <2> QED BY <2>1, <2>2
<1> QED BY <1>3 DEF InStep, Incoming!pipeVars

(* A connection begins from nothing.                                       *)
LEMMA InFresh ==
  ASSUME received = <<>>, read_buffer = <<>>, UNCHANGED <<received, read_buffer>>,
         rcvq' = <<>>, arrived' = 0
  PROVE  InStep
<1>1. Carries(<<>>, 0, <<>>) /\ Follows(<<>>, 0) /\ Len(<<>>) = 0
  BY CarriesNone, FollowsEmpty
<1>2. Taken' = 0
  BY <1>1 DEF Taken
<1>3. In'
  BY <1>1, <1>2 DEF In
<1>4. Incoming!Restart
  BY DEF Incoming!Restart
<1> QED BY <1>3, <1>4 DEF InStep, Incoming!Next

LEMMA PeerSendIn ==
  ASSUME In, PeerSend
  PROVE  InStep
<1>1. /\ link # "none" /\ arrived' = arrived + 1 /\ rcvq' = Append(rcvq, arrived + 1)
      /\ UNCHANGED <<received, read_buffer, link>>
  BY DEF PeerSend, in
<1>2. Taken' = Taken /\ arrived = Taken + Len(rcvq)
  BY <1>1 DEF Taken, In
<1>3. Follows(rcvq', Taken) /\ Len(rcvq') = Len(rcvq) + 1
  BY <1>1, <1>2, LengthsIn, FollowsAppend DEF In
<1>4. arrived' \in Nat /\ arrived < arrived' /\ Taken + Len(rcvq') = arrived'
  <2>1. Taken \in Nat /\ Len(rcvq) \in Nat /\ arrived \in Nat
    BY LengthsIn
  <2>2. arrived' = arrived + 1 /\ Len(rcvq') = Len(rcvq) + 1 /\ arrived = Taken + Len(rcvq)
    BY <1>1, <1>2, <1>3
  <2> HIDE DEF Taken
  <2> QED BY <2>1, <2>2
<1>5. In'
  <2>1. Taken + Len(rcvq') <= arrived'
    BY <1>4
  <2> QED BY <1>1, <1>2, <1>3, <1>4, <2>1 DEF In
<1> QED BY <1>1, <1>4, <1>5 DEF InStep, Incoming!Next, Incoming!Put

LEMMA ReadIn ==
  ASSUME In, Read
  PROVE  InStep
<1>1. UNCHANGED <<received, arrived, link>>
  BY DEF Read, in
<1>2. CASE UNCHANGED in /\ UNCHANGED rcvq
  BY <1>1, <1>2, InKept DEF in
<1> DEFINE n == Smaller(Len(rcvq), Chunk)
           a == SubSeq(rcvq, 1, n)
<1>3. CASE n > 0 /\ rcvq' = Rest(rcvq, n) /\ read_buffer' = ReadBuffer(a)
  <2>1. n \in 1..Len(rcvq)
    BY <1>3, LengthsIn, Sizes DEF Smaller
  <2>2. rcvq' = SubSeq(rcvq, n + 1, Len(rcvq)) /\ read_buffer' = read_buffer \o a
    BY <1>3 DEF Rest, ReadBuffer
  <2> HIDE DEF n
  <2>3. /\ Follows(a, Taken) /\ Len(a) = n
        /\ Follows(rcvq', Taken + n) /\ Len(rcvq') = Len(rcvq) - n
    <3>1. n \in 0..Len(rcvq) /\ Taken \in Nat /\ Follows(rcvq, Taken)
      BY <2>1, LengthsIn DEF In
    <3>2. /\ Follows(a, Taken) /\ Len(a) = n
          /\ Follows(SubSeq(rcvq, n + 1, Len(rcvq)), Taken + n)
          /\ Len(SubSeq(rcvq, n + 1, Len(rcvq))) = Len(rcvq) - n
      BY <3>1, FollowsSplit
    <3> QED BY <2>2, <3>2
  <2> HIDE DEF a
  <2>4. /\ Follows(read_buffer', Len(received))
        /\ Len(read_buffer') = Len(read_buffer) + n
    <3>1. Follows(read_buffer, Len(received)) /\ Follows(a, Len(received) + Len(read_buffer))
      BY <2>3 DEF In, Carries, Taken
    <3> QED BY <2>2, <2>3, <3>1, LengthsIn, FollowsConcat
  <2>5. Taken' = Taken + n /\ Taken' = Len(received) + Len(read_buffer')
    BY <1>1, <2>1, <2>4, LengthsIn DEF Taken
  <2>6. Carries(read_buffer', Taken', received')
    BY <1>1, <2>4, <2>5 DEF In, Carries
  <2>7. Taken' + Len(rcvq') = Taken + Len(rcvq)
    BY <2>1, <2>3, <2>5, LengthsIn
  <2>8. In'
    BY <1>1, <2>3, <2>5, <2>6, <2>7 DEF In
  <2> QED BY <1>1, <2>8 DEF InStep, Incoming!pipeVars
<1> QED BY <1>2, <1>3 DEF Read, in

LEMMA ReceiveIn ==
  ASSUME In, NEW n \in 1..Len(read_buffer), Receive(n)
  PROVE  InStep
<1>1. /\ received' = received \o SubSeq(read_buffer, 1, n)
      /\ read_buffer' = SubSeq(read_buffer, n + 1, Len(read_buffer))
      /\ UNCHANGED <<rcvq, arrived, link>>
  BY DEF Receive, Rest, kernel
<1>2. /\ Carries(read_buffer', Taken, received')
      /\ received' = received \o After(Len(received), n)
      /\ n \in 1..(Taken - Len(received))
  BY <1>1, CarriesTake DEF In
<1>3. Taken' = Taken
  BY <1>2 DEF Carries, Taken
<1>4. In'
  BY <1>1, <1>2, <1>3 DEF In
<1>5. n \in 1..(arrived - Len(received))
  <2>1. Taken <= arrived
    BY LengthsIn DEF In
  <2> QED BY <1>2, <2>1, LengthsIn
<1>6. Incoming!Take(n)
  BY <1>1, <1>2 DEF Incoming!Take, After
<1> QED BY <1>4, <1>5, <1>6 DEF InStep, Incoming!Next

LEMMA InStepped ==
  ASSUME Inv, [Next]_vars
  PROVE  InStep
<1>1. In /\ Course
  BY DEF Inv
<1>2. CASE PeerSend
  BY <1>1, <1>2, PeerSendIn
<1>3. CASE Read
  BY <1>1, <1>3, ReadIn
<1>4. CASE \E n \in 1..Len(read_buffer) : Receive(n)
  BY <1>1, <1>4, ReceiveIn
<1>5. CASE Connect \/ Accepted
  <2>1. Unused /\ UNCHANGED <<received, read_buffer, rcvq, arrived>>
    BY <1>5 DEF Connect, Accepted, in
  <2>2. received = <<>> /\ read_buffer = <<>> /\ rcvq = <<>> /\ arrived = 0
    BY <1>1, <2>1 DEF Course, Untouched
  <2> QED BY <2>1, <2>2, InFresh
<1>6. CASE NotifyConnect
  <2>1. UNCHANGED <<received, read_buffer>> /\ connecting
    BY <1>6 DEF NotifyConnect, in
  <2>2. CASE "Error" \in events
    <3>1. rcvq' = <<>> /\ arrived' = 0
      BY <1>6, <2>2 DEF NotifyConnect
    <3>2. received = <<>> /\ read_buffer = <<>>
      BY <1>1, <2>1 DEF Course, Untouched
    <3> QED BY <2>1, <3>1, <3>2, InFresh
  <2>3. CASE "Error" \notin events
    <3>1. UNCHANGED <<rcvq, arrived, link>>
      BY <1>6, <2>3 DEF NotifyConnect, kernel
    <3> QED BY <1>1, <2>1, <3>1, InKept
  <2> QED BY <2>2, <2>3
<1>7. CASE HangUp \/ DisconnectReset
  <2>1. /\ UNCHANGED <<received, read_buffer, arrived>>
        /\ rcvq' = <<>> /\ link' = "none"
    BY <1>7 DEF HangUp, DisconnectReset, CloseLink, in
  <2> QED BY <1>1, <2>1, InKept
<1>8. CASE Disconnect
  <2>1. /\ UNCHANGED <<received, read_buffer, arrived>>
        /\ \/ rcvq' = <<>> /\ link' = "none"
           \/ UNCHANGED <<rcvq, link>>
    BY <1>8 DEF Disconnect, CloseLink, in, kernel
  <2> QED BY <1>1, <2>1, InKept
<1>9. CASE \/ Poll \/ Write \/ Return \/ Send \/ PeerClose \/ Reset \/ Answer \/ Drain
           \/ UNCHANGED vars
  <2>1. UNCHANGED <<received, read_buffer, arrived, rcvq>>
    BY <1>9 DEF Poll, Write, Return, Send, PeerClose, Reset, Answer, Drain, vars, in, kernel
  <2>2. link' # "none" => link # "none"
    BY <1>9 DEF Poll, Write, Return, Send, PeerClose, Reset, Answer, Drain, vars, kernel
  <2> QED BY <1>1, <2>1, <2>2, InKept
<1> QED BY <1>2, <1>3, <1>4, <1>5, <1>6, <1>7, <1>8, <1>9
        DEF Next, Loop, Notify, Application, Environment, Ended
-----------------------------------------------------------------------------
(* The other variables.                                                    *)
LEMMA Interests ==
  /\ ConnectInterest \subseteq Event /\ "Output" \in ConnectInterest
  /\ \A peer, buffer :
       LET I == TransmissionInterest(peer, buffer)
       IN  /\ I \subseteq Event /\ "RdHangUp" \in I
           /\ "Output" \in I <=> buffer # <<>>
BY DEF ConnectInterest, TransmissionInterest, Event

(* request_connect() and what is true of its ends.                         *)
LEMMA Attempted ==
  ASSUME Shape, Connect \/ (NotifyConnect /\ "Error" \in events)
  PROVE  /\ addresses' \in 0..MaxAddr /\ signals' \in [Signal -> 0..2]
         /\ Attempting \/ (Connecteds /\ link' = "up") \/ OutOfAddresses
<1>1. addresses \in 0..MaxAddr /\ MaxAddr \in Nat
  BY Sizes DEF Shape
<1>2. CASE Connect
  <2>1. PICK n \in 0..MaxAddr : RequestConnect(n)
    BY <1>2 DEF Connect
  <2>2. n \in Int /\ n <= MaxAddr
    BY <1>1
  <2> QED BY <2>1, <2>2, Requested
<1>3. CASE NotifyConnect /\ "Error" \in events
  <2>1. NextAddress \in Int /\ NextAddress <= MaxAddr
    BY <1>1 DEF NextAddress
  <2>2. RequestConnect(NextAddress)
    BY <1>3 DEF NotifyConnect
  <2> QED BY <2>1, <2>2, Requested
<1> QED BY <1>2, <1>3

(* notify_connect() without an error.                                      *)
LEMMA ConnectedNow ==
  ASSUME Shape, Course, NotifyConnect, "Error" \notin events
  PROVE  /\ addresses' = 0 /\ signals' \in [Signal -> 0..2] /\ Connecteds
         /\ link \in {"up", "reset"} /\ UNCHANGED kernel
<1>1. "Output" \in events /\ link \in {"up", "reset"}
  BY DEF NotifyConnect, Course
<1>2. Connected /\ UNCHANGED kernel
  BY <1>1 DEF NotifyConnect
<1>3. signals' \in [Signal -> 0..2] /\ \E s \in Signal : signals'[s] # 0
  <2>1. {"connect"} \in SUBSET Signal /\ {"connect"} # {}
    BY DEF Signal
  <2> QED BY <1>2, <2>1, Emitted DEF Connected, Shape
<1> QED BY <1>1, <1>2, <1>3 DEF Connected, Connecteds, DoneConnecting

(* What a close leaves, whatever called it.                                *)
ClosedNow ==
  /\ valid' = FALSE /\ interest' = {} /\ close_done' = TRUE
  /\ signals' \in [Signal -> 0..2] /\ \E s \in Signal : signals'[s] # 0
  /\ link' = "none" /\ rcvq' = <<>> /\ rfin' = FALSE /\ writable' = TRUE
  /\ UNCHANGED <<connecting, addresses, peer_shutdowned, self_shutdowned, arrived>>

LEMMA Closes ==
  ASSUME Shape, HangUp \/ DisconnectReset \/ (Disconnect /\ peer_shutdowned)
  PROVE  ClosedNow
<1>1. PICK last \in Signal : CloseWith(last) /\ CloseLink
  <2>1. "connection_reset" \in Signal /\ "connection_close" \in Signal
    BY DEF Signal
  <2> QED BY <2>1 DEF HangUp, DisconnectReset, Disconnect
<1>2. signals' \in [Signal -> 0..2] /\ \E s \in Signal : signals'[s] # 0
  BY <1>1, Closed
<1> QED BY <1>1, <1>2 DEF CloseWith, CloseLink, ClosedNow

LEMMA ShapeStep ==
  ASSUME Inv, [Next]_vars
  PROVE  Shape'
<1>1. Shape /\ Out /\ In /\ Course
  BY DEF Inv
<1>2. sent \in Nat /\ arrived \in Nat
  BY <1>1, LengthsIn DEF Out, Carries, Follows
<1>3. CASE Connect
  <2>1. /\ addresses' \in 0..MaxAddr /\ signals' \in [Signal -> 0..2]
        /\ Attempting \/ (Connecteds /\ link' = "up") \/ OutOfAddresses
    BY <1>1, <1>3, Attempted
  <2>2. UNCHANGED <<events, watchdog, sent, rfin, writable, arrived>>
    BY <1>3 DEF Connect, out, in
  <2> QED BY <1>1, <2>1, <2>2, Interests
          DEF Shape, Attempting, Connecteds, OutOfAddresses, Pc, Link
<1>4. CASE NotifyConnect
  <2>1. UNCHANGED <<events, watchdog, sent>>
    BY <1>4 DEF NotifyConnect, out, in
  <2>2. CASE "Error" \in events
    <3>1. /\ addresses' \in 0..MaxAddr /\ signals' \in [Signal -> 0..2]
          /\ Attempting \/ (Connecteds /\ link' = "up") \/ OutOfAddresses
      BY <1>1, <1>4, <2>2, Attempted
    <3>2. rfin' = FALSE /\ writable' = TRUE /\ arrived' = 0
      BY <1>4, <2>2 DEF NotifyConnect
    <3>3. arrived' <= MaxIn
      BY <3>2, Sizes
    <3>4. UNCHANGED <<self_shutdowned, close_done>> /\ peer_shutdowned' \in BOOLEAN
      BY <1>1, <3>1 DEF Shape, Attempting, Connecteds, OutOfAddresses
    <3> QED BY <1>1, <2>1, <3>1, <3>2, <3>3, <3>4, Interests
            DEF Shape, Attempting, Connecteds, OutOfAddresses, Pc, Link
  <2>3. CASE "Error" \notin events
    <3>1. /\ addresses' = 0 /\ signals' \in [Signal -> 0..2] /\ Connecteds
          /\ UNCHANGED kernel
      BY <1>1, <1>4, <2>3, ConnectedNow
    <3>2. addresses' \in 0..MaxAddr
      BY <3>1, Sizes
    <3>3. UNCHANGED <<link, rfin, writable, arrived>>
      BY <3>1 DEF kernel
    <3> QED BY <1>1, <2>1, <3>1, <3>2, <3>3, Interests DEF Shape, Connecteds, Pc
  <2> QED BY <2>2, <2>3
<1>5. CASE Accepted
  <2>1. signals' \in [Signal -> 0..2]
    <3>1. {"connect"} \in SUBSET Signal /\ {"connect"} # {}
      BY DEF Signal
    <3> QED BY <1>1, <1>5, <3>1, Emitted DEF Accepted, Shape
  <2> QED BY <1>1, <1>5, <2>1, Interests DEF Accepted, Shape, Link, control, out, in
<1>6. CASE HangUp \/ DisconnectReset \/ (Disconnect /\ peer_shutdowned)
  <2>1. ClosedNow
    BY <1>1, <1>6, Closes
  <2>2. /\ pc' \in {pc, "idle"} /\ events' = events /\ sent' = sent
        /\ watchdog' \in {watchdog, FALSE}
    BY <1>6 DEF HangUp, DisconnectReset, Disconnect, control, out, in
  <2> QED BY <1>1, <2>1, <2>2 DEF Shape, ClosedNow, Pc, Link
<1>7. CASE Disconnect /\ ~peer_shutdowned
  <2>1. signals' \in [Signal -> 0..2]
    <3>1. {"self_shutdown"} \in SUBSET Signal /\ {"self_shutdown"} # {}
      BY DEF Signal
    <3> QED BY <1>1, <1>7, <3>1, Emitted DEF Disconnect, Shape
  <2> QED BY <1>1, <1>7, <2>1 DEF Disconnect, Shape, control, out, in, kernel
<1>8. CASE Read
  <2>1. UNCHANGED <<events, sent, link, rfin, writable, arrived>>
    BY <1>8 DEF Read, out
  <2>2. pc' \in Pc /\ watchdog' \in BOOLEAN
    <3>1. pc' \in Pc
      BY <1>8 DEF Read, Pc, Fatal
    <3>2. watchdog' = watchdog \/ watchdog' = ("reset" \in Calls)
      BY <1>8 DEF Read, in
    <3>3. CASE watchdog' = watchdog
      BY <1>1, <3>1, <3>3 DEF Shape
    <3>4. CASE watchdog' = ("reset" \in Calls)
      <4>1. ("reset" \in Calls) \in BOOLEAN
        OBVIOUS
      <4> QED BY <3>1, <3>4, <4>1, Zenon
    <3> QED BY <3>2, <3>3, <3>4
  <2>3. CASE UNCHANGED socket
    BY <1>1, <2>1, <2>2, <2>3 DEF Shape, socket
  <2>4. CASE ~UNCHANGED socket
    <3>1. /\ peer_shutdowned' = TRUE /\ Emit({"peer_shutdown"})
          /\ interest' = TransmissionInterest(TRUE, write_buffer)
          /\ UNCHANGED <<valid, connecting, addresses, self_shutdowned, close_done>>
      BY <1>8, <2>4 DEF Read
    <3>2. {"peer_shutdown"} \in SUBSET Signal /\ {"peer_shutdown"} # {}
      BY DEF Signal
    <3>3. signals' \in [Signal -> 0..2]
      BY <1>1, <3>1, <3>2, Emitted DEF Shape
    <3> QED BY <1>1, <2>1, <2>2, <3>1, <3>3, Interests DEF Shape
  <2> QED BY <2>3, <2>4
<1>9. CASE Write
  <2>1. UNCHANGED <<events, watchdog, link, rfin, arrived, valid, connecting, addresses,
                    peer_shutdowned, self_shutdowned, close_done, signals, sent>>
    BY <1>9 DEF Write, Wrote, socket, in, out
  <2>2. pc' \in Pc /\ (writable' = writable \/ writable' \in BOOLEAN)
    BY <1>9 DEF Write, Wrote, Pc, Fatal
  <2>3. interest' = interest \/ \E b : interest' = TransmissionInterest(peer_shutdowned, b)
    BY <1>9 DEF Write, Wrote, socket, InterestAfterWrite
  <2> QED BY <1>1, <2>1, <2>2, <2>3, Interests DEF Shape
<1>10. CASE Send
  <2>1. sent' <= MaxOut
    <3>1. sent < MaxOut /\ sent' = sent + 1
      BY <1>10 DEF Send, MaySend
    <3> QED BY <1>2, <3>1, Sizes
  <2>2. pc' \in {pc, "exception"} /\ UNCHANGED <<events, valid, connecting, addresses,
          peer_shutdowned, self_shutdowned, close_done, signals, watchdog, link, rfin,
          writable, arrived>>
    BY <1>10 DEF Send, in, kernel
  <2>3. interest' = interest \/ \E b : interest' = TransmissionInterest(peer_shutdowned, b)
    BY <1>10 DEF Send, SendInterest
  <2> QED BY <1>1, <2>1, <2>2, <2>3, Interests DEF Shape, Pc, Fatal
<1>11. CASE Poll
  <2>1. Reported \subseteq Event
    BY DEF Reported, Level, Event
  <2> QED BY <1>1, <1>11, <2>1 DEF Poll, Shape, Pc, socket, out, in, kernel
<1>12. CASE PeerSend
  <2>1. arrived' <= MaxIn
    BY <1>2, <1>12, Sizes DEF PeerSend
  <2> QED BY <1>1, <1>12, <2>1 DEF PeerSend, Shape, control, socket, out, in
<1>13. CASE \/ Return \/ (\E n \in 1..Len(read_buffer) : Receive(n))
            \/ PeerClose \/ Reset \/ Answer \/ Drain \/ UNCHANGED vars
  <2>1. UNCHANGED <<events, valid, connecting, addresses, peer_shutdowned, self_shutdowned,
                    close_done, interest, signals, sent, watchdog, arrived>>
    BY <1>13 DEF Return, Receive, PeerClose, Reset, Answer, Drain, vars, control, socket,
                 out, in, kernel
  <2>2. /\ pc' \in {pc, "idle", "write"} /\ link' \in {link, "reset", "up", "refused"}
        /\ rfin' = rfin \/ rfin' = TRUE
        /\ writable' = writable \/ writable' = TRUE
    BY <1>13 DEF Return, Receive, PeerClose, Reset, Answer, Drain, vars, control, kernel
  <2>3. pc' \in Pc /\ link' \in Link
    BY <1>1, <2>2 DEF Shape, Pc, Link
  <2>4. rfin' \in BOOLEAN
    BY <1>1, <2>2 DEF Shape
  <2>5. writable' \in BOOLEAN
    BY <1>1, <2>2 DEF Shape
  <2> QED BY <1>1, <2>1, <2>3, <2>4, <2>5 DEF Shape
<1> QED BY <1>3, <1>4, <1>5, <1>6, <1>7, <1>8, <1>9, <1>10, <1>11, <1>12, <1>13
        DEF Next, Loop, Notify, Application, Environment, Ended

LEMMA StillUsed ==
  ASSUME ~Unused, UNCHANGED <<valid, connecting, signals>>
  PROVE  ~Unused'
BY DEF Unused

LEMMA UsedNow ==
  ASSUME valid' = TRUE \/ connecting' = TRUE \/ \E s \in Signal : signals'[s] # 0
  PROVE  ~Unused'
BY DEF Unused

(* The steps that connect the socket.                                      *)
LEMMA CourseConnects ==
  ASSUME Inv, Connect \/ Accepted \/ NotifyConnect
  PROVE  Course'
<1>1. Shape /\ Course
  BY DEF Inv
<1>2. CASE Connect \/ (NotifyConnect /\ "Error" \in events)
  <2>1. UNCHANGED <<received, read_buffer, watchdog>>
    BY <1>2 DEF Connect, NotifyConnect, in
  <2>2. Untouched /\ ~self_shutdowned
    BY <1>1, <1>2 DEF Connect, NotifyConnect, Course
  <2>3. rcvq' = <<>> /\ ~rfin' /\ writable'
    BY <1>1, <1>2 DEF Connect, NotifyConnect, Course
  <2>4. Attempting \/ (Connecteds /\ link' = "up") \/ OutOfAddresses
    BY <1>1, <1>2, Attempted
  <2>5. CASE Attempting
    <3>1. ~Unused'
      BY <2>5, UsedNow DEF Attempting
    <3> QED BY <2>1, <2>2, <2>3, <2>5, <3>1, Interests DEF Attempting, Course, Untouched
  <2>6. CASE Connecteds /\ link' = "up"
    <3>1. ~Unused'
      BY <2>6, UsedNow DEF Connecteds
    <3> QED BY <2>6, <3>1 DEF Connecteds, Course
  <2>7. CASE OutOfAddresses
    <3>1. ~Unused'
      BY <2>7, UsedNow DEF OutOfAddresses
    <3> QED BY <2>3, <2>7, <3>1 DEF OutOfAddresses, Course
  <2> QED BY <2>4, <2>5, <2>6, <2>7
<1>3. CASE NotifyConnect /\ "Error" \notin events
  <2>1. Connecteds /\ link \in {"up", "reset"} /\ link' = link
    BY <1>1, <1>3, ConnectedNow DEF kernel
  <2>2. ~Unused'
    BY <2>1, UsedNow DEF Connecteds
  <2> QED BY <2>1, <2>2 DEF Connecteds, Course
<1>4. CASE Accepted
  <2>1. valid' = TRUE /\ ~connecting' /\ link' = "up" /\ pc' = "idle"
    BY <1>4 DEF Accepted, Unused, control
  <2>2. ~Unused'
    BY <2>1, UsedNow
  <2> QED BY <2>1, <2>2 DEF Course
<1> QED BY <1>2, <1>3, <1>4

(* The steps that close it, or its own side.                               *)
LEMMA CourseCloses ==
  ASSUME Inv, HangUp \/ DisconnectReset \/ Disconnect
  PROVE  Course'
<1>1. Shape /\ Course
  BY DEF Inv
<1>2. ~connecting
  BY <1>1 DEF HangUp, DisconnectReset, Disconnect, Notified, Course, Untouched
<1>3. CASE HangUp \/ DisconnectReset \/ (Disconnect /\ peer_shutdowned)
  <2>1. ClosedNow
    BY <1>1, <1>3, Closes
  <2>2. ~Unused'
    BY <2>1, UsedNow DEF ClosedNow
  <2> QED BY <1>2, <2>1, <2>2 DEF ClosedNow, Course
<1>4. CASE Disconnect /\ ~peer_shutdowned
  <2>1. valid /\ UNCHANGED <<valid, connecting, pc, link, rcvq, rfin>>
    BY <1>4 DEF Disconnect, control, kernel
  <2>2. ~Unused'
    BY <2>1 DEF Unused
  <2> QED BY <1>1, <1>2, <2>1, <2>2 DEF Course
<1> QED BY <1>3, <1>4

(* The steps of an open socket.                                            *)
LEMMA CourseTransmits ==
  ASSUME Inv,
         \/ Poll \/ Read \/ Write \/ Return \/ Send
         \/ \E n \in 1..Len(read_buffer) : Receive(n)
  PROVE  Course'
<1>1. Shape /\ Course /\ Out /\ In
  BY DEF Inv
<1>2. CASE Poll
  <2>1. /\ pc = "idle" /\ pc' = "notify" /\ events' = Reported /\ Reported # {}
        /\ UNCHANGED <<valid, connecting, signals, self_shutdowned, received, read_buffer,
             watchdog, peer_shutdowned, writable, interest, link, rcvq, rfin>>
    BY <1>2 DEF Poll, socket, out, in, kernel
  <2>2. valid /\ ~Unused
    BY <2>1 DEF Reported, Unused
  <2>3. ~Unused'
    BY <2>1, <2>2, StillUsed
  <2>4. ASSUME connecting
        PROVE  "Error" \in Reported \/ ("Output" \in Reported /\ link = "up")
    <3>1. /\ "Output" \in interest /\ writable /\ link # "none"
          /\ link = "pending" => rcvq = <<>> /\ ~rfin
      BY <1>1, <2>4 DEF Course
    <3>2. CASE link = "pending"
      <4>1. Level = {}
        BY <3>1, <3>2 DEF Level, Failed
      <4> QED BY <2>1, <4>1 DEF Reported
    <3>3. CASE link = "up"
      BY <2>2, <3>1, <3>3 DEF Reported, Level
    <3>4. CASE link \in {"refused", "reset"}
      BY <2>2, <3>4 DEF Reported, Level, Failed
    <3> QED BY <1>1, <3>1, <3>2, <3>3, <3>4 DEF Shape, Link
  <2> QED BY <1>1, <2>1, <2>3, <2>4 DEF Course, Untouched
<1>3. CASE Read
  <2>1. /\ pc = "notify" /\ ~connecting /\ UNCHANGED <<valid, connecting, link, rfin>>
        /\ pc' \in {"write", "on_data_received", "exception"}
    BY <1>3 DEF Read, Notified, socket
  <2>2. rcvq = <<>> => rcvq' = <<>>
    <3>1. Len(<<>>) = 0 /\ Chunk \in Nat \ {0}
      BY Sizes
    <3>2. CASE UNCHANGED rcvq
      BY <3>2
    <3>3. CASE Smaller(Len(rcvq), Chunk) > 0
      BY <3>1, <3>3 DEF Smaller
    <3> QED BY <1>3, <3>2, <3>3 DEF Read
  <2>3. ~Unused'
    <3>1. ~Unused
      BY <1>1, <2>1 DEF Course
    <3>2. CASE UNCHANGED socket
      BY <3>1, <3>2, StillUsed DEF socket
    <3>3. CASE ~UNCHANGED socket
      <4>1. Emit({"peer_shutdown"})
        BY <1>3, <3>3 DEF Read
      <4>2. {"peer_shutdown"} \in SUBSET Signal /\ {"peer_shutdown"} # {}
        BY DEF Signal
      <4>3. \E s \in Signal : signals'[s] # 0
        BY <1>1, <4>1, <4>2, Emitted DEF Shape
      <4> QED BY <4>3, UsedNow
    <3> QED BY <3>2, <3>3
  <2> QED BY <1>1, <2>1, <2>2, <2>3 DEF Course
<1>4. CASE Write
  <2>1. /\ pc = "write" /\ pc' \in {"idle", "exception"}
        /\ UNCHANGED <<valid, connecting, signals, link, rcvq, rfin>>
    BY <1>4 DEF Write, Wrote, socket
  <2>2. ~connecting /\ ~Unused
    BY <1>1, <2>1 DEF Course
  <2>3. ~Unused'
    BY <2>1, <2>2, StillUsed
  <2> QED BY <1>1, <2>1, <2>2, <2>3 DEF Course
<1>5. CASE Return
  <2>1. /\ pc \in {"on_connect", "on_data_received"} /\ pc' \in {"idle", "write"}
        /\ UNCHANGED <<valid, connecting, signals, link, rcvq, rfin>>
    BY <1>5 DEF Return, socket, kernel
  <2>2. ~connecting /\ ~Unused
    BY <1>1, <2>1 DEF Course
  <2>3. ~Unused'
    BY <2>1, <2>2, StillUsed
  <2> QED BY <1>1, <2>1, <2>2, <2>3 DEF Course
<1>6. CASE Send
  <2>1. /\ UNCHANGED <<valid, connecting, signals, events, self_shutdowned, received,
             read_buffer, watchdog, peer_shutdowned, writable, link, rcvq, rfin>>
        /\ pc' \in {pc, "exception"}
    BY <1>6 DEF Send, in, kernel
  <2>2. ~Unused
    BY <1>1, <1>6 DEF Send, MaySend, Unused, Course
  <2>3. ~Unused'
    BY <2>1, <2>2, StillUsed
  <2>4. connecting => "Output" \in interest'
    <3>1. write_buffer' # <<>>
      BY <1>1, <1>6, CarriesPut DEF Send, Out
    <3>2. connecting => valid
      BY <1>1 DEF Course
    <3> QED BY <1>6, <3>1, <3>2, Interests DEF Send, SendInterest
  <2> QED BY <1>1, <2>1, <2>3, <2>4 DEF Course, Untouched
<1>7. CASE \E n \in 1..Len(read_buffer) : Receive(n)
  <2>1. UNCHANGED <<pc, valid, connecting, signals, link, rcvq, rfin>>
    BY <1>7 DEF Receive, control, socket, kernel
  <2>2. ~connecting /\ ~Unused
    <3>1. Len(<<>>) = 0
      OBVIOUS
    <3>2. read_buffer # <<>>
      BY <1>7, <3>1
    <3> QED BY <1>1, <3>2 DEF Course, Untouched
  <2>3. ~Unused'
    BY <2>1, <2>2, StillUsed
  <2> QED BY <1>1, <2>1, <2>2, <2>3 DEF Course
<1> QED BY <1>2, <1>3, <1>4, <1>5, <1>6, <1>7

(* Kernel and peer.                                                        *)
LEMMA CourseStep ==
  ASSUME Inv, [Next]_vars
  PROVE  Course'
<1>1. Shape /\ Course
  BY DEF Inv
<1>2. CASE PeerSend \/ PeerClose \/ Reset \/ Answer \/ Drain
  <2>1. /\ UNCHANGED <<pc, events, valid, connecting, signals, self_shutdowned, received,
             read_buffer, watchdog, peer_shutdowned, interest>>
        /\ \/ link = "up" /\ link' \in {"up", "reset"}
           \/ link = "pending" /\ link' \in {"up", "refused"}
        /\ UNCHANGED writable \/ writable' = TRUE
    BY <1>2 DEF PeerSend, PeerClose, Reset, Answer, Drain, control, socket, in
  <2>2. ~Unused
    BY <1>1, <2>1 DEF Course
  <2>3. ~Unused'
    BY <2>1, <2>2, StillUsed
  <2> QED BY <1>1, <2>1, <2>3 DEF Course, Untouched
<1>3. CASE UNCHANGED vars
  <2>1. UNCHANGED <<pc, events, valid, connecting, signals, self_shutdowned, close_done,
          received, read_buffer, watchdog, peer_shutdowned, interest, link, rcvq, rfin,
          writable, arrived>>
    BY <1>3 DEF vars, control, socket, in, kernel
  <2> QED BY <1>1, <2>1 DEF Course, Untouched, Unused
<1> QED BY <1>2, <1>3, CourseConnects, CourseCloses, CourseTransmits
        DEF Next, Loop, Notify, Application, Environment, Ended
-----------------------------------------------------------------------------
(* What the process dies of.                                               *)
LEMMA DeathStep ==
  ASSUME Inv, [Next]_vars
  PROVE  DiesOnlyOf'
<1>1. Shape /\ Course /\ DiesOnlyOf
  BY DEF Inv
<1>2. CASE Connect
  <2>1. Attempting \/ Connecteds \/ OutOfAddresses
    BY <1>1, <1>2, Attempted
  <2> QED BY <2>1 DEF Attempting, Connecteds, OutOfAddresses, DiesOnlyOf, Fatal
<1>3. CASE NotifyConnect
  <2>1. Attempting \/ Connecteds \/ OutOfAddresses
    BY <1>1, <1>3, Attempted, ConnectedNow
  <2> QED BY <2>1 DEF Attempting, Connecteds, OutOfAddresses, DiesOnlyOf, Fatal
<1>4. CASE Poll \/ Return \/ Accepted \/ HangUp \/ DisconnectReset \/ Disconnect
  <2>1. pc' \notin Fatal
    BY <1>4 DEF Poll, Return, Accepted, HangUp, DisconnectReset, Disconnect, InSlot,
                control, Fatal
  <2> QED BY <2>1 DEF DiesOnlyOf
<1>5. CASE Read
  BY <1>5 DEF Read, DiesOnlyOf, Fatal
<1>6. CASE Write
  <2>1. pc' \in Fatal => pc' = "exception" /\ (link # "up" \/ self_shutdowned)
    BY <1>6 DEF Write, Wrote, Fatal
  <2>2. ~connecting /\ UNCHANGED <<valid, link, self_shutdowned>>
    BY <1>1, <1>6 DEF Write, Wrote, socket, Course
  <2> QED BY <1>1, <2>1, <2>2 DEF DiesOnlyOf, Course
<1>7. CASE Send
  <2>1. pc \notin Fatal
    BY <1>7 DEF Send, MaySend, InSlot, Elsewhere, Fatal
  <2> QED BY <1>7, <2>1 DEF Send, DiesOnlyOf, Fatal
<1>8. CASE \/ (\E n \in 1..Len(read_buffer) : Receive(n))
           \/ PeerSend \/ PeerClose \/ Reset \/ Answer \/ Drain \/ UNCHANGED vars
  <2>1. UNCHANGED <<pc, valid, self_shutdowned>> /\ (link = "reset" => link' = "reset")
    BY <1>8 DEF Receive, PeerSend, PeerClose, Reset, Answer, Drain, vars, control, socket,
                kernel
  <2> QED BY <1>1, <2>1 DEF DiesOnlyOf
<1> QED BY <1>2, <1>3, <1>4, <1>5, <1>6, <1>7, <1>8
        DEF Next, Loop, Notify, Application, Environment, Ended

(* What the poller knows.                                                  *)
LEMMA KnowsStep ==
  ASSUME Inv, [Next]_vars
  PROVE  PollerKnows'
<1>1. Shape /\ Out /\ Course /\ PollerKnows
  BY DEF Inv
<1>2. CASE Connect \/ NotifyConnect
  <2>1. Attempting \/ Connecteds \/ OutOfAddresses
    BY <1>1, <1>2, Attempted, ConnectedNow
  <2>2. UNCHANGED write_buffer
    BY <1>2 DEF Connect, NotifyConnect, out
  <2> QED BY <2>1, <2>2, Interests DEF Attempting, Connecteds, OutOfAddresses, PollerKnows
<1>3. CASE Accepted
  BY <1>3, Interests DEF Accepted, out, PollerKnows
<1>4. CASE HangUp \/ DisconnectReset \/ (Disconnect /\ peer_shutdowned)
  BY <1>1, <1>4, Closes DEF ClosedNow, PollerKnows
<1>5. CASE Read
  <2>1. pc \notin Fatal /\ UNCHANGED <<valid, connecting, write_buffer>>
    BY <1>5 DEF Read, Notified, Fatal, socket, out
  <2>2. interest' = interest \/ interest' = TransmissionInterest(TRUE, write_buffer)
    BY <1>5 DEF Read, socket
  <2> QED BY <1>1, <2>1, <2>2, Interests DEF PollerKnows
<1>6. CASE Write
  <2>1. pc \notin Fatal /\ UNCHANGED <<valid, connecting>>
    BY <1>6 DEF Write, Wrote, Fatal, socket
  <2>2. CASE UNCHANGED <<interest, write_buffer>>
    BY <1>1, <2>1, <2>2 DEF PollerKnows
  <2>3. CASE ~UNCHANGED <<interest, write_buffer>>
    <3>1. write_buffer # <<>> /\ interest' = InterestAfterWrite(write_buffer')
      BY <1>6, <2>3 DEF Write, Wrote, socket, out
    <3> QED BY <1>1, <2>1, <3>1, Interests DEF InterestAfterWrite, PollerKnows
  <2> QED BY <2>2, <2>3
<1>7. CASE Send
  <2>1. UNCHANGED <<valid, connecting>> /\ write_buffer' # <<>>
    BY <1>1, <1>7, CarriesPut DEF Send, Out
  <2>2. valid => interest' = TransmissionInterest(peer_shutdowned, write_buffer')
    BY <1>7 DEF Send, SendInterest
  <2> QED BY <2>1, <2>2, Interests DEF PollerKnows
<1>8. CASE \/ Poll \/ Return \/ (\E n \in 1..Len(read_buffer) : Receive(n))
           \/ (Disconnect /\ ~peer_shutdowned)
           \/ PeerSend \/ PeerClose \/ Reset \/ Answer \/ Drain \/ UNCHANGED vars
  <2>1. UNCHANGED <<valid, connecting, interest, write_buffer>>
    BY <1>8 DEF Poll, Return, Receive, Disconnect, PeerSend, PeerClose, Reset, Answer, Drain,
                vars, socket, out
  <2>2. pc \in Fatal => pc' \in Fatal
    BY <1>8 DEF Poll, Return, Receive, Disconnect, PeerSend, PeerClose, Reset, Answer, Drain,
                vars, control, Fatal
  <2> QED BY <1>1, <2>1, <2>2 DEF PollerKnows
<1> QED BY <1>2, <1>3, <1>4, <1>5, <1>6, <1>7, <1>8
        DEF Next, Loop, Notify, Application, Environment, Ended
-----------------------------------------------------------------------------
LEMMA InitInv == Init => Inv
<1> SUFFICES ASSUME Init PROVE Inv
  OBVIOUS
<1>1. Shape
  <2>1. signals \in [Signal -> 0..2] /\ addresses \in 0..MaxAddr
    BY Sizes DEF Init
  <2>2. sent <= MaxOut /\ arrived <= MaxIn
    BY Sizes DEF Init
  <2> QED BY <2>1, <2>2 DEF Init, Shape, Pc, Link
<1>2. Out
  BY CarriesNone DEF Init, Out
<1>3. In
  <2>1. Len(<<>>) = 0 /\ Follows(<<>>, 0)
    BY FollowsEmpty
  <2>2. Taken = 0
    BY <2>1 DEF Init, Taken
  <2> QED BY <2>1, <2>2, CarriesNone DEF Init, In
<1>4. Course
  BY DEF Init, Course, Untouched
<1>5. DiesOnlyOf /\ PollerKnows
  BY DEF Init, DiesOnlyOf, PollerKnows, Fatal
<1> QED BY <1>1, <1>2, <1>3, <1>4, <1>5 DEF Inv

LEMMA NextInv ==
  ASSUME Inv, [Next]_vars
  PROVE  Inv'
BY ShapeStep, OutStepped, InStepped, CourseStep, DeathStep, KnowsStep DEF Inv, OutStep, InStep

(* Inv is an inductive invariant of the socket.                            *)
THEOREM TcpInvariance == Spec => []Inv
<1>1. Inv /\ [Next]_vars => Inv'
  BY NextInv
<1> QED BY InitInv, <1>1, PTL DEF Spec
-----------------------------------------------------------------------------
(* The variables keep their types, for every number of bytes and every     *)
(* behaviour of application, peer and network.                             *)
THEOREM TcpTypeCorrect == Spec => []TypeOK
<1>1. Inv => TypeOK
  <2> SUFFICES ASSUME Inv PROVE TypeOK
    OBVIOUS
  <2>1. Shape /\ Out /\ In
    BY DEF Inv
  <2>2. /\ sent \in 0..MaxOut /\ write_buffer \in Seq(1..MaxOut) /\ wire \in Seq(1..MaxOut)
    <3>1. /\ Len(wire) \in Nat /\ Len(write_buffer) \in Nat
          /\ Follows(wire, 0) /\ Follows(write_buffer, Len(wire))
          /\ sent = Len(wire) + Len(write_buffer) /\ sent <= MaxOut
      BY <2>1 DEF Out, Carries, Follows, Shape
    <3>2. 0 + Len(wire) <= MaxOut /\ Len(wire) + Len(write_buffer) <= MaxOut
      BY <3>1, Sizes
    <3>3. 0 \in Nat /\ MaxOut \in Nat
      BY Sizes
    <3>4. wire \in Seq(1..MaxOut)
      BY <3>1, <3>2, <3>3, FollowsBounded
    <3>5. write_buffer \in Seq(1..MaxOut)
      BY <3>1, <3>2, <3>3, FollowsBounded
    <3> QED BY <3>1, <3>3, <3>4, <3>5
  <2>3. /\ arrived \in 0..MaxIn /\ received \in Seq(1..MaxIn)
        /\ read_buffer \in Seq(1..MaxIn) /\ rcvq \in Seq(1..MaxIn)
    <3>1. /\ Len(received) \in Nat /\ Len(read_buffer) \in Nat /\ Len(rcvq) \in Nat
          /\ Taken \in Nat /\ arrived \in Nat /\ arrived <= MaxIn
          /\ Taken = Len(received) + Len(read_buffer) /\ Taken + Len(rcvq) <= arrived
          /\ Follows(received, 0) /\ Follows(read_buffer, Len(received))
          /\ Follows(rcvq, Taken)
      BY <2>1, LengthsIn DEF In, Carries, Shape, Taken
    <3>2. /\ 0 + Len(received) <= MaxIn /\ Len(received) + Len(read_buffer) <= MaxIn
          /\ Taken + Len(rcvq) <= MaxIn
      BY <3>1, Sizes
    <3>3. 0 \in Nat /\ MaxIn \in Nat
      BY Sizes
    <3>4. received \in Seq(1..MaxIn)
      BY <3>1, <3>2, <3>3, FollowsBounded
    <3>5. read_buffer \in Seq(1..MaxIn)
      BY <3>1, <3>2, <3>3, FollowsBounded
    <3>6. rcvq \in Seq(1..MaxIn)
      BY <3>1, <3>2, <3>3, FollowsBounded
    <3> QED BY <3>1, <3>3, <3>4, <3>5, <3>6
  <2> QED BY <2>1, <2>2, <2>3 DEF Shape, TypeOK
<1> QED BY <1>1, TcpInvariance, PTL

(* The process of a TCP socket (src/asio/tcp.cc) dies of a reset, of a     *)
(* buffer left at the shutdown of its own side, or of sending when closed, *)
(* and never of the assert(false) of notify_connect().                     *)
THEOREM TcpDiesOnlyOf == Spec => []DiesOnlyOf
<1>1. Inv => DiesOnlyOf
  BY DEF Inv
<1> QED BY <1>1, TcpInvariance, PTL

(* set_poller_to_transmission() is called wherever it must be: while a     *)
(* socket is open, the poller waits for room exactly when write_buffer     *)
(* holds something, and always for the end of the connection.              *)
THEOREM TcpPollerKnows == Spec => []PollerKnows
<1>1. Inv => PollerKnows
  BY DEF Inv
<1> QED BY <1>1, TcpInvariance, PTL

(* Each direction of a TCPSocket is a pipe: notify(), send() and receive() *)
(* lose, repeat and reorder no byte, for any number of them and any size   *)
(* of read() and write(), over the attempts to connect and the close.      *)
THEOREM TcpIsStream == Spec => IsStream
<1>1. Init => Inv /\ Outgoing!Init /\ Incoming!Init
  BY InitInv DEF Init, Outgoing!Init, Incoming!Init
<1>2. Inv /\ [Next]_vars =>
        /\ Inv'
        /\ [Outgoing!Next]_(Outgoing!pipeVars) /\ [Incoming!Next]_(Incoming!pipeVars)
  BY NextInv, OutStepped, InStepped DEF OutStep, InStep
<1> QED BY <1>1, <1>2, PTL DEF Spec, IsStream, Outgoing!Spec, Incoming!Spec
=============================================================================
