----------------------------- MODULE AsioProofs -----------------------------
(***************************************************************************)
(* Theorems about the smaller parts of src/asio: one UDP socket, for any   *)
(* number of datagrams and all faults; signals and slots, for any objects  *)
(* and any number of links; the tasks that make lines of bytes, for any    *)
(* text, options and subnegotiations a client sends.                       *)
(***************************************************************************)
EXTENDS UdpSocket, Signals, LineReaders,
        FunctionTheorems, SequenceTheorems, FiniteSetTheorems, WellFoundedInduction, TLAPS

(***************************************************************************)
(* UdpSocket                                                               *)
(***************************************************************************)

(* A buffer between what was put in, `put' datagrams, and what came out:   *)
(* together they are all the numbers, in order.                            *)
Carries(b, put, got) ==
  /\ b \in Seq(Nat) /\ got \in Seq(Nat)
  /\ put = Len(got) + Len(b)
  /\ \A i \in 1..Len(got) : got[i] = i
  /\ \A i \in 1..Len(b) : b[i] = Len(got) + i

LEMMA CarriesPut ==
  ASSUME NEW b, NEW put, NEW got, Carries(b, put, got)
  PROVE  /\ Carries(Append(b, put + 1), put + 1, got)
         /\ put + 1 \in Nat /\ put < put + 1 /\ Append(b, put + 1) # <<>>
<1>1. /\ b \in Seq(Nat) /\ Len(b) \in Nat /\ Len(got) \in Nat
      /\ put \in Nat /\ put + 1 \in Nat
      /\ \A i \in 1..Len(b) : b[i] = Len(got) + i
  BY DEF Carries
<1> DEFINE e == put + 1
           r == Append(b, e)
<1>2. /\ r \in Seq(Nat) /\ Len(r) = Len(b) + 1 /\ r[Len(b) + 1] = e
      /\ \A i \in 1..Len(b) : r[i] = b[i]
  <2> HIDE DEF e
  <2> QED BY <1>1 DEF e
<1>3. e = Len(got) + (Len(b) + 1)
  BY <1>1 DEF Carries
<1> HIDE DEF r, e
<1>4. ASSUME NEW i \in 1..Len(r) PROVE r[i] = Len(got) + i
  <2>1. CASE i \in 1..Len(b)
    <3>1. r[i] = b[i] /\ b[i] = Len(got) + i
      BY <1>1, <1>2, <2>1
    <3> QED BY <3>1
  <2>2. CASE i = Len(b) + 1
    BY <1>2, <1>3, <2>2
  <2> QED BY <1>1, <1>2, <2>1, <2>2
<1>5. Carries(r, e, got) /\ r # <<>>
  BY <1>1, <1>2, <1>3, <1>4 DEF Carries
<1> QED BY <1>1, <1>5 DEF r, e

LEMMA CarriesTake ==
  ASSUME NEW b, NEW put, NEW got, Carries(b, put, got), NEW n \in 1..Len(b)
  PROVE  /\ Carries(SubSeq(b, n + 1, Len(b)), put, got \o SubSeq(b, 1, n))
         /\ SubSeq(b, 1, n) = [i \in 1..n |-> Len(got) + i]
         /\ n \in 1..(put - Len(got))
<1> DEFINE a == SubSeq(b, 1, n)
           r == SubSeq(b, n + 1, Len(b))
           g == got \o a
<1>1. /\ b \in Seq(Nat) /\ got \in Seq(Nat) /\ Len(b) \in Nat /\ Len(got) \in Nat
      /\ put = Len(got) + Len(b) /\ n \in Nat
      /\ \A i \in 1..Len(got) : got[i] = i
      /\ \A i \in 1..Len(b) : b[i] = Len(got) + i
  BY DEF Carries
<1>2. a \in Seq(Nat) /\ Len(a) = n /\ \A i \in 1..n : a[i] = b[i]
  BY <1>1
<1>3. r \in Seq(Nat) /\ Len(r) = Len(b) - n /\ \A i \in 1..Len(b) - n : r[i] = b[i + n]
  BY <1>1
<1> HIDE DEF a, r
<1>4. \A i \in 1..n : a[i] = Len(got) + i
  <2>1. \A i \in 1..n : i \in 1..Len(b)
    BY <1>1
  <2> QED BY <1>1, <1>2, <2>1
<1>5. a = [i \in 1..n |-> Len(got) + i]
  <2>1. a = [i \in 1..n |-> a[i]]
    BY <1>2
  <2> QED BY <1>4, <2>1
<1>6. /\ g \in Seq(Nat) /\ Len(g) = Len(got) + n
      /\ \A i \in 1..Len(got) + n : g[i] = IF i <= Len(got) THEN got[i] ELSE a[i - Len(got)]
  BY <1>1, <1>2, ConcatProperties
<1> HIDE DEF g
<1>7. ASSUME NEW i \in 1..Len(g) PROVE g[i] = i
  <2>1. CASE i <= Len(got)
    <3>1. i \in 1..Len(got) /\ g[i] = got[i]
      BY <1>1, <1>6, <2>1
    <3> QED BY <1>1, <3>1
  <2>2. CASE i > Len(got)
    <3>1. i - Len(got) \in 1..n /\ g[i] = a[i - Len(got)]
      BY <1>1, <1>6, <2>2
    <3>2. a[i - Len(got)] = Len(got) + (i - Len(got))
      BY <1>4, <3>1
    <3> QED BY <1>1, <1>6, <3>1, <3>2
  <2> QED BY <1>1, <1>6, <2>1, <2>2
<1>8. ASSUME NEW i \in 1..Len(r) PROVE r[i] = Len(g) + i
  <2>1. r[i] = b[i + n] /\ i + n \in 1..Len(b)
    BY <1>1, <1>3
  <2>2. b[i + n] = Len(got) + (i + n)
    BY <1>1, <2>1
  <2> QED BY <1>1, <1>3, <1>6, <2>1, <2>2
<1>9. put = Len(g) + Len(r) /\ n \in 1..(put - Len(got))
  BY <1>1, <1>3, <1>6
<1> QED BY <1>3, <1>5, <1>6, <1>7, <1>8, <1>9 DEF Carries, a, r, g

(* The same for the one in front.                                          *)
LEMMA CarriesTakeOne ==
  ASSUME NEW b, NEW put, NEW got, Carries(b, put, got), b # <<>>
  PROVE  /\ Carries(Tail(b), put, Append(got, Head(b)))
         /\ Append(got, Head(b)) = got \o [i \in 1..1 |-> Len(got) + i]
         /\ 1 \in 1..(put - Len(got))
<1> DEFINE n == 1
           a == SubSeq(b, 1, n)
<1>1. /\ b \in Seq(Nat) /\ got \in Seq(Nat) /\ n \in 1..Len(b)
      /\ Head(b) = Len(got) + 1 /\ Head(b) \in Nat
  BY DEF Carries
<1>2. Tail(b) = SubSeq(b, n + 1, Len(b))
  BY <1>1
<1> HIDE DEF n, a
<1>3. /\ Carries(SubSeq(b, n + 1, Len(b)), put, got \o a)
      /\ a = [i \in 1..n |-> Len(got) + i]
      /\ n \in 1..(put - Len(got))
  BY <1>1, CarriesTake DEF a
<1>4. a = <<Head(b)>>
  BY <1>1, <1>3 DEF n
<1>5. Append(got, Head(b)) = got \o a
  BY <1>1, <1>4, AppendIsConcat
<1> QED BY <1>2, <1>3, <1>5 DEF n
-----------------------------------------------------------------------------
(* Nothing that send() was given is lost between its buffer and the wire,  *)
(* and nothing that recvfrom() gave before receive() returns it.           *)
Out == Carries(write_buffer, sent, wire)
In == Carries(read_buffer, arrived, received)

(* The poller waits for room when there is something to send; when there   *)
(* is not, it may do so until the slots of on_data_sent have returned.     *)
Waiting ==
  /\ ~listening => pc \in {"idle", "exception"} /\ interest = {}
  /\ listening /\ pc # "exception" =>
       /\ write_buffer # <<>> => "Output" \in interest
       /\ write_buffer = <<>> /\ pc # "on_data_sent" => "Output" \notin interest
-----------------------------------------------------------------------------
(* Each operation is a step of its pipe or leaves it alone.                *)
OutStep == Out' /\ [Outgoing!Next]_(Outgoing!pipeVars)
InStep == In' /\ [Incoming!Next]_(Incoming!pipeVars)

LEMMA OutKept == ASSUME Out, UNCHANGED out PROVE OutStep
BY DEF Out, out, OutStep, Outgoing!pipeVars

LEMMA InKept == ASSUME In, UNCHANGED in PROVE InStep
BY DEF In, in, InStep, Incoming!pipeVars

LEMMA StreamStep ==
  ASSUME Out, In, [Next]_vars
  PROVE  OutStep /\ InStep
<1>1. CASE Send
  <2>1. OutStep
    BY <1>1, CarriesPut DEF Send, Out, OutStep, Outgoing!Next, Outgoing!Put
  <2>2. InStep
    BY <1>1, InKept DEF Send
  <2> QED BY <2>1, <2>2
<1>2. CASE Write
  <2>1. InStep
    BY <1>2, InKept DEF Write
  <2>2. CASE UNCHANGED out
    BY <2>1, <2>2, OutKept
  <2>3. CASE ~UNCHANGED out
    <3>1. /\ write_buffer # <<>> /\ wire' = Append(wire, Head(write_buffer))
          /\ write_buffer' = Tail(write_buffer) /\ UNCHANGED sent
      BY <1>2, <2>3 DEF Write, PopFront
    <3>2. OutStep
      <4>1. /\ Carries(write_buffer', sent', wire')
            /\ wire' = wire \o [i \in 1..1 |-> Len(wire) + i]
            /\ 1 \in 1..(sent - Len(wire))
        BY <3>1, CarriesTakeOne DEF Out
      <4>2. Outgoing!Take(1)
        BY <3>1, <4>1 DEF Outgoing!Take
      <4> QED BY <4>1, <4>2 DEF Out, OutStep, Outgoing!Next
    <3> QED BY <2>1, <3>2
  <2> QED BY <2>2, <2>3
<1>3. CASE Read
  <2>1. OutStep
    BY <1>3, OutKept DEF Read
  <2>2. CASE UNCHANGED in
    BY <2>1, <2>2, InKept
  <2>3. CASE ~UNCHANGED in
    <3>1. /\ arrived' = arrived + 1 /\ read_buffer' = Append(read_buffer, arrived + 1)
          /\ UNCHANGED received
      BY <1>3, <2>3 DEF Read
    <3>2. InStep
      BY <3>1, CarriesPut DEF In, InStep, Incoming!Next, Incoming!Put
    <3> QED BY <2>1, <3>2
  <2> QED BY <2>2, <2>3
<1>4. CASE \E n \in 1..Len(read_buffer) : Receive(n)
  <2>1. OutStep
    BY <1>4, OutKept DEF Receive
  <2>2. InStep
    <3>1. PICK n \in 1..Len(read_buffer) : Receive(n)
      BY <1>4
    <3>2. /\ received' = received \o SubSeq(read_buffer, 1, n)
          /\ read_buffer' = SubSeq(read_buffer, n + 1, Len(read_buffer))
          /\ arrived' = arrived
      BY <3>1 DEF Receive
    <3>3. /\ Carries(read_buffer', arrived', received')
          /\ received' = received \o [i \in 1..n |-> Len(received) + i]
          /\ n \in 1..(arrived - Len(received))
      BY <3>2, CarriesTake DEF In
    <3>4. Incoming!Take(n)
      BY <3>2, <3>3 DEF Incoming!Take
    <3> QED BY <3>3, <3>4 DEF In, InStep, Incoming!Next
  <2> QED BY <2>1, <2>2
<1>5. CASE Bind \/ Poll \/ Return \/ Arrive \/ Drop \/ Room \/ UNCHANGED vars
  <2>1. UNCHANGED out /\ UNCHANGED in
    BY <1>5 DEF Bind, Poll, Return, Arrive, Drop, Room, vars
  <2> QED BY <2>1, OutKept, InKept
<1> QED BY <1>1, <1>2, <1>3, <1>4, <1>5 DEF Next, Died

LEMMA StreamInit == Init => Out /\ In
BY DEF Init, Out, In, Carries

(* Each direction of a UDPSocket is a pipe (send(), receive() and notify() *)
(* of src/asio/udp.cc): every datagram goes out once and in order, and is  *)
(* received once and in order, for any number of them and whatever the     *)
(* slots do in the middle of notify().                                     *)
THEOREM UdpIsStream == Spec => IsStream
<1>1. Init => Out /\ In /\ Outgoing!Init /\ Incoming!Init
  BY StreamInit DEF Init, Outgoing!Init, Incoming!Init
<1>2. Out /\ In /\ [Next]_vars =>
        /\ Out' /\ In'
        /\ [Outgoing!Next]_(Outgoing!pipeVars) /\ [Incoming!Next]_(Incoming!pipeVars)
  BY StreamStep DEF OutStep, InStep
<1> QED BY <1>1, <1>2, PTL DEF Spec, IsStream, Outgoing!Spec, Incoming!Spec
-----------------------------------------------------------------------------
LEMMA WaitingStep ==
  ASSUME Out, Waiting, [Next]_vars
  PROVE  Waiting'
<1>1. CASE Bind
  BY <1>1 DEF Bind, Interest, out, Waiting
<1>2. CASE Read \/ Poll
  <2>1. UNCHANGED <<listening, interest, write_buffer>>
    BY <1>2 DEF Read, Poll, out
  <2>2. CASE Read
    BY <2>1, <2>2 DEF Read, Waiting
  <2>3. CASE Poll
    BY <2>1, <2>3 DEF Poll, Reported, Waiting
  <2> QED BY <1>2, <2>2, <2>3
<1>3. CASE Write
  BY <1>3 DEF Write, out, Waiting
<1>4. CASE Return
  BY <1>4 DEF Return, Interest, out, Waiting
<1>5. CASE Send
  <2>1. PICK change_poller \in ChangePoller :
          /\ interest' = IF change_poller /\ listening THEN Interest(write_buffer')
                                                       ELSE interest
          /\ pc' = IF change_poller /\ ~listening THEN "exception" ELSE pc
    BY <1>5 DEF Send
  <2>2. UNCHANGED listening /\ (write_buffer = <<>> => change_poller = TRUE)
    BY <1>5, <2>1 DEF Send, ChangePoller
  <2>3. write_buffer' # <<>>
    BY <1>5, CarriesPut DEF Send, Out
  <2> QED BY <2>1, <2>2, <2>3 DEF Waiting, Interest
<1>6. CASE \/ Arrive \/ Drop \/ Room \/ UNCHANGED vars
           \/ \E n \in 1..Len(read_buffer) : Receive(n)
  <2>1. UNCHANGED <<pc, listening, interest, write_buffer>>
    BY <1>6 DEF Arrive, Drop, Room, Receive, vars, out
  <2> QED BY <2>1 DEF Waiting
<1> QED BY <1>1, <1>2, <1>3, <1>4, <1>5, <1>6 DEF Next, Died

(* The poller waits for room exactly when there is something to send,      *)
(* whichever value send() of src/asio/udp.cc finds in the variable it does *)
(* not initialise.                                                         *)
THEOREM UdpPollerKnows == Spec => []PollerKnows
<1>1. Init => Out /\ In /\ Waiting
  BY StreamInit DEF Init, Waiting
<1>2. Out /\ In /\ Waiting /\ [Next]_vars => Out' /\ In' /\ Waiting'
  BY StreamStep, WaitingStep DEF OutStep, InStep
<1>3. Waiting => PollerKnows
  BY DEF Waiting, PollerKnows
<1> QED BY <1>1, <1>2, <1>3, PTL DEF Spec
-----------------------------------------------------------------------------
(***************************************************************************)
(* Signals                                                                 *)
(***************************************************************************)

(* Where y is in a vector, and how often.                                  *)
Places(s, y) == {i \in DOMAIN s : s[i] = y}
Occurs(s, y) == Cardinality(Places(s, y))

LEMMA OccursNat ==
  ASSUME NEW S, NEW s \in Seq(S), NEW y
  PROVE  /\ IsFiniteSet(Places(s, y)) /\ Occurs(s, y) \in Nat
         /\ Occurs(s, y) = 0 <=> ~Contains(s, y)
         /\ Contains(s, y) <=> y \in ToSet(s)
<1>1. Len(s) \in Nat /\ DOMAIN s = 1..Len(s)
  BY LenProperties
<1>2. IsFiniteSet(1..Len(s))
  BY <1>1, FS_Interval
<1>3. Places(s, y) \in SUBSET (1..Len(s))
  BY <1>1 DEF Places
<1>4. IsFiniteSet(Places(s, y))
  BY <1>2, <1>3, FS_Subset
<1>5. Occurs(s, y) \in Nat /\ (Occurs(s, y) = 0 <=> Places(s, y) = {})
  BY <1>4, FS_EmptySet, FS_CardinalityType DEF Occurs
<1>6. Places(s, y) = {} <=> ~Contains(s, y)
  BY <1>1 DEF Places, Contains
<1>7. Contains(s, y) <=> y \in ToSet(s)
  BY <1>1 DEF Contains, ToSet
<1> QED BY <1>4, <1>5, <1>6, <1>7

LEMMA OccursNone == ASSUME NEW y PROVE Occurs(<<>>, y) = 0
<1>1. Places(<<>>, y) = {}
  BY DEF Places
<1> QED BY <1>1, FS_EmptySet DEF Occurs

(* push_back()                                                             *)
LEMMA OccursAppend ==
  ASSUME NEW S, NEW s \in Seq(S), NEW e \in S, NEW y
  PROVE  Occurs(Append(s, e), y) = Occurs(s, y) + IF y = e THEN 1 ELSE 0
<1> DEFINE r == Append(s, e)
           n == Len(s)
<1>1. n \in Nat /\ DOMAIN s = 1..n
  BY LenProperties
<1>2. DOMAIN r = 1..n + 1 /\ (\A i \in 1..n : r[i] = s[i]) /\ r[n + 1] = e
  BY <1>1, AppendProperties, LenProperties
<1> HIDE DEF r, n
<1>3. IsFiniteSet(Places(s, y)) /\ Occurs(s, y) \in Nat /\ n + 1 \notin Places(s, y)
  <2>1. IsFiniteSet(Places(s, y)) /\ Occurs(s, y) \in Nat
    BY OccursNat
  <2>2. n + 1 \notin Places(s, y)
    BY <1>1 DEF Places
  <2> QED BY <2>1, <2>2
<1>4. CASE y = e
  <2>1. Places(r, y) = Places(s, y) \cup {n + 1}
    BY <1>1, <1>2, <1>4 DEF Places
  <2> QED BY <1>3, <1>4, <2>1, FS_AddElement DEF Occurs, r
<1>5. CASE y # e
  <2>1. Places(r, y) = Places(s, y)
    BY <1>1, <1>2, <1>5 DEF Places
  <2> QED BY <1>3, <1>5, <2>1 DEF Occurs, r
<1> QED BY <1>4, <1>5

LEMMA FirstOf ==
  ASSUME NEW I \in SUBSET Nat, I # {}
  PROVE  Min(I) \in I /\ \A i \in I : Min(I) <= i
<1> DEFINE Below == {p \in Nat \X Nat : p[1] < p[2]}
<1>1. \E m \in I : \A i \in I : m <= i
  <2>1. IsWellFoundedOn(Below, Nat)
    BY NatLessThanWellFounded DEF OpToRel
  <2> HIDE DEF Below
  <2>2. PICK m \in I : \A i \in I : <<i, m>> \notin Below
    BY <2>1, WFMin
  <2>3. ASSUME NEW i \in I PROVE m <= i
    <3>1. i < m => <<i, m>> \in Below
      BY DEF Below
    <3> QED BY <2>2, <3>1
  <2> QED BY <2>3
<1> QED BY <1>1 DEF Min

(* find() and erase(): the first of those that are e goes.                 *)
LEMMA RemovedFirst ==
  ASSUME NEW S, NEW s \in Seq(S), NEW e, Contains(s, e), NEW t, t = RemoveFirst(s, e)
  PROVE  \E k \in 1..Len(s) :
           /\ s[k] = e /\ (s[1] = e => k = 1)
           /\ t \in Seq(S) /\ Len(t) = Len(s) - 1
           /\ \A i \in 1..Len(t) : t[i] = s[IF i < k THEN i ELSE i + 1]
<1> DEFINE I == {i \in 1..Len(s) : s[i] = e}
           k == Min(I)
           a == SubSeq(s, 1, k - 1)
           b == SubSeq(s, k + 1, Len(s))
<1>1. I # {} /\ I \in SUBSET Nat
  BY DEF Contains
<1>2. RemoveFirst(s, e) = a \o b
  BY <1>1 DEF RemoveFirst, RemoveAt, SelectInSeq
<1>3. k \in 1..Len(s) /\ s[k] = e /\ \A i \in I : k <= i
  <2> HIDE DEF I
  <2>1. Min(I) \in I /\ \A i \in I : Min(I) <= i
    BY <1>1, FirstOf
  <2> QED BY <2>1 DEF I
<1>4. s[1] = e => k = 1
  BY <1>3
<1> HIDE DEF k
<1>5. a \in Seq(S) /\ Len(a) = k - 1 /\ \A i \in 1..k - 1 : a[i] = s[i]
  BY <1>3
<1>6. b \in Seq(S) /\ Len(b) = Len(s) - k /\ \A i \in 1..Len(s) - k : b[i] = s[i + k]
  BY <1>3
<1> HIDE DEF a, b
<1> DEFINE r == a \o b
<1>7. /\ r \in Seq(S) /\ Len(r) = Len(s) - 1
      /\ \A i \in 1..Len(r) : r[i] = IF i < k THEN a[i] ELSE b[i - (k - 1)]
  <2>1. r \in Seq(S) /\ Len(r) = Len(a) + Len(b)
    BY <1>5, <1>6, ConcatProperties
  <2>2. \A i \in 1..Len(a) + Len(b) : r[i] = IF i <= Len(a) THEN a[i] ELSE b[i - Len(a)]
    BY <1>5, <1>6, ConcatProperties
  <2> QED BY <1>3, <1>5, <1>6, <2>1, <2>2
<1> HIDE DEF r
<1>8. ASSUME NEW i \in 1..Len(r) PROVE r[i] = s[IF i < k THEN i ELSE i + 1]
  <2>1. CASE i < k
    BY <1>3, <1>5, <1>7, <2>1
  <2>2. CASE i >= k
    BY <1>3, <1>6, <1>7, <2>2
  <2> QED BY <1>3, <1>7, <2>1, <2>2
<1>9. t = r
  BY <1>2 DEF r
<1>10. /\ s[k] = e /\ (s[1] = e => k = 1)
       /\ t \in Seq(S) /\ Len(t) = Len(s) - 1
       /\ \A i \in 1..Len(t) : t[i] = s[IF i < k THEN i ELSE i + 1]
  BY <1>3, <1>4, <1>7, <1>8, <1>9
<1> QED BY <1>3, <1>10

LEMMA OccursRemoved ==
  ASSUME NEW S, NEW s \in Seq(S), NEW e, Contains(s, e), NEW r, r = RemoveFirst(s, e)
  PROVE  /\ r \in Seq(S) /\ Len(r) = Len(s) - 1
         /\ s[1] = e => \A i \in 1..Len(r) : r[i] = s[i + 1]
         /\ \A y : Occurs(r, y) = Occurs(s, y) - IF y = e THEN 1 ELSE 0
<1>1. PICK k \in 1..Len(s) :
           /\ s[k] = e /\ (s[1] = e => k = 1)
           /\ r \in Seq(S) /\ Len(r) = Len(s) - 1
           /\ \A i \in 1..Len(r) : r[i] = s[IF i < k THEN i ELSE i + 1]
  BY RemovedFirst
<1>2. Len(s) \in Nat /\ DOMAIN s = 1..Len(s) /\ DOMAIN r = 1..Len(r)
  BY <1>1, LenProperties
<1>3. ASSUME NEW y PROVE Occurs(r, y) = Occurs(s, y) - IF y = e THEN 1 ELSE 0
  <2> DEFINE P == Places(r, y)
             Q == Places(s, y) \ {k}
             f == [i \in P |-> IF i < k THEN i ELSE i + 1]
  <2>1. f \in [P -> Q]
    BY <1>1, <1>2 DEF Places
  <2>2. \A i, j \in P : f[i] = f[j] => i = j
    BY <1>1, <1>2 DEF Places
  <2>3. ASSUME NEW j \in Q PROVE \E i \in P : f[i] = j
    <3>1. j \in 1..Len(s) /\ j # k /\ s[j] = y
      BY <1>2 DEF Places
    <3>2. CASE j < k
      <4>1. j \in 1..Len(r) /\ r[j] = s[j]
        BY <1>1, <1>2, <3>1, <3>2
      <4>2. j \in P
        BY <1>2, <3>1, <4>1 DEF Places
      <4> QED BY <3>2, <4>2
    <3>3. CASE j > k
      <4>1. j - 1 \in 1..Len(r) /\ r[j - 1] = s[j] /\ ~(j - 1 < k) /\ (j - 1) + 1 = j
        BY <1>1, <1>2, <3>1, <3>3
      <4>2. j - 1 \in P
        BY <1>2, <3>1, <4>1 DEF Places
      <4> QED BY <4>1, <4>2
    <3> QED BY <1>1, <1>2, <3>1, <3>2, <3>3
  <2> HIDE DEF f, P, Q
  <2>4. ExistsBijection(P, Q)
    BY <2>1, <2>2, <2>3, Fun_IsBij DEF ExistsBijection
  <2>5. IsFiniteSet(P) /\ IsFiniteSet(Places(s, y)) /\ Occurs(s, y) \in Nat
    BY <1>1, OccursNat DEF P
  <2>6. Cardinality(P) = Cardinality(Q)
    BY <2>4, <2>5, FS_Bijection
  <2>7. Cardinality(Q) = IF k \in Places(s, y) THEN Occurs(s, y) - 1 ELSE Occurs(s, y)
    BY <2>5, FS_RemoveElement DEF Q, Occurs
  <2>8. k \in Places(s, y) <=> y = e
    BY <1>1, <1>2 DEF Places
  <2> QED BY <2>5, <2>6, <2>7, <2>8 DEF P, Occurs
<1> QED BY <1>1, <1>2, <1>3
-----------------------------------------------------------------------------
(* The two ends of a link agree on it; nobody is linked with itself.       *)
LinksShape ==
  /\ links \in [Object -> Seq(Object)]
  /\ alive \in SUBSET Object
  /\ failed \in BOOLEAN

Mutual ==
  /\ \A x, y \in Object : Occurs(links[x], y) = Occurs(links[y], x)
  /\ \A x \in Object : Occurs(links[x], x) = 0

Gone == \A x \in Object \ alive : links[x] = <<>>

(* The destructor: every turn of its loop has erased an element, and up to *)
(* the second turn of two what the iterator points at is in the vector.    *)
Destructor ==
  /\ victim \in alive \cup {None}
  /\ memory \in Seq(Object)
  /\ at \in Nat \ {0}
  /\ victim = None => ~failed
  /\ victim # None =>
       /\ Len(links[victim]) = Len(memory) - (at - 1)
       /\ failed => at <= Len(memory) /\ Len(memory) >= 3
       /\ at = 1 => memory = links[victim]
       /\ at = 2 /\ Len(memory) = 2 => memory[2] \in ToSet(links[victim])

SignalsInv == LinksShape /\ Mutual /\ Gone /\ Destructor

LEMMA LinkOf ==
  ASSUME SignalsAssumption, LinksShape, Mutual, Gone,
         NEW x \in Object, NEW y, Linked(x, y)
  PROVE  /\ y \in Object /\ x # y
         /\ {x, y} \subseteq alive
         /\ links[x] \in Seq(Object) /\ links[y] \in Seq(Object)
<1>1. links[x] \in Seq(Object) /\ Contains(links[x], y) /\ Contains(links[y], x)
  BY DEF LinksShape, Linked
<1>2. y \in Object
  <2>1. \A i \in 1..Len(links[x]) : links[x][i] \in Object
    BY <1>1, ElementOfSeq
  <2> QED BY <1>1, <2>1 DEF Contains
<1>3. links[y] \in Seq(Object)
  BY <1>2 DEF LinksShape
<1>4. x # y
  <2>1. Occurs(links[x], x) = 0 /\ (Occurs(links[x], x) = 0 <=> ~Contains(links[x], x))
    BY <1>1, OccursNat DEF Mutual
  <2> QED BY <1>1, <2>1
<1>5. \A z : ~Contains(<<>>, z)
  BY DEF Contains
<1>6. {x, y} \subseteq alive
  BY <1>1, <1>2, <1>5 DEF Gone
<1> QED BY <1>1, <1>2, <1>3, <1>4, <1>6

(* remove() keeps everything but what the destructor counts.               *)
LEMMA ErasedKeeps ==
  ASSUME SignalsAssumption, LinksShape, Mutual, Gone,
         NEW x \in Object, NEW y, Linked(x, y), links' = Erased(x, y), UNCHANGED alive
  PROVE  /\ links' \in [Object -> Seq(Object)] /\ Mutual' /\ Gone'
         /\ Len(links'[x]) = Len(links[x]) - 1
         /\ links[x][1] = y => \A i \in 1..Len(links'[x]) : links'[x][i] = links[x][i + 1]
<1>1. /\ y \in Object /\ x # y
      /\ {x, y} \subseteq alive
      /\ links[x] \in Seq(Object) /\ links[y] \in Seq(Object)
  BY LinkOf
<1> DEFINE r == RemoveFirst(links[x], y)
           t == RemoveFirst(links[y], x)
<1>2. /\ r \in Seq(Object) /\ Len(r) = Len(links[x]) - 1
      /\ links[x][1] = y => \A i \in 1..Len(r) : r[i] = links[x][i + 1]
      /\ \A z : Occurs(r, z) = Occurs(links[x], z) - IF z = y THEN 1 ELSE 0
  <2>1. Contains(links[x], y)
    BY DEF Linked
  <2> HIDE DEF r
  <2>2. r = RemoveFirst(links[x], y)
    BY DEF r
  <2> QED BY <1>1, <2>1, <2>2, OccursRemoved
<1>3. t \in Seq(Object) /\ \A z : Occurs(t, z) = Occurs(links[y], z) - IF z = x THEN 1 ELSE 0
  <2>1. Contains(links[y], x)
    BY DEF Linked
  <2> HIDE DEF t
  <2>2. t = RemoveFirst(links[y], x)
    BY DEF t
  <2> QED BY <1>1, <2>1, <2>2, OccursRemoved
<1>4. links' = [links EXCEPT ![x] = r, ![y] = t]
  BY DEF Erased
<1> HIDE DEF r, t
<1>5. /\ links' \in [Object -> Seq(Object)]
      /\ links'[x] = r /\ links'[y] = t
      /\ \A z \in Object \ {x, y} : links'[z] = links[z]
  BY <1>1, <1>2, <1>3, <1>4 DEF LinksShape
<1>6. \A a, b \in Object : Occurs(links[a], b) \in Nat
  BY OccursNat DEF LinksShape
<1>7. ASSUME NEW a \in Object, NEW b \in Object
      PROVE  Occurs(links'[a], b) =
               Occurs(links[a], b) - IF (a = x /\ b = y) \/ (a = y /\ b = x) THEN 1 ELSE 0
  <2>1. CASE a = x
    <3>1. Occurs(links'[a], b) = Occurs(links[a], b) - IF b = y THEN 1 ELSE 0
      BY <1>2, <1>5, <2>1
    <3> QED BY <1>1, <2>1, <3>1
  <2>2. CASE a = y
    BY <1>1, <1>3, <1>5, <1>6, <2>2
  <2>3. CASE a \notin {x, y}
    <3>1. links'[a] = links[a] /\ a # x /\ a # y
      BY <1>5, <2>3
    <3>2. Occurs(links[a], b) \in Nat
      BY <1>6
    <3> QED BY <3>1, <3>2
  <2> QED BY <2>1, <2>2, <2>3
<1>8. Mutual'
  <2>1. \A a, b \in Object : Occurs(links'[a], b) = Occurs(links'[b], a)
    BY <1>7 DEF Mutual
  <2>2. \A a \in Object : Occurs(links'[a], a) = 0
    BY <1>1, <1>7 DEF Mutual
  <2> QED BY <2>1, <2>2 DEF Mutual
<1>9. Gone'
  BY <1>1, <1>5 DEF Gone
<1> QED BY <1>2, <1>5, <1>8, <1>9

(* Signal::add()                                                           *)
LEMMA AddKeeps ==
  ASSUME SignalsAssumption, SignalsInv,
         NEW signal \in Signal, NEW slot \in Slot, Add(signal, slot)
  PROVE  SignalsInv'
<1>1. signal \in Object /\ slot \in Object /\ signal # slot
  BY DEF SignalsAssumption, Object
<1> DEFINE r == Append(links[signal], slot)
           t == Append(links[slot], signal)
<1>2. links[signal] \in Seq(Object) /\ links[slot] \in Seq(Object)
  BY <1>1 DEF SignalsInv, LinksShape
<1>3. r \in Seq(Object) /\ \A z : Occurs(r, z) = Occurs(links[signal], z) + IF z = slot THEN 1 ELSE 0
  BY <1>1, <1>2, OccursAppend, AppendProperties
<1>4. t \in Seq(Object) /\ \A z : Occurs(t, z) = Occurs(links[slot], z) + IF z = signal THEN 1 ELSE 0
  BY <1>1, <1>2, OccursAppend, AppendProperties
<1>5. links' = [links EXCEPT ![signal] = r, ![slot] = t]
  BY DEF Add
<1> HIDE DEF r, t
<1>6. /\ links' \in [Object -> Seq(Object)]
      /\ links'[signal] = r /\ links'[slot] = t
      /\ \A z \in Object \ {signal, slot} : links'[z] = links[z]
  BY <1>1, <1>3, <1>4, <1>5 DEF SignalsInv, LinksShape
<1>7. \A a, b \in Object : Occurs(links[a], b) \in Nat
  BY OccursNat DEF SignalsInv, LinksShape
<1>8. ASSUME NEW a \in Object, NEW b \in Object
      PROVE  Occurs(links'[a], b) =
               Occurs(links[a], b)
                 + IF (a = signal /\ b = slot) \/ (a = slot /\ b = signal) THEN 1 ELSE 0
  <2>1. CASE a = signal
    BY <1>1, <1>3, <1>6, <1>7, <2>1
  <2>2. CASE a = slot
    BY <1>1, <1>4, <1>6, <1>7, <2>2
  <2>3. CASE a \notin {signal, slot}
    <3>1. links'[a] = links[a] /\ a # signal /\ a # slot
      BY <1>6, <2>3
    <3>2. Occurs(links[a], b) \in Nat
      BY <1>7
    <3> QED BY <3>1, <3>2
  <2> QED BY <2>1, <2>2, <2>3
<1>9. Mutual'
  <2>1. \A a, b \in Object : Occurs(links'[a], b) = Occurs(links'[b], a)
    BY <1>8 DEF SignalsInv, Mutual
  <2>2. \A a \in Object : Occurs(links'[a], a) = 0
    BY <1>1, <1>8 DEF SignalsInv, Mutual
  <2> QED BY <2>1, <2>2 DEF Mutual
<1>10. Gone'
  BY <1>6 DEF SignalsInv, Gone, Add
<1>11. LinksShape'
  BY <1>6 DEF SignalsInv, LinksShape, Add
<1>12. Destructor'
  BY DEF SignalsInv, Destructor, Add, Running, destructor
<1> QED BY <1>9, <1>10, <1>11, <1>12 DEF SignalsInv

LEMMA RemoveSlotKeeps ==
  ASSUME SignalsAssumption, SignalsInv,
         NEW signal \in Signal, NEW slot \in Slot, RemoveSlot(signal, slot)
  PROVE  SignalsInv'
<1>1. signal \in Object /\ Linked(signal, slot) /\ links' = Erased(signal, slot) /\ UNCHANGED alive
  BY DEF Object, RemoveSlot
<1>2. links' \in [Object -> Seq(Object)] /\ Mutual' /\ Gone'
  BY <1>1, ErasedKeeps DEF SignalsInv
<1>3. LinksShape'
  BY <1>2 DEF SignalsInv, LinksShape, RemoveSlot
<1>4. Destructor'
  BY DEF SignalsInv, Destructor, RemoveSlot, Running, destructor
<1> QED BY <1>2, <1>3, <1>4 DEF SignalsInv

LEMMA DestroyKeeps ==
  ASSUME SignalsAssumption, SignalsInv, NEW x \in Object, Destroy(x)
  PROVE  SignalsInv'
<1>1. LinksShape' /\ Mutual' /\ Gone'
  BY DEF SignalsInv, LinksShape, Mutual, Gone, Destroy
<1>2. x # None /\ links[x] \in Seq(Object) /\ Len(links[x]) \in Nat
  BY LenProperties DEF SignalsAssumption, SignalsInv, LinksShape
<1>3. Destructor'
  BY <1>2 DEF SignalsInv, Destructor, Destroy, Running
<1> QED BY <1>1, <1>3 DEF SignalsInv

(* The turn of a destructor that finds what it looks for, and the one whose *)
(* assertion fails: not the first, and not the second of two.               *)
LEMMA StepKeeps ==
  ASSUME SignalsAssumption, SignalsInv, Step
  PROVE  SignalsInv'
<1>1. /\ victim \in Object /\ victim \in alive /\ victim # None /\ ~failed
      /\ at \in Nat \ {0} /\ at <= Len(memory)
      /\ links[victim] \in Seq(Object) /\ memory \in Seq(Object)
      /\ Len(links[victim]) = Len(memory) - (at - 1)
      /\ UNCHANGED <<alive, victim>>
  BY DEF SignalsInv, LinksShape, Destructor, Step
<1>2. Len(memory) \in Nat /\ DOMAIN memory = 1..Len(memory)
  BY <1>1, LenProperties
<1> DEFINE y == memory[at]
<1>3. CASE Linked(victim, y)
  <2>1. links' = Erased(victim, y) /\ at' = at + 1 /\ failed' = failed
    BY <1>3 DEF Step
  <2>2. /\ links' \in [Object -> Seq(Object)] /\ Mutual' /\ Gone'
        /\ Len(links'[victim]) = Len(links[victim]) - 1
        /\ links[victim][1] = y
             => \A i \in 1..Len(links'[victim]) : links'[victim][i] = links[victim][i + 1]
    <3> HIDE DEF y
    <3> QED BY <1>1, <1>3, <2>1, ErasedKeeps DEF SignalsInv
  <2> DEFINE r == links'[victim]
  <2>3. r \in Seq(Object) /\ DOMAIN r = 1..Len(r) /\ Len(r) \in Nat
    <3>1. r \in Seq(Object)
      BY <1>1, <2>2
    <3> QED BY <3>1, LenProperties
  <2>4. memory' = [i \in 1..Len(memory) |-> IF i \in 1..Len(r) THEN r[i] ELSE memory[i]]
    BY <1>2, <1>3, <2>3 DEF Step
  <2> HIDE DEF r
  <2>5. \A i \in 1..Len(memory) : memory[i] \in Object
    BY <1>1
  <2>6. \A i \in 1..Len(r) : r[i] \in Object
    BY <2>3
  <2>7. memory' \in [1..Len(memory) -> Object]
    BY <2>4, <2>5, <2>6
  <2>8. memory' \in Seq(Object) /\ Len(memory') = Len(memory)
    <3> DEFINE m == memory'
    <3>1. m \in [1..Len(memory) -> Object]
      BY <2>7
    <3> HIDE DEF m
    <3>2. m \in Seq(Object) /\ Len(m) = Len(memory)
      BY <1>2, <3>1, IsASeq, LenProperties
    <3> QED BY <3>2 DEF m
  <2>9. at' = 2 /\ Len(memory') = 2 => memory'[2] \in ToSet(r)
    <3>1. SUFFICES ASSUME at = 1, Len(memory) = 2
                   PROVE  memory'[2] \in ToSet(r)
      BY <1>1, <2>1, <2>8
    <3>2. memory = links[victim]
      BY <1>1, <3>1 DEF SignalsInv, Destructor
    <3>3. links[victim][1] = y
      BY <3>1, <3>2
    <3>4. Len(r) = 1
      BY <1>1, <2>2, <3>1 DEF r
    <3>5. r[1] = memory[2]
      <4>1. \A i \in 1..Len(r) : r[i] = links[victim][i + 1]
        BY <2>2, <3>3 DEF r
      <4> QED BY <3>2, <3>4, <4>1
    <3>6. memory'[2] = memory[2]
      BY <2>4, <3>1, <3>4
    <3> QED BY <2>3, <3>4, <3>5, <3>6 DEF ToSet
  <2>10. LinksShape'
    BY <1>1, <2>1, <2>2 DEF SignalsInv, LinksShape
  <2>11. Destructor'
    <3>1. Len(links'[victim']) = Len(memory') - (at' - 1)
      BY <1>1, <1>2, <2>1, <2>2, <2>8
    <3>2. victim' \in alive' /\ at' \in Nat \ {0} /\ at' # 1 /\ ~failed' /\ links'[victim'] = r
      BY <1>1, <2>1 DEF r
    <3> QED BY <2>8, <2>9, <3>1, <3>2 DEF Destructor
  <2> QED BY <2>2, <2>10, <2>11 DEF SignalsInv
<1>4. CASE ~Linked(victim, y)
  <2>1. failed' = TRUE /\ UNCHANGED <<links, memory, at>>
    BY <1>4 DEF Step
  <2>2. y \in Object
    BY <1>1, <1>2
  <2>3. y \notin ToSet(links[victim])
    <3>1. links[y] \in Seq(Object) /\ Occurs(links[victim], y) = Occurs(links[y], victim)
      BY <1>1, <2>2 DEF SignalsInv, LinksShape, Mutual
    <3>2. Contains(links[victim], y) <=> Contains(links[y], victim)
      <4> HIDE DEF y
      <4>1. Occurs(links[victim], y) = 0 <=> ~Contains(links[victim], y)
        BY <1>1, OccursNat
      <4>2. Occurs(links[y], victim) = 0 <=> ~Contains(links[y], victim)
        BY <3>1, OccursNat
      <4> QED BY <3>1, <4>1, <4>2
    <3>3. ~Contains(links[victim], y)
      BY <1>4, <3>2 DEF Linked
    <3> HIDE DEF y
    <3> QED BY <1>1, <3>3, OccursNat
  <2>4. at # 1
    <3>1. ASSUME at = 1 PROVE y \in ToSet(links[victim])
      BY <1>1, <1>2, <3>1 DEF SignalsInv, Destructor, ToSet
    <3> QED BY <2>3, <3>1
  <2>5. Len(memory) >= 3
    <3>1. Len(memory) # 2
      <4>1. ASSUME Len(memory) = 2 PROVE at = 2
        BY <1>1, <2>4, <4>1
      <4> QED BY <1>1, <2>3, <4>1 DEF SignalsInv, Destructor
    <3> QED BY <1>1, <1>2, <2>4, <3>1
  <2>6. LinksShape' /\ Mutual' /\ Gone'
    BY <1>1, <2>1 DEF SignalsInv, LinksShape, Mutual, Gone
  <2>7. Destructor'
    BY <1>1, <2>1, <2>5 DEF SignalsInv, Destructor
  <2> QED BY <2>6, <2>7 DEF SignalsInv
<1> QED BY <1>3, <1>4

(* The destructor has erased as many elements as its vector had.           *)
LEMMA DestroyedKeeps ==
  ASSUME SignalsAssumption, SignalsInv, Destroyed
  PROVE  SignalsInv'
<1>1. /\ victim \in Object /\ victim # None
      /\ links[victim] \in Seq(Object)
      /\ Len(links[victim]) = Len(memory) - (at - 1)
      /\ at > Len(memory) /\ at \in Nat /\ Len(memory) \in Nat
      /\ ~failed
  BY LenProperties DEF SignalsInv, LinksShape, Destructor, Destroyed
<1>2. Len(links[victim]) = 0
  BY <1>1, LenProperties
<1>3. links[victim] = <<>>
  BY <1>1, <1>2, EmptySeq
<1>4. links' = links
  BY <1>1, <1>3 DEF SignalsInv, LinksShape, Destroyed
<1>5. LinksShape' /\ Mutual'
  BY <1>4 DEF SignalsInv, LinksShape, Mutual, Destroyed
<1>6. Gone'
  BY <1>3, <1>4 DEF SignalsInv, Gone, Destroyed
<1>7. Destructor'
  BY <1>1 DEF SignalsInv, Destructor, Destroyed
<1> QED BY <1>5, <1>6, <1>7 DEF SignalsInv

LEMMA SignalsInvHolds == SignalsSpec => []SignalsInv
<1> USE SignalsAssumption
<1>1. SignalsInit => SignalsInv
  <2> SUFFICES ASSUME SignalsInit PROVE SignalsInv
    OBVIOUS
  <2>1. LinksShape /\ Gone /\ Destructor
    <3>1. <<>> \in Seq(Object)
      BY EmptySeq
    <3>2. LinksShape /\ Gone
      BY <3>1 DEF SignalsInit, LinksShape, Gone
    <3>3. Destructor
      BY <3>1 DEF SignalsInit, Destructor
    <3> QED BY <3>2, <3>3
  <2>2. Mutual
    <3>1. \A x \in Object : links[x] = <<>>
      BY DEF SignalsInit
    <3> QED BY <3>1, OccursNone DEF Mutual
  <2> QED BY <2>1, <2>2 DEF SignalsInv
<1>2. SignalsInv /\ [SignalsNext]_signalsVars => SignalsInv'
  <2> SUFFICES ASSUME SignalsInv, [SignalsNext]_signalsVars PROVE SignalsInv'
    OBVIOUS
  <2>1. ASSUME NEW signal \in Signal, NEW slot \in Slot, Add(signal, slot)
        PROVE  SignalsInv'
    BY <2>1, AddKeeps
  <2>2. ASSUME NEW signal \in Signal, NEW slot \in Slot, RemoveSlot(signal, slot)
        PROVE  SignalsInv'
    BY <2>2, RemoveSlotKeeps
  <2>3. ASSUME NEW x \in Object, Destroy(x) PROVE SignalsInv'
    BY <2>3, DestroyKeeps
  <2>4. CASE Step
    BY <2>4, StepKeeps
  <2>5. CASE Destroyed
    BY <2>5, DestroyedKeeps
  <2>6. CASE UNCHANGED signalsVars
    BY <2>6 DEF SignalsInv, LinksShape, Mutual, Gone, Destructor, signalsVars, destructor
  <2> QED BY <2>1, <2>2, <2>3, <2>4, <2>5, <2>6 DEF SignalsNext
<1> QED BY <1>1, <1>2, PTL DEF SignalsSpec

(* Signals and slots point at each other as often as they are pointed at,  *)
(* and only at objects that are alive, whatever is added, removed and      *)
(* destroyed; the assertion of remove() fails in no destructor of an       *)
(* object with one or two links.                                           *)
THEOREM SignalsLinksMutual == SignalsSpec => []LinksMutual
<1> USE SignalsAssumption
<1>1. SignalsInv => LinksMutual
  <2> SUFFICES ASSUME SignalsInv PROVE LinksMutual
    OBVIOUS
  <2>1. failed => Len(memory) >= 3
    BY DEF SignalsInv, Destructor
  <2>2. \A x, y \in Object : Count(x, y) = Occurs(links[x], y)
    BY DEF Count, Occurs, Places
  <2>3. \A x \in alive, y \in Object : Count(x, y) = Count(y, x)
    BY <2>2 DEF SignalsInv, LinksShape, Mutual
  <2>4. ASSUME NEW x \in alive, NEW y \in ToSet(links[x]) PROVE y \in alive
    <3>1. x \in Object /\ links[x] \in Seq(Object)
      BY DEF SignalsInv, LinksShape
    <3>2. Contains(links[x], y) /\ Occurs(links[x], y) # 0
      BY <3>1, OccursNat
    <3>3. y \in Object
      <4>1. \A i \in 1..Len(links[x]) : links[x][i] \in Object
        BY <3>1, ElementOfSeq
      <4> QED BY <3>1, <3>2, <4>1 DEF Contains
    <3>4. Occurs(links[y], x) # 0
      BY <3>1, <3>2, <3>3 DEF SignalsInv, Mutual
    <3>5. links[y] # <<>>
      BY <3>4, OccursNone
    <3> QED BY <3>3, <3>5 DEF SignalsInv, Gone
  <2> QED BY <2>1, <2>3, <2>4 DEF LinksMutual, NobodyDangles
<1> QED BY <1>1, SignalsInvHolds, PTL
-----------------------------------------------------------------------------
(***************************************************************************)
(* LineReaders                                                             *)
(***************************************************************************)

Byte == 0..255

LEMMA LastOf ==
  ASSUME NEW n \in Nat, NEW I \in SUBSET (0..n), I # {}
  PROVE  Max(I) \in I /\ \A i \in I : i <= Max(I)
<1> DEFINE J == {n - i : i \in I}
<1>1. J # {} /\ J \in SUBSET Nat
  <2>1. \A i \in I : n - i \in Nat
    BY SMT
  <2>2. PICK i \in I : TRUE
    OBVIOUS
  <2>3. n - i \in J
    OBVIOUS
  <2> QED BY <2>1, <2>3
<1>2. PICK k \in J : \A j \in J : k <= j
  <2> HIDE DEF J
  <2> QED BY <1>1, FirstOf
<1>3. PICK m \in I : k = n - m
  BY <1>2
<1>4. \A i \in I : i <= m
  <2>1. ASSUME NEW i \in I PROVE i <= m
    <3>1. n - i \in J
      OBVIOUS
    <3> QED BY <1>2, <1>3, <3>1
  <2> QED BY <2>1
<1> HIDE DEF J
<1>5. \E x \in I : \A y \in I : x >= y
  BY <1>4
<1>6. Max(I) \in I /\ \A y \in I : Max(I) >= y
  BY <1>5 DEF Max
<1> QED BY <1>6

LEMMA MaxIs ==
  ASSUME NEW I \in SUBSET Nat, NEW m \in I, \A i \in I : i <= m
  PROVE  Max(I) = m
<1>1. \E x \in I : \A y \in I : x >= y
  OBVIOUS
<1>2. Max(I) \in I /\ \A y \in I : Max(I) >= y
  BY <1>1 DEF Max
<1>3. Max(I) \in Nat /\ m \in Nat /\ Max(I) >= m /\ Max(I) <= m
  BY <1>2
<1> QED BY <1>3

(* What came before does not change by what comes after.                   *)
LEMMA SubSeqAppend ==
  ASSUME NEW S, NEW s \in Seq(S), NEW e \in S, NEW t, t = Append(s, e),
         NEW m \in Nat \ {0}, NEW n \in Int, n <= Len(s)
  PROVE  SubSeq(t, m, n) = SubSeq(s, m, n)
<1>1. /\ t \in Seq(S) /\ Len(t) = Len(s) + 1 /\ Len(s) \in Nat
      /\ \A i \in 1..Len(s) : t[i] = s[i]
  BY AppendProperties, LenProperties
<1>2. CASE n < m
  BY <1>2, SubSeqEmpty
<1>3. CASE m <= n
  <2> DEFINE a == SubSeq(t, m, n)
             b == SubSeq(s, m, n)
  <2>1. \A i \in m..n : t[i] \in S /\ s[i] \in S /\ t[i] = s[i]
    <3>1. \A i \in 1..Len(s) : s[i] \in S
      BY ElementOfSeq
    <3> QED BY <1>1, <3>1
  <2>2. /\ a \in Seq(S) /\ Len(a) = n - m + 1
        /\ \A i \in 1..n - m + 1 : a[i] = t[m + i - 1]
    BY <1>3, <2>1, SubSeqProperties
  <2>3. /\ b \in Seq(S) /\ Len(b) = n - m + 1
        /\ \A i \in 1..n - m + 1 : b[i] = s[m + i - 1]
    BY <1>3, <2>1, SubSeqProperties
  <2> HIDE DEF a, b
  <2>4. \A i \in 1..n - m + 1 : a[i] = b[i]
    BY <2>1, <2>2, <2>3
  <2>5. a = b
    BY <2>2, <2>3, <2>4, SeqEqual
  <2> QED BY <2>5 DEF a, b
<1> QED BY <1>1, <1>2, <1>3

LEMMA SubSeqIs ==
  ASSUME NEW S, NEW s \in Seq(S), NEW m \in Nat \ {0}, NEW n \in Int, n <= Len(s), m <= n + 1,
         NEW t, t = SubSeq(s, m, n)
  PROVE  t \in Seq(S) /\ Len(t) = n - m + 1 /\ \A i \in 1..n - m + 1 : t[i] = s[m + i - 1]
<1>1. Len(s) \in Nat /\ \A i \in 1..Len(s) : s[i] \in S
  BY LenProperties, ElementOfSeq
<1>2. \A i \in m..n : s[i] \in S
  BY <1>1
<1>3. /\ t \in Seq(S)
      /\ Len(t) = IF m <= n THEN n - m + 1 ELSE 0
      /\ \A i \in 1..n - m + 1 : t[i] = s[m + i - 1]
  BY <1>2, SubSeqProperties
<1>4. Len(t) = n - m + 1
  BY <1>3
<1> QED BY <1>3, <1>4
-----------------------------------------------------------------------------
CutInv ==
  /\ fed \in Seq(Byte) /\ stream \in Seq(Byte)
  /\ crlf_lines \in Seq(Seq(Byte))
  /\ CutAtCrlf

(* The end before a position, and before what comes next.                  *)
LEMMA EndBefore ==
  ASSUME fed \in Seq(Byte)
  PROVE  /\ Len(fed) \in Nat /\ IsFiniteSet(Ends)
         /\ \A e \in Ends : e \in 2..Len(fed)
         /\ \A i \in 1..Len(fed) + 1 :
              /\ Before(i) \in Ends \cup {0} /\ Before(i) < i
              /\ \A e \in Ends : e < i => e <= Before(i)
<1>1. Len(fed) \in Nat
  BY LenProperties
<1>2. Ends \in SUBSET (2..Len(fed))
  BY DEF Ends
<1>3. IsFiniteSet(Ends)
  <2>1. IsFiniteSet(2..Len(fed))
    BY <1>1, FS_Interval
  <2> QED BY <1>2, <2>1, FS_Subset
<1>4. ASSUME NEW i \in 1..Len(fed) + 1
      PROVE  /\ Before(i) \in Ends \cup {0} /\ Before(i) < i
             /\ \A e \in Ends : e < i => e <= Before(i)
  <2> DEFINE I == {j \in Ends \cup {0} : j < i}
  <2>1. I \in SUBSET (0..Len(fed)) /\ I # {}
    <3>1. 0 \in I
      BY <1>1
    <3>2. \A j \in I : j \in Ends \/ j = 0
      OBVIOUS
    <3>3. \A j \in I : j \in 0..Len(fed)
      BY <1>1, <1>2, <3>2
    <3> QED BY <3>1, <3>3
  <2>2. Max(I) \in I /\ \A j \in I : j <= Max(I)
    <3> HIDE DEF I
    <3> QED BY <1>1, <2>1, LastOf
  <2>3. Before(i) = Max(I)
    BY DEF Before
  <2> QED BY <2>2, <2>3
<1>5. \A e \in Ends : e \in 2..Len(fed)
  BY <1>2
<1> QED BY <1>1, <1>3, <1>4, <1>5

(* ReadLineCRLF::on_byte_received()                                        *)
LEMMA CrlfByteCuts ==
  ASSUME CutInv, NEW b \in Byte, CrlfByte(b), fed' = Append(fed, b)
  PROVE  crlf_lines' \in Seq(Seq(Byte)) /\ CutAtCrlf'
<1> DEFINE n == Len(fed)
           m == Before(n + 1)
<1>1. /\ n \in Nat /\ IsFiniteSet(Ends) /\ \A e \in Ends : e \in 2..n
      /\ \A i \in 1..n + 1 :
           /\ Before(i) \in Ends \cup {0} /\ Before(i) < i
           /\ \A e \in Ends : e < i => e <= Before(i)
  BY EndBefore DEF CutInv
<1>2. /\ fed' \in Seq(Byte) /\ Len(fed') = n + 1
      /\ \A i \in 1..n : fed'[i] = fed[i]
      /\ fed'[n + 1] = b
  BY AppendProperties DEF CutInv
<1>3. /\ Len(crlf_lines) = Cardinality(Ends) /\ Len(crlf_lines) \in Nat
      /\ crlf_lines \in Seq(Seq(Byte))
      /\ crlf_buffer = SubSeq(fed, m + 1, n)
      /\ \A i \in Ends :
           crlf_lines[Cardinality({j \in Ends : j <= i})] = SubSeq(fed, Before(i) + 1, i - 2)
  BY LenProperties DEF CutInv, CutAtCrlf
<1>4. m \in Ends \cup {0} /\ m \in 0..n /\ \A e \in Ends : e <= m
  <2>1. n + 1 \in 1..n + 1
    BY <1>1
  <2>2. m \in Ends \cup {0} /\ \A e \in Ends : e < n + 1 => e <= m
    BY <1>1, <2>1
  <2> HIDE DEF m, n
  <2> QED BY <1>1, <2>2
<1> HIDE DEF m
<1>5. \A i \in 1..n : fed[i] \in Byte
  BY ElementOfSeq DEF CutInv
<1>6. /\ crlf_buffer \in Seq(Byte) /\ Len(crlf_buffer) = n - m
      /\ \A i \in 1..n - m : crlf_buffer[i] = fed[m + i]
  <2>1. \A i \in m + 1..n : fed[i] \in Byte
    BY <1>4, <1>5
  <2> HIDE DEF n
  <2>2. /\ crlf_buffer \in Seq(Byte)
        /\ Len(crlf_buffer) = IF m + 1 <= n THEN n - (m + 1) + 1 ELSE 0
        /\ \A i \in 1..n - (m + 1) + 1 : crlf_buffer[i] = fed[m + 1 + i - 1]
    BY <1>1, <1>3, <1>4, <2>1, SubSeqProperties
  <2> QED BY <1>1, <1>4, <2>2
<1> DEFINE Ended == n >= 1 /\ fed[n] = CR /\ b = LF
<1>7. EndsLine(b) <=> Ended
  <2>1. CASE m = n
    <3>1. crlf_buffer = <<>>
      BY <1>1, <1>6, <2>1, EmptySeq
    <3>2. n = 0 \/ fed[n] = LF
      BY <1>4, <2>1 DEF Ends
    <3> QED BY <1>1, <3>1, <3>2 DEF EndsLine, CR, LF
  <2>2. CASE m < n
    <3>1. crlf_buffer # <<>>
      BY <1>1, <1>4, <1>6, <2>2, EmptySeq
    <3>2. Last(crlf_buffer) = fed[n]
      BY <1>1, <1>4, <1>6, <2>2 DEF Last
    <3> QED BY <1>1, <1>4, <2>2, <3>1, <3>2 DEF EndsLine
  <2> QED BY <1>1, <1>4, <2>1, <2>2
<1>8. Ends' = IF Ended THEN Ends \cup {n + 1} ELSE Ends
  <2>1. Ends' = {i \in 2..n + 1 : fed'[i - 1] = CR /\ fed'[i] = LF}
    BY <1>2 DEF Ends
  <2>2. ASSUME NEW i \in 2..n PROVE i \in Ends' <=> i \in Ends
    <3>1. fed'[i] = fed[i] /\ fed'[i - 1] = fed[i - 1]
      BY <1>1, <1>2
    <3> QED BY <1>1, <2>1, <3>1 DEF Ends
  <2>3. n + 1 \in Ends' <=> Ended
    <3>1. n >= 1 => fed'[n] = fed[n]
      BY <1>1, <1>2
    <3> QED BY <1>1, <1>2, <2>1, <3>1
  <2>4. Ends' \in SUBSET (2..n + 1) /\ \A i \in 2..n + 1 : i = n + 1 \/ i \in 2..n
    BY <1>1, <2>1
  <2> HIDE DEF Ended
  <2>5. \A i \in Ends' : i \in Ends \/ (i = n + 1 /\ Ended)
    BY <2>2, <2>3, <2>4
  <2>6. \A i \in Ends : i \in Ends'
    BY <1>1, <2>2
  <2> QED BY <2>3, <2>5, <2>6
<1> HIDE DEF Ended
<1>9. ASSUME NEW i \in 1..n + 1 PROVE Before(i)' = Before(i)
  <2>1. {j \in Ends' \cup {0} : j < i} = {j \in Ends \cup {0} : j < i}
    BY <1>1, <1>8
  <2> QED BY <2>1 DEF Before
<1>10. Before(Len(fed) + 1)' = IF Ended THEN n + 1 ELSE m
  <2> DEFINE I == {j \in Ends' \cup {0} : j < Len(fed') + 1}
             k == IF Ended THEN n + 1 ELSE m
  <2>1. I \in SUBSET Nat /\ k \in I /\ \A i \in I : i <= k
    <3>1. \A j \in Ends' : j \in Ends \/ (j = n + 1 /\ Ended)
      BY <1>8
    <3>2. k \in Ends' \cup {0} /\ k \in Nat /\ k < Len(fed') + 1
      BY <1>1, <1>2, <1>4, <1>8
    <3>3. ASSUME NEW j \in I PROVE j \in Nat /\ j <= k
      <4>1. j \in Ends \/ (j = n + 1 /\ Ended) \/ j = 0
        BY <3>1
      <4>2. j \in Ends => j <= m /\ j \in Nat /\ m <= n
        BY <1>1, <1>4
      <4> QED BY <1>1, <1>4, <4>1, <4>2
    <3> QED BY <3>2, <3>3
  <2>2. Max(I) = k
    <3> HIDE DEF I, k
    <3> QED BY <2>1, MaxIs
  <2>3. Before(Len(fed) + 1)' = Max(I)
    BY DEF Before
  <2> QED BY <2>2, <2>3
<1>11. ASSUME NEW i \in Ends
       PROVE  /\ i \in 2..n
              /\ {j \in Ends' : j <= i} = {j \in Ends : j <= i}
              /\ Cardinality({j \in Ends : j <= i}) \in 1..Len(crlf_lines)
  <2> DEFINE J == {j \in Ends : j <= i}
  <2>1. i \in 2..n /\ {j \in Ends' : j <= i} = J /\ i \in J /\ J \subseteq Ends
    BY <1>1, <1>8
  <2> HIDE DEF J
  <2>2. IsFiniteSet(J) /\ Cardinality(J) <= Cardinality(Ends)
    BY <1>1, <2>1, FS_Subset
  <2>3. Cardinality(J) \in Nat /\ Cardinality(J) # 0
    BY <2>1, <2>2, FS_CardinalityType, FS_EmptySet
  <2>4. Cardinality(J) \in 1..Len(crlf_lines)
    BY <1>3, <2>2, <2>3
  <2> QED BY <2>1, <2>4 DEF J
<1>12. ASSUME NEW i \in Ends
       PROVE  SubSeq(fed', Before(i)' + 1, i - 2) = SubSeq(fed, Before(i) + 1, i - 2)
  <2>1. i \in 2..n
    BY <1>11
  <2>2. Before(i)' = Before(i) /\ Before(i) + 1 \in Nat \ {0}
    <3>1. i \in 1..n + 1
      BY <1>1, <2>1
    <3>2. Before(i) \in Ends \cup {0}
      BY <1>1, <3>1
    <3>3. Before(i) \in Nat
      BY <1>1, <3>2
    <3> QED BY <1>9, <3>1, <3>3
  <2> HIDE DEF n
  <2> DEFINE k == Before(i) + 1
  <2>3. i - 2 \in Int /\ i - 2 <= Len(fed)
    BY <1>1, <2>1 DEF n
  <2>4. SubSeq(fed', k, i - 2) = SubSeq(fed, k, i - 2)
    <3>1. k \in Nat \ {0} /\ fed \in Seq(Byte)
      BY <2>2 DEF CutInv
    <3> HIDE DEF k
    <3> QED BY <2>3, <3>1, SubSeqAppend
  <2> QED BY <2>2, <2>4
<1>13. CASE Ended
  <2>1. crlf_lines' = Append(crlf_lines, Front(crlf_buffer)) /\ crlf_buffer' = <<>>
    BY <1>7, <1>13 DEF CrlfByte
  <2>2. n >= 1 /\ m < n
    <3>1. n >= 1 /\ fed[n] = CR
      BY <1>13 DEF Ended
    <3>2. n \notin Ends
      BY <3>1 DEF Ends, CR, LF
    <3> QED BY <1>1, <1>4, <3>1, <3>2
  <2>3. Front(crlf_buffer) = SubSeq(fed', m + 1, n - 1) /\ Front(crlf_buffer) \in Seq(Byte)
    <3> DEFINE f == Front(crlf_buffer)
               g == SubSeq(fed', m + 1, n - 1)
    <3>1. f = SubSeq(crlf_buffer, 1, n - m - 1)
      BY <1>6 DEF Front
    <3>2. \A i \in 1..n - m - 1 : crlf_buffer[i] \in Byte
      BY <1>1, <1>4, <1>5, <1>6
    <3>3. /\ f \in Seq(Byte)
          /\ Len(f) = IF 1 <= n - m - 1 THEN n - m - 1 - 1 + 1 ELSE 0
          /\ \A i \in 1..n - m - 1 - 1 + 1 : f[i] = crlf_buffer[1 + i - 1]
      <4> HIDE DEF f, n
      <4>1. n - m - 1 \in Int
        BY <1>1, <1>4
      <4> QED BY <3>1, <3>2, <4>1, SubSeqProperties
    <3>5. /\ g \in Seq(Byte) /\ Len(g) = n - m - 1
          /\ \A i \in 1..n - m - 1 : g[i] = fed'[m + i]
      <4> DEFINE F == fed'
                 a == m + 1
                 k == n - 1
      <4>1. /\ F \in Seq(Byte) /\ a \in Nat \ {0} /\ k \in Int
            /\ k <= Len(F) /\ a <= k + 1 /\ g = SubSeq(F, a, k)
        BY <1>1, <1>2, <1>4, <2>2
      <4> HIDE DEF F, a, k, g
      <4>2. g \in Seq(Byte) /\ Len(g) = k - a + 1 /\ \A i \in 1..k - a + 1 : g[i] = F[a + i - 1]
        BY <4>1, SubSeqIs
      <4>3. k - a + 1 = n - m - 1
        BY <1>1, <1>4 DEF k, a
      <4>4. \A i \in 1..k - a + 1 : a + i - 1 = m + i
        BY <1>1, <1>4, <4>1 DEF a
      <4> QED BY <4>2, <4>3, <4>4 DEF F
    <3> HIDE DEF f, g
    <3>6. Len(f) = n - m - 1 /\ Len(g) = n - m - 1
      BY <1>1, <1>4, <2>2, <3>3, <3>5
    <3>7. ASSUME NEW i \in 1..n - m - 1 PROVE f[i] = g[i]
      <4>1. f[i] = crlf_buffer[i]
        BY <1>1, <1>4, <3>3
      <4>2. g[i] = fed'[m + i]
        BY <3>5
      <4>3. i \in 1..n - m /\ m + i \in 1..n
        BY <1>1, <1>4
      <4> QED BY <1>2, <1>6, <4>1, <4>2, <4>3
    <3>8. f = g
      BY <3>3, <3>5, <3>6, <3>7, SeqEqual
    <3> QED BY <3>3, <3>8 DEF f, g
  <2>4. /\ crlf_lines' \in Seq(Seq(Byte)) /\ Len(crlf_lines') = Len(crlf_lines) + 1
        /\ \A i \in 1..Len(crlf_lines) : crlf_lines'[i] = crlf_lines[i]
        /\ crlf_lines'[Len(crlf_lines) + 1] = SubSeq(fed', m + 1, n - 1)
    <3> DEFINE f == Front(crlf_buffer)
    <3>1. f \in Seq(Byte) /\ f = SubSeq(fed', m + 1, n - 1) /\ crlf_lines' = Append(crlf_lines, f)
      BY <2>1, <2>3
    <3> HIDE DEF f
    <3>2. /\ crlf_lines' \in Seq(Seq(Byte)) /\ Len(crlf_lines') = Len(crlf_lines) + 1
          /\ \A i \in 1..Len(crlf_lines) : crlf_lines'[i] = crlf_lines[i]
          /\ crlf_lines'[Len(crlf_lines) + 1] = f
      <4> DEFINE T == Seq(Byte)
                 r == crlf_lines'
      <4>1. crlf_lines \in Seq(T) /\ f \in T /\ r = Append(crlf_lines, f)
        BY <1>3, <3>1
      <4> HIDE DEF T, r
      <4>2. /\ r \in Seq(T) /\ Len(r) = Len(crlf_lines) + 1
            /\ \A i \in 1..Len(crlf_lines) : r[i] = crlf_lines[i]
            /\ r[Len(crlf_lines) + 1] = f
        BY <4>1, AppendProperties
      <4> QED BY <4>2 DEF T, r
    <3> QED BY <3>1, <3>2
  <2>5. Cardinality(Ends') = Len(crlf_lines) + 1
    <3>1. Ends' = Ends \cup {n + 1} /\ n + 1 \notin Ends
      BY <1>1, <1>8, <1>13
    <3> QED BY <1>1, <1>3, <3>1, FS_AddElement
  <2>6. ASSUME NEW i \in Ends'
        PROVE  crlf_lines'[Cardinality({j \in Ends' : j <= i})]
                 = SubSeq(fed', Before(i)' + 1, i - 2)
    <3>1. CASE i \in Ends
      BY <1>3, <1>11, <1>12, <2>4, <3>1
    <3>2. CASE i = n + 1
      <4>1. {j \in Ends' : j <= i} = Ends'
        <5>1. \A j \in Ends' : j \in Ends \/ j = n + 1
          BY <1>8
        <5>2. \A j \in Ends' : j <= i
          BY <1>1, <3>2, <5>1
        <5> QED BY <5>2
      <4>2. Before(i)' = m /\ i - 2 = n - 1
        BY <1>1, <1>9, <3>2 DEF m
      <4> QED BY <2>4, <2>5, <4>1, <4>2
    <3> QED BY <1>8, <1>13, <3>1, <3>2
  <2>7. crlf_buffer' = SubSeq(fed', Before(Len(fed) + 1)' + 1, Len(fed'))
    <3>1. Before(Len(fed) + 1)' + 1 = n + 2
      BY <1>1, <1>10, <1>13
    <3>2. SubSeq(fed', n + 2, n + 1) = <<>>
      BY <1>1, SubSeqEmpty
    <3>3. Len(fed') = n + 1 /\ Len(fed') + 1 = n + 2
      BY <1>1, <1>2
    <3> QED BY <2>1, <3>1, <3>2, <3>3
  <2> QED BY <2>4, <2>5, <2>6, <2>7 DEF CutAtCrlf
<1>14. CASE ~Ended
  <2>1. crlf_lines' = crlf_lines /\ crlf_buffer' = Append(crlf_buffer, b)
    BY <1>7, <1>14 DEF CrlfByte
  <2>2. Ends' = Ends
    BY <1>8, <1>14
  <2>3. ASSUME NEW i \in Ends'
        PROVE  crlf_lines'[Cardinality({j \in Ends' : j <= i})]
                 = SubSeq(fed', Before(i)' + 1, i - 2)
    BY <1>3, <1>12, <2>1, <2>2
  <2>4. crlf_buffer' = SubSeq(fed', m + 1, n + 1)
    <3> DEFINE f == crlf_buffer'
               g == SubSeq(fed', m + 1, n + 1)
    <3>1. /\ f \in Seq(Byte) /\ Len(f) = n - m + 1
          /\ \A i \in 1..n - m : f[i] = crlf_buffer[i]
          /\ f[n - m + 1] = b
      BY <1>6, <2>1, AppendProperties
    <3>3. /\ g \in Seq(Byte) /\ Len(g) = n - m + 1
          /\ \A i \in 1..n - m + 1 : g[i] = fed'[m + i]
      <4> DEFINE F == fed'
                 a == m + 1
                 k == n + 1
      <4>1. /\ F \in Seq(Byte) /\ a \in Nat \ {0} /\ k \in Int
            /\ k <= Len(F) /\ a <= k + 1 /\ g = SubSeq(F, a, k)
        BY <1>1, <1>2, <1>4
      <4> HIDE DEF F, a, k, g
      <4>2. g \in Seq(Byte) /\ Len(g) = k - a + 1 /\ \A i \in 1..k - a + 1 : g[i] = F[a + i - 1]
        BY <4>1, SubSeqIs
      <4>3. k - a + 1 = n - m + 1
        BY <1>1, <1>4 DEF k, a
      <4>4. \A i \in 1..k - a + 1 : a + i - 1 = m + i
        BY <1>1, <1>4, <4>1 DEF a
      <4> QED BY <4>2, <4>3, <4>4 DEF F
    <3> HIDE DEF f, g
    <3>4. Len(g) = n - m + 1
      BY <1>1, <1>4, <3>3
    <3>5. ASSUME NEW i \in 1..n - m + 1 PROVE f[i] = g[i]
      <4>1. g[i] = fed'[m + i]
        BY <3>3
      <4>2. CASE i = n - m + 1
        BY <1>1, <1>2, <1>4, <3>1, <4>1, <4>2
      <4>3. CASE i # n - m + 1
        <5>1. i \in 1..n - m /\ m + i \in 1..n
          BY <1>1, <1>4, <4>3
        <5> QED BY <1>2, <1>6, <3>1, <4>1, <5>1
      <4> QED BY <4>2, <4>3
    <3>6. f = g
      BY <3>1, <3>3, <3>4, <3>5, SeqEqual
    <3> QED BY <3>6 DEF f, g
  <2>5. crlf_buffer' = SubSeq(fed', Before(Len(fed) + 1)' + 1, Len(fed'))
    <3>1. Before(Len(fed) + 1)' = m
      BY <1>10, <1>14
    <3>2. Len(fed') = n + 1 /\ Len(fed') + 1 = n + 2
      BY <1>1, <1>2
    <3> QED BY <2>4, <3>1, <3>2
  <2> QED BY <1>3, <2>1, <2>2, <2>3, <2>5 DEF CutAtCrlf
<1> QED BY <1>13, <1>14

(* What the client sends is bytes.                                         *)
Piece == Sequence \cup {<<IAC, IAC>>} \cup Letter \cup EndOfLine

LEMMA PiecesAreBytes ==
  ASSUME LineReadersAssumption
  PROVE  \A piece \in Piece : piece \in Seq(Byte)
<1> USE DEF NUL, LF, CR, SE, NOP, SB, WILL, DONT, IAC, Byte
<1>1. \A piece \in EndOfLine \cup {<<IAC, IAC>>, <<IAC, NOP>>} : piece \in Seq(Byte)
  <2>1. <<CR, LF>> \in Seq(Byte) /\ <<CR, NUL>> \in Seq(Byte)
    OBVIOUS
  <2>2. <<CR>> \in Seq(Byte) /\ <<LF>> \in Seq(Byte)
    OBVIOUS
  <2>3. <<IAC, IAC>> \in Seq(Byte) /\ <<IAC, NOP>> \in Seq(Byte)
    OBVIOUS
  <2> HIDE DEF NUL, LF, CR, NOP, IAC, Byte
  <2> QED BY <2>1, <2>2, <2>3 DEF EndOfLine
<1>2. \A piece \in Letter : piece \in Seq(Byte)
  <2>1. \A b \in Text : b \in Byte
    BY DEF LineReadersAssumption
  <2> HIDE DEF Byte
  <2>2. \A b \in Text : <<b>> \in Seq(Byte)
    BY <2>1
  <2> QED BY <2>2 DEF Letter
<1>3. ASSUME NEW c \in {WILL, DONT}, NEW o \in Argument PROVE <<IAC, c, o>> \in Seq(Byte)
  BY DEF LineReadersAssumption
<1>4. ASSUME NEW p \in Payload PROVE <<IAC, SB>> \o p \o <<IAC, SE>> \in Seq(Byte)
  <2>1. p \in Seq(Byte) /\ <<IAC, SB>> \in Seq(Byte) /\ <<IAC, SE>> \in Seq(Byte)
    BY DEF LineReadersAssumption
  <2> DEFINE a == <<IAC, SB>>
             b == <<IAC, SE>>
  <2> HIDE DEF a, b, Byte
  <2>2. a \o p \in Seq(Byte)
    BY <2>1, ConcatProperties DEF a
  <2>3. a \o p \o b \in Seq(Byte)
    BY <2>1, <2>2, ConcatProperties DEF b
  <2> QED BY <2>3 DEF a, b
<1> HIDE DEF NUL, LF, CR, SE, NOP, SB, WILL, DONT, IAC, Byte
<1>5. ASSUME NEW piece \in Sequence PROVE piece \in Seq(Byte)
  <2>1. \/ piece = <<IAC, NOP>>
        \/ \E c \in {WILL, DONT}, o \in Argument : piece = <<IAC, c, o>>
        \/ \E p \in Payload : piece = <<IAC, SB>> \o p \o <<IAC, SE>>
    BY DEF Sequence
  <2>2. CASE piece = <<IAC, NOP>>
    BY <1>1, <2>2
  <2>3. CASE \E c \in {WILL, DONT}, o \in Argument : piece = <<IAC, c, o>>
    BY <1>3, <2>3
  <2>4. CASE \E p \in Payload : piece = <<IAC, SB>> \o p \o <<IAC, SE>>
    BY <1>4, <2>4
  <2> QED BY <2>1, <2>2, <2>3, <2>4
<1> QED BY <1>1, <1>2, <1>5 DEF Piece

(* The client puts a piece behind what it has sent.                        *)
LEMMA ClientPuts ==
  ASSUME SendSequence \/ SendIAC \/ SendLetter \/ SendEnd
  PROVE  \E piece \in Piece : stream' = stream \o piece /\ UNCHANGED <<telnet, crlf, fed>>
BY DEF SendSequence, SendIAC, SendLetter, SendEnd, Put, Piece

LEMMA CutKept ==
  ASSUME CutAtCrlf, UNCHANGED <<crlf, fed>> PROVE CutAtCrlf'
<1>1. fed' = fed /\ crlf_lines' = crlf_lines /\ crlf_buffer' = crlf_buffer
  BY DEF crlf
<1>2. Ends' = Ends
  BY <1>1 DEF Ends
<1>3. \A i : Max({j \in Ends' \cup {0} : j < i}) = Max({j \in Ends \cup {0} : j < i})
  BY <1>2
<1>4. Before(Len(fed) + 1)' = Before(Len(fed) + 1)
  BY <1>1, <1>3 DEF Before
<1>5. ASSUME NEW i \in Ends PROVE Before(i)' = Before(i)
  BY <1>3 DEF Before
<1>6. Len(crlf_lines') = Cardinality(Ends')
  BY <1>1, <1>2 DEF CutAtCrlf
<1>7. ASSUME NEW i \in Ends'
      PROVE  crlf_lines'[Cardinality({j \in Ends' : j <= i})]
               = SubSeq(fed', Before(i)' + 1, i - 2)
  BY <1>1, <1>2, <1>5 DEF CutAtCrlf
<1>8. crlf_buffer' = SubSeq(fed', Before(Len(fed) + 1)' + 1, Len(fed'))
  BY <1>1, <1>4 DEF CutAtCrlf
<1> QED BY <1>6, <1>7, <1>8 DEF CutAtCrlf

LEMMA CutInvHolds == ReadersSpec => []CutInv
<1> USE LineReadersAssumption
<1>1. ReadersInit => CutInv
  <2> SUFFICES ASSUME ReadersInit PROVE CutInv
    OBVIOUS
  <2>1. fed = <<>> /\ stream = <<>> /\ crlf_lines = <<>> /\ crlf_buffer = <<>> /\ Len(fed) = 0
    BY EmptySeq DEF ReadersInit
  <2>2. fed \in Seq(Byte) /\ stream \in Seq(Byte) /\ crlf_lines \in Seq(Seq(Byte))
    BY <2>1, EmptySeq
  <2>3. Ends = {} /\ Len(crlf_lines) = 0
    BY <2>1 DEF Ends
  <2>4. Before(Len(fed) + 1) \in {0}
    BY <2>1, <2>2, <2>3, EndBefore
  <2>5. SubSeq(fed, Before(Len(fed) + 1) + 1, Len(fed)) = <<>>
    BY <2>1, <2>4, SubSeqEmpty
  <2> QED BY <2>1, <2>2, <2>3, <2>5, FS_EmptySet DEF CutInv, CutAtCrlf
<1>2. CutInv /\ [ReadersNext]_readersVars => CutInv'
  <2> SUFFICES ASSUME CutInv, [ReadersNext]_readersVars PROVE CutInv'
    OBVIOUS
  <2>1. CASE SendSequence \/ SendIAC \/ SendLetter \/ SendEnd
    <3>1. PICK piece \in Piece : stream' = stream \o piece /\ UNCHANGED <<telnet, crlf, fed>>
      BY <2>1, ClientPuts
    <3>2. stream' \in Seq(Byte)
      BY <3>1, PiecesAreBytes, ConcatProperties DEF CutInv
    <3>3. UNCHANGED <<crlf, fed>>
      BY <3>1
    <3>4. CutAtCrlf'
      BY <3>3, CutKept DEF CutInv
    <3>5. fed' \in Seq(Byte) /\ crlf_lines' \in Seq(Seq(Byte))
      BY <3>3 DEF CutInv, crlf
    <3> QED BY <3>2, <3>4, <3>5 DEF CutInv
  <2>2. CASE DataReceived
    <3> DEFINE b == Head(stream)
    <3>1. b \in Byte /\ stream' \in Seq(Byte)
      BY <2>2, HeadTailProperties DEF CutInv, DataReceived
    <3>2. CrlfByte(b) /\ fed' = Append(fed, b)
      BY <2>2 DEF DataReceived
    <3> HIDE DEF b
    <3>3. crlf_lines' \in Seq(Seq(Byte)) /\ CutAtCrlf'
      BY <3>1, <3>2, CrlfByteCuts
    <3>4. fed' \in Seq(Byte)
      BY <3>1, <3>2, AppendProperties DEF CutInv
    <3> QED BY <3>1, <3>3, <3>4 DEF CutInv
  <2>3. CASE UNCHANGED readersVars
    <3>1. UNCHANGED <<crlf, fed>> /\ stream' = stream
      BY <2>3 DEF readersVars
    <3>2. UNCHANGED <<crlf, fed>>
      BY <3>1
    <3>3. CutAtCrlf'
      BY <3>2, CutKept DEF CutInv
    <3>4. fed' \in Seq(Byte) /\ stream' \in Seq(Byte) /\ crlf_lines' \in Seq(Seq(Byte))
      BY <3>1 DEF CutInv, crlf
    <3> QED BY <3>3, <3>4 DEF CutInv
  <2> QED BY <2>1, <2>2, <2>3 DEF ReadersNext
<1> QED BY <1>1, <1>2, PTL DEF ReadersSpec

(* ReadLineCRLF cuts any stream of bytes at every CR LF and nowhere else,  *)
(* CR CR LF and CR LF CR LF among them, one task after another.            *)
THEOREM ReadersCutAtCrlf == ReadersSpec => []CutAtCrlf
<1>1. CutInv => CutAtCrlf
  BY DEF CutInv
<1> QED BY <1>1, CutInvHolds, PTL
-----------------------------------------------------------------------------
(* What ReadTelnetLine is in, and what it is in after a byte more.         *)
Mode == {"Text", "Command", "Option", "Subnegotiation", "SubnegotiationCommand"}
Heard == [mode : Mode, buffer : Seq(Byte), lines : Seq(Seq(Byte))]
Hears(m, u, l) == [mode |-> m, buffer |-> u, lines |-> l]

ModeOf(m, b) ==
  IF m = "Text" THEN IF b = IAC THEN "Command" ELSE "Text"
  ELSE IF m = "Command"
    THEN IF b \in WILL..DONT THEN "Option"
         ELSE IF b = IAC THEN "Command"
         ELSE IF b = SB THEN "Subnegotiation" ELSE "Text"
  ELSE IF m = "Option" THEN "Text"
  ELSE IF m = "Subnegotiation"
    THEN IF b = IAC THEN "SubnegotiationCommand" ELSE "Subnegotiation"
  ELSE IF b = SE THEN "Text" ELSE "Subnegotiation"

Ignored(m, u, b) == m # "Text" \/ b = IAC \/ (b \in Newline /\ u = <<>>)

BufferOf(m, u, b) ==
  IF Ignored(m, u, b) THEN u ELSE IF b \in Newline THEN <<>> ELSE Append(u, b)

LinesOf(m, u, l, b) == IF ~Ignored(m, u, b) /\ b \in Newline THEN Append(l, u) ELSE l

ByteOf(q, b) ==
  Hears(ModeOf(q.mode, b), BufferOf(q.mode, q.buffer, b),
        LinesOf(q.mode, q.buffer, q.lines, b))

(* One sequence begins another; and what happens on the way along some     *)
(* bytes: the lines only grow.                                             *)
Begins(s, t) == Len(s) <= Len(t) /\ \A i \in 1..Len(s) : s[i] = t[i]

Way(s, p, q, r) ==
  /\ p \in [1..Len(s) + 1 -> Heard]
  /\ p[1] = q /\ p[Len(s) + 1] = r
  /\ \A i \in 1..Len(s) : p[i + 1] = ByteOf(p[i], s[i])
  /\ \A i \in 1..Len(s) + 1 : Begins(p[i].lines, r.lines)

Leads(s, q, r) == \E p : Way(s, p, q, r)

LEMMA BeginsSelf ==
  ASSUME NEW S, NEW s \in Seq(S) PROVE Begins(s, s)
BY LenProperties DEF Begins

LEMMA BeginsBegins ==
  ASSUME NEW S, NEW s \in Seq(S), NEW t \in Seq(S), NEW u \in Seq(S), Begins(s, t), Begins(t, u)
  PROVE  Begins(s, u)
<1>1. Len(s) \in Nat /\ Len(t) \in Nat /\ Len(u) \in Nat
  BY LenProperties
<1> QED BY <1>1 DEF Begins

LEMMA ByteHeard ==
  ASSUME NEW q \in Heard, NEW b \in Byte
  PROVE  ByteOf(q, b) \in Heard /\ Begins(q.lines, ByteOf(q, b).lines)
<1>1. q.mode \in Mode /\ q.buffer \in Seq(Byte) /\ q.lines \in Seq(Seq(Byte))
  BY DEF Heard
<1>2. ModeOf(q.mode, b) \in Mode
  BY DEF ModeOf, Mode
<1>3. BufferOf(q.mode, q.buffer, b) \in Seq(Byte)
  <2>1. <<>> \in Seq(Byte) /\ Append(q.buffer, b) \in Seq(Byte)
    BY <1>1, EmptySeq, AppendProperties
  <2> QED BY <1>1, <2>1 DEF BufferOf
<1> DEFINE l == LinesOf(q.mode, q.buffer, q.lines, b)
<1>4. l \in Seq(Seq(Byte)) /\ Begins(q.lines, l)
  <2>1. CASE l = q.lines
    BY <1>1, <2>1, BeginsSelf
  <2>2. CASE l = Append(q.lines, q.buffer)
    <3> DEFINE T == Seq(Byte)
               k == q.lines
               e == q.buffer
    <3>1. k \in Seq(T) /\ e \in T /\ l = Append(k, e)
      BY <1>1, <2>2
    <3> HIDE DEF T, k, e, l
    <3>2. l \in Seq(T) /\ Len(l) = Len(k) + 1 /\ \A i \in 1..Len(k) : l[i] = k[i]
      BY <3>1, AppendProperties
    <3>3. Begins(k, l)
      BY <3>1, <3>2, LenProperties DEF Begins
    <3> QED BY <3>2, <3>3 DEF T, k
  <2> QED BY <2>1, <2>2 DEF LinesOf
<1>5. ByteOf(q, b) = Hears(ModeOf(q.mode, b), BufferOf(q.mode, q.buffer, b), l)
  BY DEF ByteOf
<1> HIDE DEF l
<1> QED BY <1>2, <1>3, <1>4, <1>5 DEF Heard, Hears

LEMMA LeadsNowhere ==
  ASSUME NEW q \in Heard PROVE Leads(<<>>, q, q)
<1> DEFINE p == [i \in 1..1 |-> q]
<1>1. q.lines \in Seq(Seq(Byte))
  BY DEF Heard
<1>2. Begins(q.lines, q.lines)
  BY <1>1, BeginsSelf
<1>3. Len(<<>>) = 0
  BY EmptySeq
<1>4. p \in [1..Len(<<>>) + 1 -> Heard] /\ p[1] = q /\ p[Len(<<>>) + 1] = q
  BY <1>3
<1>5. \A i \in 1..Len(<<>>) + 1 : p[i] = q
  BY <1>3
<1>6. \A i \in 1..Len(<<>>) : p[i + 1] = ByteOf(p[i], <<>>[i])
  BY <1>3
<1> HIDE DEF p
<1>7. Way(<<>>, p, q, q)
  BY <1>2, <1>4, <1>5, <1>6 DEF Way
<1> QED BY <1>7 DEF Leads

LEMMA LeadsEnds ==
  ASSUME NEW s \in Seq(Byte), NEW q, NEW r, Leads(s, q, r)
  PROVE  /\ q \in Heard /\ r \in Heard /\ Begins(q.lines, r.lines)
         /\ s = <<>> => q = r
<1>1. PICK p : Way(s, p, q, r)
  BY DEF Leads
<1>2. Len(s) \in Nat /\ (s = <<>> => Len(s) = 0)
  BY LenProperties, EmptySeq
<1> QED BY <1>1, <1>2 DEF Way

(* A byte more at the end of the way.                                      *)
LEMMA LeadsOn ==
  ASSUME NEW s \in Seq(Byte), NEW q, NEW r, Leads(s, q, r), NEW b \in Byte
  PROVE  Leads(Append(s, b), q, ByteOf(r, b))
<1> DEFINE n == Len(s)
           t == Append(s, b)
           u == ByteOf(r, b)
<1>1. PICK p : Way(s, p, q, r)
  BY DEF Leads
<1>2. n \in Nat /\ Len(t) = n + 1 /\ (\A i \in 1..n : t[i] = s[i]) /\ t[n + 1] = b
  BY AppendProperties, LenProperties
<1>3. r \in Heard /\ u \in Heard /\ Begins(r.lines, u.lines)
  BY LeadsEnds, ByteHeard
<1> HIDE DEF t, u
<1> DEFINE z == [i \in 1..n + 2 |-> IF i = n + 2 THEN u ELSE p[i]]
<1>4. /\ p \in [1..n + 1 -> Heard] /\ p[1] = q /\ p[n + 1] = r
      /\ \A i \in 1..n : p[i + 1] = ByteOf(p[i], s[i])
      /\ \A i \in 1..n + 1 : Begins(p[i].lines, r.lines)
  BY <1>1 DEF Way
<1> HIDE DEF n
<1>5. (\A i \in 1..n + 1 : z[i] = p[i]) /\ z[n + 2] = u
  BY <1>2
<1>6. z \in [1..n + 2 -> Heard]
  BY <1>2, <1>3, <1>4
<1> HIDE DEF z
<1>7. z[1] = q
  BY <1>2, <1>4, <1>5
<1>8. ASSUME NEW i \in 1..n + 1 PROVE z[i + 1] = ByteOf(z[i], t[i])
  <2>1. CASE i = n + 1
    <3>1. z[i + 1] = u /\ z[i] = r /\ t[i] = b
      BY <1>2, <1>4, <1>5, <2>1
    <3> QED BY <3>1 DEF u
  <2>2. CASE i \in 1..n
    <3>1. z[i + 1] = p[i + 1] /\ z[i] = p[i] /\ t[i] = s[i]
      BY <1>2, <1>5, <2>2
    <3> QED BY <1>4, <2>2, <3>1
  <2> QED BY <1>2, <2>1, <2>2
<1>9. ASSUME NEW i \in 1..n + 2 PROVE Begins(z[i].lines, u.lines)
  <2>1. r.lines \in Seq(Seq(Byte)) /\ u.lines \in Seq(Seq(Byte))
    BY <1>3 DEF Heard
  <2>2. CASE i = n + 2
    BY <1>5, <2>1, <2>2, BeginsSelf
  <2>3. CASE i \in 1..n + 1
    <3>1. z[i] \in Heard /\ Begins(z[i].lines, r.lines)
      BY <1>4, <1>5, <2>3
    <3>2. z[i].lines \in Seq(Seq(Byte))
      BY <3>1 DEF Heard
    <3> QED BY <1>3, <2>1, <3>1, <3>2, BeginsBegins
  <2> QED BY <1>2, <2>2, <2>3
<1>10. Len(t) + 1 = n + 2 /\ Len(t) = n + 1
  BY <1>2
<1>11. Way(t, z, q, u)
  BY <1>5, <1>6, <1>7, <1>8, <1>9, <1>10 DEF Way
<1> QED BY <1>11 DEF Leads, t, u

(* A byte less at its beginning.                                           *)
LEMMA LeadsFrom ==
  ASSUME NEW s \in Seq(Byte), s # <<>>, NEW q, NEW r, Leads(s, q, r)
  PROVE  Leads(Tail(s), ByteOf(q, Head(s)), r)
<1> DEFINE t == Tail(s)
           u == ByteOf(q, Head(s))
           n == Len(t)
<1>1. PICK p : Way(s, p, q, r)
  BY DEF Leads
<1>2. n \in Nat /\ Len(s) = n + 1 /\ (\A i \in 1..n : t[i] = s[i + 1]) /\ Head(s) = s[1]
  BY HeadTailProperties, LenProperties
<1> HIDE DEF n, t
<1>3. /\ p \in [1..n + 2 -> Heard] /\ p[1] = q /\ p[n + 2] = r
      /\ \A i \in 1..n + 1 : p[i + 1] = ByteOf(p[i], s[i])
      /\ \A i \in 1..n + 2 : Begins(p[i].lines, r.lines)
  <2>1. Len(s) = n + 1 /\ Len(s) + 1 = n + 2
    BY <1>2
  <2> QED BY <1>1, <2>1 DEF Way
<1> DEFINE z == [i \in 1..n + 1 |-> p[i + 1]]
<1>4. \A i \in 1..n + 1 : z[i] = p[i + 1] /\ i + 1 \in 1..n + 2
  BY <1>2
<1>5. z \in [1..n + 1 -> Heard]
  BY <1>2, <1>3
<1> HIDE DEF z
<1>6. z[1] = u
  <2>1. p[2] = ByteOf(p[1], s[1])
    BY <1>2, <1>3
  <2> QED BY <1>2, <1>3, <1>4, <2>1
<1>7. z[n + 1] = r
  BY <1>2, <1>3, <1>4
<1>8. ASSUME NEW i \in 1..n PROVE z[i + 1] = ByteOf(z[i], t[i])
  <2>1. p[(i + 1) + 1] = ByteOf(p[i + 1], s[i + 1])
    BY <1>2, <1>3
  <2> QED BY <1>2, <1>4, <2>1
<1>9. \A i \in 1..n + 1 : Begins(z[i].lines, r.lines)
  BY <1>3, <1>4
<1>10. Way(t, z, u, r)
  BY <1>2, <1>5, <1>6, <1>7, <1>8, <1>9 DEF Way, n
<1> QED BY <1>10 DEF Leads, t

(* In a subnegotiation every IAC is the first of two, and the way through  *)
(* it ends in the subnegotiation.                                          *)
LEMMA LeadsThrough ==
  ASSUME NEW s \in Seq(Byte), NEW q, NEW r, Leads(s, q, r), r.mode = "Subnegotiation",
         NEW y \in Seq(Byte), Doubled(y)
  PROVE  Leads(s \o y, q, r)
<1> DEFINE n == Len(s)
           k == Len(y)
           t == s \o y
<1>1. PICK p : Way(s, p, q, r)
  BY DEF Leads
<1>2. PICK first \in SUBSET (1..k - 1) :
        \A i \in 1..k : /\ y[i] = IAC <=> (i \in first \/ i - 1 \in first)
                        /\ i \in first => i - 1 \notin first
  BY DEF Doubled
<1>3. /\ n \in Nat /\ k \in Nat /\ Len(t) = n + k
      /\ (\A i \in 1..n : t[i] = s[i]) /\ (\A i \in 1..k : t[n + i] = y[i])
  <2>1. n \in Nat /\ k \in Nat
    BY LenProperties
  <2>2. Len(t) = n + k /\ \A i \in 1..n + k : t[i] = IF i <= n THEN s[i] ELSE y[i - n]
    BY ConcatProperties
  <2> HIDE DEF n, k, t
  <2>3. ASSUME NEW i \in 1..k PROVE t[n + i] = y[i]
    <3>1. n + i \in 1..n + k /\ ~(n + i <= n) /\ (n + i) - n = i
      BY <2>1
    <3> QED BY <2>2, <3>1
  <2>4. \A i \in 1..n : t[i] = s[i]
    BY <2>1, <2>2
  <2> QED BY <2>1, <2>2, <2>3, <2>4
<1>4. \A i \in 0..k : i \in first => i \in 1..k - 1
  OBVIOUS
<1>5. r \in Heard /\ r = Hears("Subnegotiation", r.buffer, r.lines)
  <2>1. r \in Heard
    BY LeadsEnds
  <2> QED BY <2>1 DEF Heard, Hears
<1> HIDE DEF t
<1>6. /\ p \in [1..n + 1 -> Heard] /\ p[1] = q /\ p[n + 1] = r
      /\ \A i \in 1..n : p[i + 1] = ByteOf(p[i], s[i])
      /\ \A i \in 1..n + 1 : Begins(p[i].lines, r.lines)
  BY <1>1 DEF Way
<1> DEFINE m(i) == IF i \in first THEN "SubnegotiationCommand" ELSE "Subnegotiation"
           v(i) == Hears(m(i), r.buffer, r.lines)
           z == [i \in 1..n + k + 1 |-> IF i <= n THEN p[i] ELSE v(i - n - 1)]
<1> HIDE DEF n, k
<1>7. 0 \notin first /\ k \notin first
  BY <1>3, <1>4
<1>8. v(0) = r /\ v(k) = r
  BY <1>5, <1>7
<1>9. \A i : v(i) \in Heard /\ v(i).lines = r.lines
  BY <1>5 DEF Heard, Hears, Mode
<1>10. ASSUME NEW i \in 1..k PROVE v(i) = ByteOf(v(i - 1), y[i])
  <2>1. y[i] = IAC <=> (i \in first \/ i - 1 \in first)
    BY <1>2
  <2>2. i \in first => i - 1 \notin first
    BY <1>2
  <2>3. ByteOf(v(i - 1), y[i]) = Hears(ModeOf(m(i - 1), y[i]), r.buffer, r.lines)
    <3>1. m(i - 1) # "Text"
      OBVIOUS
    <3>2. v(i - 1).mode = m(i - 1) /\ v(i - 1).buffer = r.buffer /\ v(i - 1).lines = r.lines
      BY DEF Hears
    <3> HIDE DEF m, v
    <3> QED BY <3>1, <3>2 DEF ByteOf, BufferOf, LinesOf, Ignored
  <2>4. ModeOf(m(i - 1), y[i]) = m(i)
    <3>1. CASE i - 1 \in first
      <4>1. y[i] = IAC /\ i \notin first
        BY <2>1, <2>2, <3>1
      <4> QED BY <3>1, <4>1 DEF ModeOf, IAC, SE
    <3>2. CASE i - 1 \notin first
      <4>1. y[i] = IAC <=> i \in first
        BY <2>1, <3>2
      <4> QED BY <3>2, <4>1 DEF ModeOf
    <3> QED BY <3>1, <3>2
  <2> QED BY <2>3, <2>4
<1> HIDE DEF v, m
<1>11. /\ \A i \in 1..n + 1 : z[i] = p[i]
       /\ \A i \in 0..k : z[n + 1 + i] = v(i)
  <2>1. ASSUME NEW i \in 0..k PROVE z[n + 1 + i] = v(i)
    <3>1. n + 1 + i \in 1..n + k + 1 /\ ~(n + 1 + i <= n) /\ (n + 1 + i) - n - 1 = i
      BY <1>3
    <3> QED BY <3>1
  <2>2. ASSUME NEW i \in 1..n PROVE z[i] = p[i]
    <3>1. i \in 1..n + k + 1 /\ i <= n
      BY <1>3
    <3> QED BY <3>1
  <2>3. z[n + 1] = p[n + 1]
    <3>1. n + 1 = n + 1 + 0 /\ 0 \in 0..k
      BY <1>3
    <3> QED BY <1>6, <1>8, <2>1, <3>1
  <2>4. \A i \in 1..n + 1 : i \in 1..n \/ i = n + 1
    BY <1>3
  <2> HIDE DEF z
  <2> QED BY <2>1, <2>2, <2>3, <2>4
<1>12. z \in [1..n + k + 1 -> Heard]
  <2>1. ASSUME NEW i \in 1..n + k + 1
        PROVE  (IF i <= n THEN p[i] ELSE v(i - n - 1)) \in Heard
    <3>1. i <= n => p[i] \in Heard
      BY <1>3, <1>6
    <3>2. v(i - n - 1) \in Heard
      BY <1>9
    <3> QED BY <3>1, <3>2
  <2> QED BY <2>1
<1> HIDE DEF z
<1>13. \A i \in 1..n + k + 1 : i \in 1..n + 1 \/ \E j \in 1..k : i = n + 1 + j
  <2>1. ASSUME NEW i \in 1..n + k + 1, i \notin 1..n + 1 PROVE \E j \in 1..k : i = n + 1 + j
    <3>1. i - (n + 1) \in 1..k /\ i = n + 1 + (i - (n + 1))
      BY <1>3, <2>1
    <3> QED BY <3>1
  <2> QED BY <2>1
<1>14. ASSUME NEW i \in 1..n + k PROVE z[i + 1] = ByteOf(z[i], t[i])
  <2>1. CASE i \in 1..n
    <3>1. i \in 1..n + 1 /\ i + 1 \in 1..n + 1
      BY <1>3, <2>1
    <3> QED BY <1>3, <1>6, <1>11, <2>1, <3>1
  <2>2. CASE i \notin 1..n
    <3> DEFINE j == i - n
    <3>1. j \in 1..k /\ j \in 0..k /\ j - 1 \in 0..k
          /\ i = n + j /\ i + 1 = n + 1 + j /\ i = n + 1 + (j - 1)
      BY <1>3, <2>2
    <3> HIDE DEF j
    <3>2. z[i + 1] = v(j) /\ z[i] = v(j - 1) /\ t[i] = y[j]
      BY <1>3, <1>11, <3>1
    <3> QED BY <1>10, <3>1, <3>2
  <2> QED BY <2>1, <2>2
<1>15. ASSUME NEW i \in 1..n + k + 1 PROVE Begins(z[i].lines, r.lines)
  <2>1. CASE i \in 1..n + 1
    BY <1>6, <1>11, <2>1
  <2>2. CASE \E j \in 1..k : i = n + 1 + j
    <3>1. PICK j \in 1..k : i = n + 1 + j
      BY <2>2
    <3>2. z[i] = v(j)
      BY <1>3, <1>11, <3>1
    <3>3. r.lines \in Seq(Seq(Byte))
      BY <1>5 DEF Heard
    <3> QED BY <1>9, <3>2, <3>3, BeginsSelf
  <2> QED BY <1>13, <2>1, <2>2
<1>16. z[1] = q /\ z[n + k + 1] = r
  <2>1. n + k + 1 = n + 1 + k /\ k \in 0..k /\ 1 \in 1..n + 1
    BY <1>3
  <2> QED BY <1>6, <1>8, <1>11, <2>1
<1>17. Way(t, z, q, r)
  BY <1>3, <1>12, <1>14, <1>15, <1>16 DEF Way
<1> QED BY <1>17 DEF Leads, t

LEMMA TwoMore ==
  ASSUME NEW S, NEW s \in Seq(S), NEW a \in S, NEW b \in S
  PROVE  s \o <<a, b>> = Append(Append(s, a), b)
<1> DEFINE x == <<a>>
           y == <<b>>
           z == <<a, b>>
<1>1. x \in Seq(S) /\ y \in Seq(S)
  OBVIOUS
<1>2. z = x \o y
  <2>1. z = Append(x, b)
    OBVIOUS
  <2> HIDE DEF x, z
  <2>2. Append(x, b) = x \o y
    BY <1>1, AppendIsConcat
  <2> QED BY <2>1, <2>2
<1>3. s \o x = Append(s, a)
  BY AppendIsConcat
<1>4. Append(s, a) \in Seq(S)
  BY AppendProperties
<1>5. Append(s, a) \o y = Append(Append(s, a), b)
  BY <1>4, AppendIsConcat
<1> HIDE DEF x, y, z
<1>6. s \o (x \o y) = (s \o x) \o y
  BY <1>1, ConcatAssociative
<1> QED BY <1>2, <1>3, <1>5, <1>6 DEF z

LEMMA LeadsOnce ==
  ASSUME NEW s \in Seq(Byte), NEW q, NEW r, Leads(s, q, r), NEW a \in Byte
  PROVE  Leads(s \o <<a>>, q, ByteOf(r, a)) /\ s \o <<a>> \in Seq(Byte)
<1>1. Append(s, a) = s \o <<a>> /\ Append(s, a) \in Seq(Byte)
  BY AppendIsConcat, AppendProperties
<1>2. Leads(Append(s, a), q, ByteOf(r, a))
  BY LeadsOn
<1> QED BY <1>1, <1>2

LEMMA LeadsTwice ==
  ASSUME NEW s \in Seq(Byte), NEW q, NEW r, Leads(s, q, r), NEW a \in Byte, NEW b \in Byte
  PROVE  Leads(s \o <<a, b>>, q, ByteOf(ByteOf(r, a), b)) /\ s \o <<a, b>> \in Seq(Byte)
<1> DEFINE t == Append(s, a)
           u == ByteOf(r, a)
<1>1. t \in Seq(Byte) /\ Leads(t, q, u)
  BY LeadsOn, AppendProperties
<1>2. s \o <<a, b>> = Append(t, b)
  BY TwoMore
<1> HIDE DEF t, u
<1>3. Leads(Append(t, b), q, ByteOf(u, b)) /\ Append(t, b) \in Seq(Byte)
  BY <1>1, LeadsOn, AppendProperties
<1> QED BY <1>2, <1>3 DEF u

LEMMA ThreeMore ==
  ASSUME NEW S, NEW s \in Seq(S), NEW a \in S, NEW b \in S, NEW c \in S
  PROVE  s \o <<a, b, c>> = (s \o <<a, b>>) \o <<c>>
<1> DEFINE x == <<a, b>>
           y == <<c>>
           z == <<a, b, c>>
<1>1. x \in Seq(S) /\ y \in Seq(S)
  OBVIOUS
<1>2. z = x \o y
  <2>1. z = Append(x, c)
    OBVIOUS
  <2> HIDE DEF x, z
  <2>2. Append(x, c) = x \o y
    BY <1>1, AppendIsConcat
  <2> QED BY <2>1, <2>2
<1> HIDE DEF x, y, z
<1>3. s \o (x \o y) = (s \o x) \o y
  BY <1>1, ConcatAssociative
<1> QED BY <1>2, <1>3 DEF x, y, z

Associative(T) == \A x, y, z \in T : (x \o y) \o z = x \o (y \o z)

LEMMA SeqAssociative == ASSUME NEW S PROVE Associative(Seq(S))
BY ConcatAssociative DEF Associative

LEMMA FourMore ==
  ASSUME NEW S, NEW s \in Seq(S), NEW a \in Seq(S), NEW p \in Seq(S), NEW b \in Seq(S),
         NEW x \in Seq(S), x = a \o p
  PROVE  s \o (x \o b) = ((s \o a) \o p) \o b
<1> DEFINE T == Seq(S)
<1>1. Associative(T)
  BY SeqAssociative
<1>2. s \in T /\ a \in T /\ p \in T /\ b \in T /\ x \in T
  OBVIOUS
<1> HIDE DEF T
<1>3. (s \o a) \o p = s \o (a \o p)
  BY ONLY Zenon, <1>1, <1>2 DEF Associative
<1>4. (s \o x) \o b = s \o (x \o b)
  BY ONLY Zenon, <1>1, <1>2 DEF Associative
<1> QED BY ONLY Zenon, x = a \o p, <1>3, <1>4

(* What a byte does, in the modes the client may find or bring about.      *)
LEMMA BytesHeard ==
  ASSUME LineReadersAssumption, NEW u, NEW l
  PROVE  /\ \A m \in {"Text", "Command"} : ByteOf(Hears(m, u, l), IAC) = Hears("Command", u, l)
         /\ ByteOf(Hears("Command", u, l), NOP) = Hears("Text", u, l)
         /\ \A c \in {WILL, DONT} : ByteOf(Hears("Command", u, l), c) = Hears("Option", u, l)
         /\ \A o : ByteOf(Hears("Option", u, l), o) = Hears("Text", u, l)
         /\ ByteOf(Hears("Command", u, l), SB) = Hears("Subnegotiation", u, l)
         /\ ByteOf(Hears("Subnegotiation", u, l), IAC) = Hears("SubnegotiationCommand", u, l)
         /\ ByteOf(Hears("SubnegotiationCommand", u, l), SE) = Hears("Text", u, l)
         /\ \A b \in Text : ByteOf(Hears("Text", u, l), b) = Hears("Text", Append(u, b), l)
         /\ \A b \in (Text \ (SB..DONT)) \cup Newline :
              ByteOf(Hears("Command", u, l), b) = Hears("Text", u, l)
         /\ \A b \in Newline :
              ByteOf(Hears("Text", u, l), b)
                = IF u = <<>> THEN Hears("Text", u, l) ELSE Hears("Text", <<>>, Append(l, u))
<1>1. ASSUME NEW m, NEW b
      PROVE  ByteOf(Hears(m, u, l), b) = Hears(ModeOf(m, b), BufferOf(m, u, b), LinesOf(m, u, l, b))
  <2>1. /\ Hears(m, u, l).mode = m /\ Hears(m, u, l).buffer = u /\ Hears(m, u, l).lines = l
    BY DEF Hears
  <2> QED BY <2>1 DEF ByteOf
<1>2. ASSUME NEW m, NEW b, Ignored(m, u, b)
      PROVE  ByteOf(Hears(m, u, l), b) = Hears(ModeOf(m, b), u, l)
  BY <1>1, <1>2 DEF BufferOf, LinesOf
<1>3. \A m, b : m # "Text" \/ b = IAC => Ignored(m, u, b)
  BY DEF Ignored
<1>4. \A b \in Text : b \in 1..254 /\ b \notin Newline /\ b # IAC
  BY DEF LineReadersAssumption, Newline, LF, CR, NUL, IAC
<1>5. \A b \in Newline : b \notin WILL..DONT /\ b # IAC /\ b # SB
  BY DEF Newline, LF, CR, NUL, IAC, WILL, DONT, SB
<1>6. \A m \in {"Text", "Command"} : ByteOf(Hears(m, u, l), IAC) = Hears("Command", u, l)
  <2>1. \A m \in {"Text", "Command"} : ModeOf(m, IAC) = "Command"
    BY DEF ModeOf, IAC, WILL, DONT
  <2> QED BY <1>2, <1>3, <2>1
<1>7. ByteOf(Hears("Command", u, l), NOP) = Hears("Text", u, l)
  <2>1. ModeOf("Command", NOP) = "Text"
    BY DEF ModeOf, IAC, WILL, DONT, NOP, SB
  <2> QED BY <1>2, <1>3, <2>1
<1>8. \A c \in {WILL, DONT} : ByteOf(Hears("Command", u, l), c) = Hears("Option", u, l)
  <2>1. \A c \in {WILL, DONT} : ModeOf("Command", c) = "Option"
    BY DEF ModeOf, WILL, DONT
  <2> QED BY <1>2, <1>3, <2>1
<1>9. \A o : ByteOf(Hears("Option", u, l), o) = Hears("Text", u, l)
  <2>1. \A o : ModeOf("Option", o) = "Text"
    BY DEF ModeOf
  <2> QED BY <1>2, <1>3, <2>1
<1>10. ByteOf(Hears("Command", u, l), SB) = Hears("Subnegotiation", u, l)
  <2>1. ModeOf("Command", SB) = "Subnegotiation"
    BY DEF ModeOf, IAC, WILL, DONT, SB
  <2> QED BY <1>2, <1>3, <2>1
<1>11. ByteOf(Hears("Subnegotiation", u, l), IAC) = Hears("SubnegotiationCommand", u, l)
  <2>1. ModeOf("Subnegotiation", IAC) = "SubnegotiationCommand"
    BY DEF ModeOf
  <2> QED BY <1>2, <1>3, <2>1
<1>12. ByteOf(Hears("SubnegotiationCommand", u, l), SE) = Hears("Text", u, l)
  <2>1. ModeOf("SubnegotiationCommand", SE) = "Text"
    BY DEF ModeOf
  <2> QED BY <1>2, <1>3, <2>1
<1>13. \A b \in Text : ByteOf(Hears("Text", u, l), b) = Hears("Text", Append(u, b), l)
  <2>1. \A b \in Text : ModeOf("Text", b) = "Text" /\ ~Ignored("Text", u, b)
    BY <1>4 DEF ModeOf, Ignored
  <2>2. \A b \in Text : BufferOf("Text", u, b) = Append(u, b) /\ LinesOf("Text", u, l, b) = l
    BY <1>4, <2>1 DEF BufferOf, LinesOf
  <2> QED BY <1>1, <2>1, <2>2
<1>14. \A b \in (Text \ (SB..DONT)) \cup Newline :
         ByteOf(Hears("Command", u, l), b) = Hears("Text", u, l)
  <2>1. \A b \in Text \ (SB..DONT) : b \notin WILL..DONT /\ b # IAC /\ b # SB
    BY <1>4 DEF WILL, DONT, SB
  <2>2. \A b \in (Text \ (SB..DONT)) \cup Newline : ModeOf("Command", b) = "Text"
    BY <1>5, <2>1 DEF ModeOf
  <2> QED BY <1>2, <1>3, <2>2
<1>15. \A b \in Newline :
         ByteOf(Hears("Text", u, l), b)
           = IF u = <<>> THEN Hears("Text", u, l) ELSE Hears("Text", <<>>, Append(l, u))
  <2>1. ASSUME NEW b \in Newline
        PROVE  ModeOf("Text", b) = "Text" /\ (Ignored("Text", u, b) <=> u = <<>>)
    BY <1>5 DEF ModeOf, Ignored
  <2>2. ASSUME NEW b \in Newline, u # <<>>
        PROVE  BufferOf("Text", u, b) = <<>> /\ LinesOf("Text", u, l, b) = Append(l, u)
    BY <2>1, <2>2 DEF BufferOf, LinesOf
  <2>3. ASSUME NEW b \in Newline
        PROVE ByteOf(Hears("Text", u, l), b)
           = IF u = <<>> THEN Hears("Text", u, l) ELSE Hears("Text", <<>>, Append(l, u))
    <3>1. CASE u = <<>>
      BY <1>2, <2>1, <3>1
    <3>2. CASE u # <<>>
      BY <1>1, <2>1, <2>2, <3>2
    <3> QED BY <3>1, <3>2
  <2> QED BY <2>3
<1> QED BY <1>6, <1>7, <1>8, <1>9, <1>10, <1>11, <1>12, <1>13, <1>14, <1>15

(* The pieces: what was said before is kept, a sequence is no text.        *)
LEMMA LeadsSequence ==
  ASSUME LineReadersAssumption, NEW s \in Seq(Byte), NEW q, NEW m \in {"Text", "Command"},
         NEW u, NEW l, Leads(s, q, Hears(m, u, l)), NEW piece \in Sequence
  PROVE  Leads(s \o piece, q, Hears("Text", u, l))
<1>1. /\ IAC \in Byte /\ NOP \in Byte /\ SB \in Byte /\ SE \in Byte
      /\ WILL \in Byte /\ DONT \in Byte /\ \A o \in Argument : o \in Byte
  BY DEF LineReadersAssumption, Byte, IAC, NOP, SB, SE, WILL, DONT
<1>2. ByteOf(Hears(m, u, l), IAC) = Hears("Command", u, l)
  BY BytesHeard
<1>3. CASE piece = <<IAC, NOP>>
  <2>1. ByteOf(Hears("Command", u, l), NOP) = Hears("Text", u, l)
    BY BytesHeard
  <2>2. Leads(s \o <<IAC, NOP>>, q, ByteOf(ByteOf(Hears(m, u, l), IAC), NOP))
    BY <1>1, LeadsTwice
  <2> QED BY <1>2, <1>3, <2>1, <2>2
<1>4. ASSUME NEW c \in {WILL, DONT}, NEW o \in Argument, piece = <<IAC, c, o>>
      PROVE  Leads(s \o piece, q, Hears("Text", u, l))
  <2>1. ByteOf(Hears("Command", u, l), c) = Hears("Option", u, l)
    BY BytesHeard
  <2>2. ByteOf(Hears("Option", u, l), o) = Hears("Text", u, l)
    BY BytesHeard
  <2>3. c \in Byte /\ o \in Byte
    BY <1>1
  <2> DEFINE t == s \o <<IAC, c>>
  <2>4. Leads(t, q, ByteOf(ByteOf(Hears(m, u, l), IAC), c)) /\ t \in Seq(Byte)
    BY <1>1, <2>3, LeadsTwice
  <2>5. Leads(t, q, Hears("Option", u, l)) /\ t \in Seq(Byte)
    BY <1>2, <2>1, <2>4
  <2>6. s \o <<IAC, c, o>> = t \o <<o>>
    BY <1>1, <2>3, ThreeMore
  <2> HIDE DEF t
  <2>7. Leads(t \o <<o>>, q, ByteOf(Hears("Option", u, l), o))
    BY <2>3, <2>5, LeadsOnce
  <2> QED BY <1>4, <2>2, <2>6, <2>7
<1>5. ASSUME NEW p \in Payload, piece = <<IAC, SB>> \o p \o <<IAC, SE>>
      PROVE  Leads(s \o piece, q, Hears("Text", u, l))
  <2>1. /\ ByteOf(Hears("Command", u, l), SB) = Hears("Subnegotiation", u, l)
        /\ ByteOf(Hears("Subnegotiation", u, l), IAC) = Hears("SubnegotiationCommand", u, l)
        /\ ByteOf(Hears("SubnegotiationCommand", u, l), SE) = Hears("Text", u, l)
    <3>1. ByteOf(Hears("Command", u, l), SB) = Hears("Subnegotiation", u, l)
      BY BytesHeard
    <3>2. ByteOf(Hears("Subnegotiation", u, l), IAC) = Hears("SubnegotiationCommand", u, l)
      BY BytesHeard
    <3>3. ByteOf(Hears("SubnegotiationCommand", u, l), SE) = Hears("Text", u, l)
      BY BytesHeard
    <3> QED BY ONLY <3>1, <3>2, <3>3
  <2>2. p \in Seq(Byte) /\ Doubled(p)
    BY DEF LineReadersAssumption, Byte
  <2> DEFINE a == <<IAC, SB>>
             b == <<IAC, SE>>
             t == s \o a
             v == t \o p
             r == Hears("Subnegotiation", u, l)
  <2>3. a \in Seq(Byte) /\ b \in Seq(Byte)
    BY <1>1
  <2>4. Leads(t, q, ByteOf(ByteOf(Hears(m, u, l), IAC), SB)) /\ t \in Seq(Byte)
    BY <1>1, LeadsTwice
  <2>5. Leads(t, q, r) /\ t \in Seq(Byte) /\ r.mode = "Subnegotiation"
    BY <1>2, <2>1, <2>4 DEF Hears
  <2> HIDE DEF t, r
  <2>6. Leads(v, q, r) /\ v \in Seq(Byte)
    BY <2>2, <2>5, LeadsThrough, ConcatProperties
  <2> HIDE DEF v
  <2>7. Leads(v \o b, q, ByteOf(ByteOf(r, IAC), SE))
    BY <1>1, <2>6, LeadsTwice
  <2>8. s \o piece = v \o b
    <3> DEFINE x == a \o p
    <3>1. piece = x \o b
      BY <1>5
    <3> HIDE DEF a, b
    <3>2. a \in Seq(Byte) /\ b \in Seq(Byte) /\ p \in Seq(Byte)
      BY <2>2, <2>3
    <3>3. x = a \o p /\ x \in Seq(Byte)
      BY <3>2, ConcatProperties
    <3> HIDE DEF x
    <3>4. s \o (x \o b) = ((s \o a) \o p) \o b
      BY ONLY s \in Seq(Byte), <3>2, <3>3, FourMore
    <3> QED BY Zenon, <3>1, <3>4 DEF v, t
  <2> QED BY <2>1, <2>7, <2>8 DEF r
<1>6. \/ piece = <<IAC, NOP>>
      \/ \E c \in {WILL, DONT}, o \in Argument : piece = <<IAC, c, o>>
      \/ \E p \in Payload : piece = <<IAC, SB>> \o p \o <<IAC, SE>>
  BY DEF Sequence
<1> QED BY <1>3, <1>4, <1>5, <1>6
-----------------------------------------------------------------------------
(* ReadTelnetLine, what the client has said, and the way between them.     *)
Hearing == Hears(mode, buffer, lines)
Meaning == Hears(IF escaped THEN "Command" ELSE "Text", partial, meant)

LinesInv ==
  /\ stream \in Seq(Byte)
  /\ escaped \in BOOLEAN /\ lost \in BOOLEAN
  /\ Hearing \in Heard
  /\ ~lost => Leads(stream, Hearing, Meaning)

(* ReadTelnetLine::on_byte_received()                                      *)
LEMMA TelnetByteHeard ==
  ASSUME NEW b, Hearing \in Heard, TelnetByte(b)
  PROVE  Hearing' = ByteOf(Hearing, b)
<1>1. Hearing.mode = mode /\ Hearing.buffer = buffer /\ Hearing.lines = lines /\ mode \in Mode
  BY DEF Hearing, Hears, Heard
<1>2. mode' = ModeOf(mode, b)
  <2>1. mode' = ModeAfter(b)
    BY DEF TelnetByte
  <2>2. CASE mode = "Text"
    BY <2>1, <2>2 DEF ModeAfter, ModeOf
  <2>3. CASE mode = "Command"
    BY <2>1, <2>3 DEF ModeAfter, ModeOf
  <2>4. CASE mode = "Option"
    BY <2>1, <2>4 DEF ModeAfter, ModeOf
  <2>5. CASE mode = "Subnegotiation"
    BY <2>1, <2>5 DEF ModeAfter, ModeOf
  <2>6. CASE mode = "SubnegotiationCommand"
    BY <2>1, <2>6 DEF ModeAfter, ModeOf
  <2> QED BY <1>1, <2>2, <2>3, <2>4, <2>5, <2>6 DEF Mode
<1>3. buffer' = BufferOf(mode, buffer, b) /\ lines' = LinesOf(mode, buffer, lines, b)
  <2>1. CASE Ignored(mode, buffer, b)
    BY <2>1 DEF TelnetByte, Ignored, BufferOf, LinesOf
  <2>2. CASE ~Ignored(mode, buffer, b) /\ b \in Newline
    BY <2>2 DEF TelnetByte, Ignored, BufferOf, LinesOf
  <2>3. CASE ~Ignored(mode, buffer, b) /\ b \notin Newline
    BY <2>3 DEF TelnetByte, Ignored, BufferOf, LinesOf
  <2> QED BY <2>1, <2>2, <2>3
<1> QED BY <1>1, <1>2, <1>3 DEF Hearing, ByteOf

LEMMA SequenceLeads ==
  ASSUME LineReadersAssumption, LinesInv, ~lost', SendSequence
  PROVE  Leads(stream', Hearing', Meaning')
<1>1. PICK piece \in Sequence : stream' = stream \o piece /\ UNCHANGED telnet
  BY DEF SendSequence, Put
<1>2. ~lost /\ escaped' = FALSE /\ partial' = partial /\ meant' = meant
  BY DEF SendSequence
<1> DEFINE m == IF escaped THEN "Command" ELSE "Text"
<1>3. m \in {"Text", "Command"} /\ Leads(stream, Hearing, Hears(m, partial, meant))
  BY <1>2 DEF LinesInv, Meaning
<1> HIDE DEF m
<1>4. Leads(stream \o piece, Hearing, Hears("Text", partial, meant))
  BY <1>3, LeadsSequence DEF LinesInv
<1>5. Hearing' = Hearing /\ Meaning' = Hears("Text", partial, meant)
  BY <1>1, <1>2 DEF Hearing, Meaning, telnet
<1> QED BY <1>1, <1>4, <1>5

LEMMA IACLeads ==
  ASSUME LineReadersAssumption, LinesInv, ~lost', SendIAC
  PROVE  Leads(stream', Hearing', Meaning')
<1>1. stream' = stream \o <<IAC, IAC>> /\ UNCHANGED telnet
  BY DEF SendIAC, Put
<1>2. ~lost /\ escaped' = TRUE /\ partial' = partial /\ meant' = meant
  BY DEF SendIAC
<1> DEFINE m == IF escaped THEN "Command" ELSE "Text"
<1>3. m \in {"Text", "Command"} /\ Leads(stream, Hearing, Hears(m, partial, meant))
  BY <1>2 DEF LinesInv, Meaning
<1> HIDE DEF m
<1>4. /\ ByteOf(Hears(m, partial, meant), IAC) = Hears("Command", partial, meant)
      /\ ByteOf(Hears("Command", partial, meant), IAC) = Hears("Command", partial, meant)
  BY <1>3, BytesHeard
<1>5. IAC \in Byte
  BY DEF Byte, IAC
<1>6. Leads(stream \o <<IAC, IAC>>, Hearing, ByteOf(ByteOf(Hears(m, partial, meant), IAC), IAC))
  BY <1>3, <1>5, LeadsTwice DEF LinesInv
<1>7. Hearing' = Hearing /\ Meaning' = Hears("Command", partial, meant)
  BY <1>1, <1>2 DEF Hearing, Meaning, telnet
<1> QED BY <1>1, <1>4, <1>6, <1>7

LEMMA LetterLeads ==
  ASSUME LineReadersAssumption, LinesInv, ~lost', SendLetter
  PROVE  Leads(stream', Hearing', Meaning')
<1>1. PICK b \in Text :
        /\ stream' = stream \o <<b>> /\ UNCHANGED telnet
        /\ partial' = IF escaped THEN partial ELSE partial \o <<b>>
        /\ lost' = (lost \/ (escaped /\ b \in SB..DONT))
  <2>1. PICK bytes \in Letter :
          /\ stream' = stream \o bytes /\ UNCHANGED telnet
          /\ partial' = IF escaped THEN partial ELSE partial \o bytes
          /\ lost' = (lost \/ (escaped /\ bytes[1] \in SB..DONT))
    BY Zenon DEF SendLetter, Put
  <2>2. PICK b \in Text : bytes = <<b>>
    BY DEF Letter
  <2>3. bytes[1] = b
    BY <2>2
  <2> QED BY Zenon, <2>1, <2>2, <2>3
<1>2. ~lost /\ escaped' = FALSE /\ meant' = meant
  BY <1>1 DEF SendLetter
<1>3. Leads(stream, Hearing, Meaning) /\ stream \in Seq(Byte) /\ Meaning \in Heard
  <2>1. Leads(stream, Hearing, Meaning) /\ stream \in Seq(Byte)
    BY <1>2 DEF LinesInv
  <2> QED BY <2>1, LeadsEnds
<1>4. b \in Byte /\ partial \in Seq(Byte)
  BY <1>3 DEF LineReadersAssumption, Byte, Meaning, Heard, Hears
<1>5. Leads(stream', Hearing, ByteOf(Meaning, b))
  BY <1>1, <1>3, <1>4, LeadsOnce
<1>6. ByteOf(Meaning, b) = Meaning'
  <2>1. CASE escaped
    <3>1. b \notin SB..DONT
      BY <1>1, <2>1
    <3>2. ByteOf(Hears("Command", partial, meant), b) = Hears("Text", partial, meant)
      BY <3>1, BytesHeard
    <3> QED BY <1>1, <1>2, <2>1, <3>2 DEF Meaning
  <2>2. CASE ~escaped
    <3>1. ByteOf(Hears("Text", partial, meant), b) = Hears("Text", Append(partial, b), meant)
      BY BytesHeard
    <3>2. Append(partial, b) = partial \o <<b>>
      BY <1>4, AppendIsConcat
    <3> QED BY <1>1, <1>2, <2>2, <3>1, <3>2 DEF Meaning
  <2> QED BY <2>1, <2>2
<1>7. Hearing' = Hearing
  BY <1>1 DEF Hearing, telnet
<1> QED BY <1>5, <1>6, <1>7

LEMMA EndLeads ==
  ASSUME LineReadersAssumption, LinesInv, ~lost', SendEnd
  PROVE  Leads(stream', Hearing', Meaning')
<1>1. PICK bytes \in EndOfLine :
        /\ stream' = stream \o bytes /\ UNCHANGED telnet
        /\ IF partial = <<>> \/ (escaped /\ Len(bytes) = 1)
             THEN UNCHANGED <<meant, partial>>
             ELSE meant' = Append(meant, partial) /\ partial' = <<>>
  BY DEF SendEnd, Put
<1>2. ~lost /\ escaped' = FALSE
  BY DEF SendEnd
<1>3. Leads(stream, Hearing, Meaning) /\ stream \in Seq(Byte)
  BY <1>2 DEF LinesInv
<1>4. LF \in Newline /\ CR \in Newline /\ NUL \in Newline
  BY DEF Newline
<1>5. \A b \in Newline : b \in Byte
  BY DEF Newline, Byte, LF, CR, NUL
<1>6. Hearing' = Hearing
  BY <1>1 DEF Hearing, telnet
<1>7. \A b \in Newline :
        /\ ByteOf(Hears("Command", partial, meant), b) = Hears("Text", partial, meant)
        /\ ByteOf(Hears("Text", partial, meant), b)
             = IF partial = <<>> THEN Hears("Text", partial, meant)
                                 ELSE Hears("Text", <<>>, Append(meant, partial))
  <2>1. \A b \in Newline :
          ByteOf(Hears("Command", partial, meant), b) = Hears("Text", partial, meant)
    <3>1. \A b \in (Text \ (SB..DONT)) \cup Newline :
            ByteOf(Hears("Command", partial, meant), b) = Hears("Text", partial, meant)
      BY BytesHeard
    <3> QED BY <3>1
  <2>2. \A b \in Newline :
          ByteOf(Hears("Text", partial, meant), b)
            = IF partial = <<>> THEN Hears("Text", partial, meant)
                                ELSE Hears("Text", <<>>, Append(meant, partial))
    BY BytesHeard
  <2> QED BY <2>1, <2>2
<1>8. \A b \in Newline :
        ByteOf(Hears("Text", <<>>, Append(meant, partial)), b)
          = Hears("Text", <<>>, Append(meant, partial))
  BY BytesHeard
<1>9. ASSUME NEW b \in Newline, bytes = <<b>> PROVE Leads(stream', Hearing', Meaning')
  <2>1. Leads(stream \o <<b>>, Hearing, ByteOf(Meaning, b))
    BY <1>3, <1>5, LeadsOnce
  <2>2. Len(bytes) = 1
    BY <1>9
  <2>3. ByteOf(Meaning, b) = Meaning'
    <3>1. CASE escaped
      BY <1>1, <1>2, <1>7, <2>2, <3>1 DEF Meaning
    <3>2. CASE ~escaped /\ partial = <<>>
      BY <1>1, <1>2, <1>7, <3>2 DEF Meaning
    <3>3. CASE ~escaped /\ partial # <<>>
      BY <1>1, <1>2, <1>7, <3>3 DEF Meaning
    <3> QED BY <3>1, <3>2, <3>3
  <2> QED BY <1>1, <1>6, <1>9, <2>1, <2>3
<1>10. ASSUME NEW b \in Newline, NEW c \in Newline, bytes = <<b, c>>
       PROVE  Leads(stream', Hearing', Meaning')
  <2>1. Leads(stream \o <<b, c>>, Hearing, ByteOf(ByteOf(Meaning, b), c))
    BY <1>3, <1>5, LeadsTwice
  <2>2. Len(bytes) # 1
    BY <1>10
  <2>3. ByteOf(ByteOf(Meaning, b), c) = Meaning'
    <3>1. CASE partial = <<>>
      BY <1>1, <1>2, <1>7, <3>1 DEF Meaning
    <3>2. CASE partial # <<>>
      BY <1>1, <1>2, <1>7, <1>8, <2>2, <3>2 DEF Meaning
    <3> QED BY <3>1, <3>2
  <2> QED BY <1>1, <1>6, <1>10, <2>1, <2>3
<1>11. \/ \E b \in Newline : bytes = <<b>>
       \/ \E b, c \in Newline : bytes = <<b, c>>
  BY <1>4 DEF EndOfLine
<1> QED BY <1>9, <1>10, <1>11

LEMMA LinesInvHolds == ReadersSpec => []LinesInv
<1> USE LineReadersAssumption
<1>1. ReadersInit => LinesInv
  <2> SUFFICES ASSUME ReadersInit PROVE LinesInv
    OBVIOUS
  <2>1. /\ stream = <<>> /\ escaped = FALSE /\ lost = FALSE
        /\ Hearing = Hears("Text", <<>>, <<>>) /\ Meaning = Hears("Text", <<>>, <<>>)
    BY DEF ReadersInit, Hearing, Meaning
  <2>2. Hearing \in Heard
    <3>1. <<>> \in Seq(Byte) /\ <<>> \in Seq(Seq(Byte))
      BY EmptySeq
    <3> QED BY <2>1, <3>1 DEF Heard, Hears, Mode
  <2>3. Leads(stream, Hearing, Meaning)
    BY <2>1, <2>2, LeadsNowhere
  <2>4. stream \in Seq(Byte)
    BY <2>1, EmptySeq
  <2> QED BY <2>1, <2>2, <2>3, <2>4 DEF LinesInv
<1>2. LinesInv /\ [ReadersNext]_readersVars => LinesInv'
  <2> SUFFICES ASSUME LinesInv, [ReadersNext]_readersVars PROVE LinesInv'
    OBVIOUS
  <2>1. CASE SendSequence \/ SendIAC \/ SendLetter \/ SendEnd
    <3>1. PICK piece \in Piece : stream' = stream \o piece /\ UNCHANGED <<telnet, crlf, fed>>
      BY <2>1, ClientPuts
    <3>2. stream' \in Seq(Byte)
      BY <3>1, PiecesAreBytes, ConcatProperties DEF LinesInv
    <3>3. escaped' \in BOOLEAN /\ lost' \in BOOLEAN
      BY <2>1 DEF LinesInv, SendSequence, SendIAC, SendLetter, SendEnd
    <3>4. Hearing' = Hearing
      BY <3>1 DEF Hearing, telnet
    <3>5. ~lost' => Leads(stream', Hearing', Meaning')
      BY <2>1, SequenceLeads, IACLeads, LetterLeads, EndLeads
    <3> QED BY <3>2, <3>3, <3>4, <3>5 DEF LinesInv
  <2>2. CASE DataReceived
    <3> DEFINE b == Head(stream)
    <3>1. /\ stream # <<>> /\ TelnetByte(b) /\ stream' = Tail(stream)
          /\ UNCHANGED <<escaped, meant, partial, lost>>
      BY <2>2 DEF DataReceived, client
    <3>2. b \in Byte /\ stream' \in Seq(Byte)
      BY <3>1, HeadTailProperties DEF LinesInv
    <3>3. Hearing' = ByteOf(Hearing, b)
      BY <3>1, TelnetByteHeard DEF LinesInv
    <3>4. Hearing' \in Heard
      BY <3>2, <3>3, ByteHeard DEF LinesInv
    <3>5. Meaning' = Meaning
      BY <3>1 DEF Meaning
    <3>6. ~lost' => Leads(stream', Hearing', Meaning')
      BY <3>1, <3>3, <3>5, LeadsFrom DEF LinesInv
    <3> QED BY <3>1, <3>2, <3>4, <3>6 DEF LinesInv
  <2>3. CASE UNCHANGED readersVars
    BY <2>3 DEF LinesInv, Hearing, Meaning, readersVars, client, telnet
  <2> QED BY <2>1, <2>2, <2>3 DEF ReadersNext
<1> QED BY <1>1, <1>2, PTL DEF ReadersSpec

(* ReadTelnetLine hears the lines any client means, whatever it says of    *)
(* its options in between and however its bytes are cut into segments, as  *)
(* long as no byte after IAC IAC is taken for the code of a longer command. *)
THEOREM ReadersLinesAsMeant == ReadersSpec => []LinesAsMeant
<1>1. LinesInv => LinesAsMeant
  <2> SUFFICES ASSUME LinesInv, ~lost PROVE
               /\ IsPrefix(lines, meant)
               /\ stream = <<>> =>
                    /\ lines = meant /\ buffer = partial
                    /\ mode = IF escaped THEN "Command" ELSE "Text"
    BY DEF LinesAsMeant
  <2>1. Leads(stream, Hearing, Meaning) /\ stream \in Seq(Byte)
    BY DEF LinesInv
  <2>2. /\ Hearing \in Heard /\ Meaning \in Heard /\ Begins(Hearing.lines, Meaning.lines)
        /\ stream = <<>> => Hearing = Meaning
    BY <2>1, LeadsEnds
  <2>3. Hearing.mode = mode /\ Hearing.buffer = buffer /\ Hearing.lines = lines
    BY DEF Hearing, Hears
  <2>4. /\ Meaning.mode = IF escaped THEN "Command" ELSE "Text"
        /\ Meaning.buffer = partial /\ Meaning.lines = meant
    BY DEF Meaning, Hears
  <2>5. lines \in Seq(Seq(Byte)) /\ meant \in Seq(Seq(Byte)) /\ Begins(lines, meant)
    BY <2>2, <2>3, <2>4 DEF Heard
  <2>6. IsPrefix(lines, meant)
    <3> DEFINE T == Seq(Byte)
               n == Len(lines)
               a == SubSeq(lines, 1, n)
               b == SubSeq(meant, 1, n)
    <3>1. n \in Nat /\ n <= Len(meant) /\ \A i \in 1..n : lines[i] = meant[i]
      BY <2>5, LenProperties DEF Begins
    <3>2. lines \in Seq(T) /\ meant \in Seq(T)
      BY <2>5
    <3> HIDE DEF n, T
    <3>3. n <= Len(lines) /\ 1 <= n + 1 /\ n \in Int
      BY <3>1 DEF n
    <3>4. a \in Seq(T) /\ Len(a) = n - 1 + 1 /\ \A i \in 1..n - 1 + 1 : a[i] = lines[1 + i - 1]
      <4> HIDE DEF a
      <4>1. a = SubSeq(lines, 1, n)
        BY DEF a
      <4> QED BY <3>2, <3>3, <4>1, SubSeqIs
    <3>5. b \in Seq(T) /\ Len(b) = n - 1 + 1 /\ \A i \in 1..n - 1 + 1 : b[i] = meant[1 + i - 1]
      <4> HIDE DEF b
      <4>1. b = SubSeq(meant, 1, n)
        BY DEF b
      <4> QED BY <3>1, <3>2, <3>3, <4>1, SubSeqIs
    <3> HIDE DEF a, b
    <3>6. \A i \in 1..Len(a) : a[i] = b[i]
      BY <3>1, <3>4, <3>5
    <3>7. a = b
      BY <3>4, <3>5, <3>6, SeqEqual
    <3> QED BY <3>1, <3>7 DEF IsPrefix, a, b, n
  <2> QED BY <2>2, <2>3, <2>4, <2>6
<1> QED BY <1>1, LinesInvHolds, PTL
=============================================================================
