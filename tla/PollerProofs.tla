---------------------------- MODULE PollerProofs ----------------------------
(***************************************************************************)
(* Theorems about the poller and its sockets, for every set of clients and *)
(* sessions and every bound on descriptors, events and addresses.          *)
(***************************************************************************)
EXTENDS Poller, SequenceTheorems, WellFoundedInduction, TLAPS

-----------------------------------------------------------------------------
(* The ready list and what leaves it.                                      *)
Distinct(q) == \A i, j \in 1..Len(q) : i # j => q[i] # q[j]

LEMMA MinOf ==
  ASSUME NEW I \in SUBSET Nat, I # {}
  PROVE  Min(I) \in I /\ \A i \in I : Min(I) <= i
<1> DEFINE Below == {p \in Nat \X Nat : p[1] < p[2]}
<1>1. \E m \in I : \A i \in I : m <= i
  <2>1. IsWellFoundedOn(Below, Nat)
    BY NatLessThanWellFounded DEF OpToRel
  <2> HIDE DEF Below
  <2>2. PICK m \in I : \A i \in I : <<i, m>> \notin Below
    BY <2>1, WFMin
  <2>3. ASSUME NEW i \in I PROVE m <= i
    <3>1. i < m => <<i, m>> \in Below
      BY DEF Below
    <3> QED BY <2>2, <3>1
  <2> QED BY <2>3
<1> QED BY <1>1 DEF Min

(* RemoveFirst() of a list without repetitions leaves the other elements.  *)
LEMMA Removed ==
  ASSUME NEW S, NEW q \in Seq(S), Distinct(q), NEW e
  PROVE  LET r == RemoveFirst(q, e)
         IN  /\ r \in Seq(S) /\ Distinct(r)
             /\ \A i \in 1..Len(r) : r[i] # e /\ \E j \in 1..Len(q) : r[i] = q[j]
<1> DEFINE I == {i \in 1..Len(q) : q[i] = e}
<1>1. CASE I = {}
  BY <1>1 DEF RemoveFirst
<1>2. CASE I # {}
  <2> DEFINE k == Min(I)
             a == SubSeq(q, 1, k - 1)
             b == SubSeq(q, k + 1, Len(q))
  <2>1. k \in 1..Len(q) /\ q[k] = e
    <3>1. I \in SUBSET Nat
      OBVIOUS
    <3> QED BY <1>2, <3>1, MinOf
  <2>2. RemoveFirst(q, e) = a \o b
    BY <1>2 DEF RemoveFirst, RemoveAt, SelectInSeq
  <2> HIDE DEF k
  <2>3. a \in Seq(S) /\ Len(a) = k - 1 /\ \A i \in 1..k - 1 : a[i] = q[i]
    BY <2>1
  <2>4. b \in Seq(S) /\ Len(b) = Len(q) - k /\ \A i \in 1..Len(q) - k : b[i] = q[i + k]
    BY <2>1
  <2> HIDE DEF a, b
  <2> DEFINE r == a \o b
             At(i) == IF i < k THEN i ELSE i + 1
  <2>5. /\ r \in Seq(S) /\ Len(r) = Len(q) - 1
        /\ \A i \in 1..Len(r) : r[i] = IF i < k THEN a[i] ELSE b[i - (k - 1)]
    <3>1. r \in Seq(S) /\ Len(r) = Len(a) + Len(b)
      BY <2>3, <2>4, ConcatProperties
    <3>2. \A i \in 1..Len(a) + Len(b) : r[i] = IF i <= Len(a) THEN a[i] ELSE b[i - Len(a)]
      BY <2>3, <2>4, ConcatProperties
    <3> QED BY <2>1, <2>3, <2>4, <3>1, <3>2
  <2>6. ASSUME NEW i \in 1..Len(r)
        PROVE  r[i] = q[At(i)] /\ At(i) \in 1..Len(q) /\ At(i) # k
    <3> HIDE DEF r
    <3>1. CASE i < k
      BY <2>1, <2>3, <2>5, <3>1
    <3>2. CASE i >= k
      BY <2>1, <2>4, <2>5, <3>2
    <3> QED BY <2>1, <2>5, <3>1, <3>2
  <2>7. \A i \in 1..Len(r) : r[i] # e
    BY <2>1, <2>6 DEF Distinct
  <2>8. ASSUME NEW i \in 1..Len(r), NEW j \in 1..Len(r), i # j PROVE r[i] # r[j]
    <3>1. At(i) # At(j)
      BY <2>1, <2>8
    <3> QED BY <2>6, <3>1 DEF Distinct
  <2>9. Distinct(r)
    BY <2>8 DEF Distinct
  <2> QED BY <2>2, <2>5, <2>6, <2>7, <2>9
<1> QED BY <1>1, <1>2

(* A list of n elements that are reported moves to its end.                *)
LEMMA Rotated ==
  ASSUME NEW S, NEW q \in Seq(S), Distinct(q), NEW n \in 0..Len(q)
  PROVE  LET r == SubSeq(q, n + 1, Len(q)) \o SubSeq(q, 1, n)
         IN  /\ r \in Seq(S) /\ Distinct(r)
             /\ \A i \in 1..Len(r) : \E j \in 1..Len(q) : r[i] = q[j]
<1> DEFINE a == SubSeq(q, n + 1, Len(q))
           b == SubSeq(q, 1, n)
           r == a \o b
           At(i) == IF i <= Len(q) - n THEN i + n ELSE i - (Len(q) - n)
<1>1. a \in Seq(S) /\ Len(a) = Len(q) - n /\ \A i \in 1..Len(q) - n : a[i] = q[i + n]
  OBVIOUS
<1>2. b \in Seq(S) /\ Len(b) = n /\ \A i \in 1..n : b[i] = q[i]
  OBVIOUS
<1> HIDE DEF a, b
<1>3. /\ r \in Seq(S) /\ Len(r) = Len(q)
      /\ \A i \in 1..Len(r) : r[i] = IF i <= Len(a) THEN a[i] ELSE b[i - Len(a)]
  <2>1. r \in Seq(S) /\ Len(r) = Len(a) + Len(b)
    BY <1>1, <1>2, ConcatProperties
  <2>2. \A i \in 1..Len(a) + Len(b) : r[i] = IF i <= Len(a) THEN a[i] ELSE b[i - Len(a)]
    BY <1>1, <1>2, ConcatProperties
  <2> QED BY <1>1, <1>2, <2>1, <2>2
<1>4. ASSUME NEW i \in 1..Len(r) PROVE r[i] = q[At(i)] /\ At(i) \in 1..Len(q)
  <2> HIDE DEF r
  <2>1. CASE i <= Len(a)
    BY <1>1, <1>3, <2>1
  <2>2. CASE i > Len(a)
    BY <1>1, <1>2, <1>3, <2>2
  <2> QED BY <1>1, <1>3, <2>1, <2>2
<1>5. ASSUME NEW i \in 1..Len(r), NEW j \in 1..Len(r), i # j PROVE r[i] # r[j]
  <2>1. At(i) # At(j)
    BY <1>3, <1>5
  <2> QED BY <1>4, <2>1 DEF Distinct
<1>6. Distinct(r)
  BY <1>5 DEF Distinct
<1>7. SubSeq(q, n + 1, Len(q)) \o SubSeq(q, 1, n) = r
  BY DEF a, b
<1> QED BY <1>3, <1>4, <1>6, <1>7
-----------------------------------------------------------------------------
(* The maps of kernel, poller and sockets.  An open descriptor is known to *)
(* all three by the same number and belongs to a member.                   *)
Table ==
  /\ DOMAIN connections = registered
  /\ \A s \in Socket :
       fd[s] # NoFd => fd[s] \in registered /\ connections[fd[s]] = s /\ file[s] # 0
  /\ \A f \in registered : fd[connections[f]] = f

Member == \A s \in Socket : fd[s] # NoFd => s \in members

(* What is in the ready list is open, has something to report, and is in   *)
(* it once.                                                                *)
QueueOK ==
  /\ Distinct(queue)
  /\ \A i \in 1..Len(queue) :
       \E s \in Socket : fd[s] = queue[i] /\ level[s] # "quiet"

EventType == [fd : Fd, of : Socket, file : Nat, what : Level]

(* The events of a batch are of different sockets, which have the          *)
(* descriptors they had at epoll_wait.                                     *)
EventsOK ==
  pc \in {"batch", "closed", "removed"} =>
    /\ \A i \in 1..Len(events) :
         fd[events[i].of] = events[i].fd /\ file[events[i].of] = events[i].file
    /\ \A i, j \in 1..Len(events) : i # j => events[i].of # events[j].of

(* Before its first visit in the ready pass a socket has no descriptor.    *)
Unvisited == \A s \in Listener \cup Client : s \notin ready_done => fd[s] = NoFd

(* A socket that closes itself is held by its notify(), and has no         *)
(* descriptor when the driver forgets it.                                  *)
Closing ==
  /\ notified = self
  /\ pc = "closed" => notified \in Socket /\ fd[notified] = NoFd
  /\ pc = "ready" => todo \subseteq members

(* The model has a socket for the connection that waits.                   *)
Spare == \A s \in Listener : level[s] # "quiet" => Unmade # {}

Inv ==
  /\ TypeOK /\ events \in Seq(EventType)
  /\ Table /\ Member /\ QueueOK /\ EventsOK
  /\ Unvisited /\ Closing /\ Spare

(* The number f may be given to s.                                         *)
FreeFor(s, f) ==
  /\ f \in Fd \cup {NoFd}
  /\ f # NoFd => \A t \in Socket \ {s} : fd[t] # f

(* A step leaves the descriptors of the sockets other than s.              *)
Kept(s) ==
  \A t \in Socket \ {s} : fd[t] # NoFd => fd'[t] = fd[t] /\ file'[t] = file[t]

LEMMA Numbers == NoFd \notin Fd /\ Fd \subseteq Nat
BY DEF NoFd, Fd

(* What opening and closing a descriptor does to the maps.                 *)
LEMMA Moved ==
  ASSUME TypeOK, Table, NEW s \in Socket, NEW f, FreeFor(s, f), Move(s, f)
  PROVE  /\ fd' \in [Socket -> Fd \cup {NoFd}] /\ registered' \subseteq Fd
         /\ connections' \in [DOMAIN connections' -> Socket]
         /\ file' \in [Socket -> Nat]
         /\ \A t \in Socket \ {s} : fd'[t] = fd[t] /\ file'[t] = file[t]
         /\ fd'[s] = f /\ Kept(s)
         /\ Table'
<1>1. /\ fd' \in [Socket -> Fd \cup {NoFd}] /\ fd'[s] = f
      /\ \A t \in Socket \ {s} : fd'[t] = fd[t]
  BY DEF Move, FreeFor, TypeOK
<1>2. /\ file' \in [Socket -> Nat]
      /\ \A t \in Socket \ {s} : file'[t] = file[t]
      /\ f # NoFd => file'[s] # 0
  BY DEF Move, TypeOK
<1>3. /\ DOMAIN connections' = registered' /\ registered' \subseteq Fd
      /\ registered' = (registered \ {fd[s]}) \cup ({f} \ {NoFd})
      /\ \A g \in registered' : connections'[g] = IF g = f THEN s ELSE connections[g]
  BY DEF Move, Erased, Table, FreeFor, TypeOK
<1>4. connections' \in [DOMAIN connections' -> Socket]
  BY <1>3 DEF Move, Erased, TypeOK, Table
<1>5. ASSUME NEW t \in Socket, fd'[t] # NoFd
      PROVE  fd'[t] \in registered' /\ connections'[fd'[t]] = t /\ file'[t] # 0
  <2>1. CASE t = s
    BY <1>1, <1>2, <1>3, <1>5, <2>1
  <2>2. CASE t # s
    <3>1. /\ fd'[t] = fd[t] /\ fd[t] \in registered /\ connections[fd[t]] = t
          /\ file'[t] # 0
      BY <1>1, <1>2, <1>5, <2>2 DEF Table
    <3>2. fd[t] # fd[s]
      BY <1>5, <2>2, <3>1 DEF Table
    <3>3. fd[t] # f
      BY <1>5, <2>2, <3>1 DEF FreeFor
    <3> QED BY <1>3, <3>1, <3>2, <3>3
  <2> QED BY <2>1, <2>2
<1>6. ASSUME NEW g \in registered' PROVE fd'[connections'[g]] = g
  <2>1. CASE g = f
    BY <1>1, <1>3, <2>1
  <2>2. CASE g # f
    <3>1. g \in registered /\ g # fd[s] /\ connections'[g] = connections[g]
      BY <1>3, <2>2
    <3>2. fd[connections[g]] = g /\ connections[g] \in Socket
      BY <3>1 DEF Table, TypeOK
    <3> QED BY <1>1, <3>1, <3>2
  <2> QED BY <2>1, <2>2
<1> QED BY <1>1, <1>2, <1>3, <1>4, <1>5, <1>6 DEF Table, Kept

(* What the ready list is after a socket has nothing more to report.       *)
LEMMA QueueQuieted ==
  ASSUME TypeOK, QueueOK, NEW s \in Socket, Quieted(s), Kept(s)
  PROVE  queue' \in Seq(Fd) /\ level' \in [Socket -> Level] /\ QueueOK'
<1>1. level' = [level EXCEPT ![s] = "quiet"] /\ level' \in [Socket -> Level]
  BY DEF Quieted, TypeOK, Level
<1>2. /\ queue' \in Seq(Fd) /\ Distinct(queue')
      /\ \A i \in 1..Len(queue') : /\ queue'[i] # fd[s]
                                   /\ \E j \in 1..Len(queue) : queue'[i] = queue[j]
  <2>1. queue \in Seq(Fd) /\ Distinct(queue) /\ queue' = RemoveFirst(queue, fd[s])
    BY DEF Quieted, TypeOK, QueueOK
  <2> QED BY <2>1, Removed
<1>3. ASSUME NEW i \in 1..Len(queue')
      PROVE  \E t \in Socket : fd'[t] = queue'[i] /\ level'[t] # "quiet"
  <2>1. PICK j \in 1..Len(queue) : queue'[i] = queue[j]
    BY <1>2
  <2>2. PICK t \in Socket : fd[t] = queue[j] /\ level[t] # "quiet"
    BY DEF QueueOK
  <2>3. t # s
    BY <1>2, <2>1, <2>2
  <2>4. fd[t] # NoFd
    BY <1>2, <2>1, <2>2, Numbers
  <2> QED BY <1>1, <2>1, <2>2, <2>3, <2>4 DEF Kept, TypeOK
<1> QED BY <1>1, <1>2, <1>3 DEF QueueOK

(* The same when no level changes.                                         *)
LEMMA QueueKept ==
  ASSUME QueueOK, UNCHANGED <<queue, level>>,
         \A s \in Socket : fd[s] # NoFd => fd'[s] = fd[s],
         queue \in Seq(Fd)
  PROVE  QueueOK'
<1>1. ASSUME NEW i \in 1..Len(queue')
      PROVE  \E t \in Socket : fd'[t] = queue'[i] /\ level'[t] # "quiet"
  <2>1. PICK t \in Socket : fd[t] = queue[i] /\ level[t] # "quiet"
    BY DEF QueueOK
  <2>2. fd[t] # NoFd
    BY <2>1, Numbers
  <2> QED BY <2>1, <2>2
<1> QED BY <1>1 DEF QueueOK, Distinct

LEMMA EventsTyped ==
  ASSUME events \in Seq(EventType)
  PROVE  \A i \in 1..Len(events) : events[i].of \in Socket /\ events[i].fd \in Fd
<1> TAKE i \in 1..Len(events)
<1>1. events[i] \in EventType
  BY ElementOfSeq
<1> QED BY <1>1 DEF EventType

(* In a batch the next event is always found, and is of the socket that is *)
(* notified.                                                               *)
LEMMA FirstFound ==
  ASSUME Inv, NEW s, Notify(s)
  PROVE  /\ Found = 1 /\ Len(events) \in Nat \ {0}
         /\ s = events[1].of /\ s \in Socket /\ fd[s] \in Fd
<1>1. pc = "batch" /\ Found # 0 /\ connections[Current.fd] = s
  BY DEF Notify
<1>2. \A i \in 1..Len(events) : events[i].of \in Socket /\ events[i].fd \in Fd
  BY EventsTyped DEF Inv
<1>3. \A i \in 1..Len(events) : /\ fd[events[i].of] = events[i].fd
                                /\ events[i].fd \in DOMAIN connections
                                /\ connections[events[i].fd] = events[i].of
  BY <1>1, <1>2, Numbers DEF Inv, EventsOK, Table
<1> DEFINE I == {i \in 1..Len(events) : events[i].fd \in DOMAIN connections}
<1>4. I = 1..Len(events)
  BY <1>3
<1>5. Len(events) \in Nat
  BY DEF Inv
<1>6. Found = IF I # {} THEN Min(I) ELSE 0
  BY DEF Found, SelectInSeq
<1>7. I # {}
  BY <1>1, <1>6
<1>8. Min(I) \in I /\ \A i \in I : Min(I) <= i
  <2>1. I \in SUBSET Nat
    BY <1>5
  <2> HIDE DEF I
  <2> QED BY <1>7, <2>1, MinOf
<1> HIDE DEF I
<1>9. Found = 1 /\ Len(events) # 0
  BY <1>4, <1>5, <1>6, <1>7, <1>8
<1> QED BY <1>1, <1>2, <1>3, <1>5, <1>9 DEF Current

(* What is left of a batch stays good when its handler touches the         *)
(* descriptor of no socket but its own, and of sockets that have none.     *)
LEMMA EventsLeft ==
  ASSUME Inv, NEW s, Notify(s), Kept(s)
  PROVE  events' \in Seq(EventType) /\ Len(events') <= MaxEvents /\ EventsOK'
<1>1. /\ Found = 1 /\ Len(events) \in Nat \ {0} /\ s = events[1].of
      /\ events' = SubSeq(events, 2, Len(events)) /\ pc = "batch"
  BY FirstFound DEF Notify, Left
<1>2. /\ events \in Seq(EventType) /\ Len(events) <= MaxEvents /\ MaxEvents \in Nat
  BY PollerAssumption DEF Inv, TypeOK
<1>3. /\ events' \in Seq(EventType) /\ Len(events') = Len(events) - 1
      /\ \A i \in 1..Len(events') : events'[i] = events[i + 1]
  <2>1. \A i \in 2..Len(events) : events[i] \in EventType
    BY <1>1, <1>2, ElementOfSeq
  <2> DEFINE n == Len(events)
             r == SubSeq(events, 2, n)
  <2>2. n \in Int
    BY <1>1
  <2> HIDE DEF n
  <2>3. /\ r \in Seq(EventType) /\ Len(r) = IF 2 <= n THEN n - 2 + 1 ELSE 0
        /\ \A i \in 1..n - 2 + 1 : r[i] = events[2 + i - 1]
    <3>1. \A i \in 2..n : events[i] \in EventType
      BY <2>1 DEF n
    <3> QED BY <2>2, <3>1, SubSeqProperties
  <2>4. events' = r /\ n \in Nat \ {0} /\ n = Len(events)
    BY <1>1 DEF n
  <2> HIDE DEF r
  <2> QED BY <2>3, <2>4
<1>4. /\ \A i \in 1..Len(events) :
           fd[events[i].of] = events[i].fd /\ file[events[i].of] = events[i].file
      /\ \A i, j \in 1..Len(events) : i # j => events[i].of # events[j].of
  BY <1>1 DEF Inv, EventsOK
<1>5. ASSUME NEW i \in 1..Len(events')
      PROVE  /\ fd'[events'[i].of] = events'[i].fd
             /\ file'[events'[i].of] = events'[i].file
  <2>1. i + 1 \in 1..Len(events) /\ i + 1 # 1 /\ 1 \in 1..Len(events)
    BY <1>1, <1>3
  <2>2. /\ events[i + 1].of \in Socket \ {s} /\ events[i + 1].fd \in Fd
        /\ fd[events[i + 1].of] = events[i + 1].fd
    BY <1>1, <1>2, <1>4, <2>1, EventsTyped
  <2>3. /\ fd'[events[i + 1].of] = fd[events[i + 1].of]
        /\ file'[events[i + 1].of] = file[events[i + 1].of]
    BY <2>2, Numbers DEF Kept
  <2> QED BY <1>3, <1>4, <2>1, <2>2, <2>3
<1>6. ASSUME NEW i \in 1..Len(events'), NEW j \in 1..Len(events'), i # j
      PROVE  events'[i].of # events'[j].of
  <2>1. i + 1 \in 1..Len(events) /\ j + 1 \in 1..Len(events) /\ i + 1 # j + 1
    BY <1>1, <1>3, <1>6
  <2> QED BY <1>3, <1>4, <2>1
<1>7. Len(events') <= MaxEvents
  BY <1>1, <1>2, <1>3
<1> QED BY <1>3, <1>5, <1>6, <1>7 DEF EventsOK

(* The attempts of request_connect() open at most one descriptor.          *)
LEMMA Requested ==
  ASSUME TypeOK, NEW s \in Client, NEW n \in Int, n <= MaxAddr, RequestConnect(s, n)
  PROVE  /\ connecting' \subseteq Client /\ addresses' \in [Socket -> 0..MaxAddr]
         /\ Quieted(s)
         /\ \E f \in Fd \cup {NoFd} : FreeFor(s, f) /\ Move(s, f)
<1>1. MaxAddr \in Nat
  BY PollerAssumption
<1>2. connecting' \subseteq Client
  BY DEF RequestConnect, TypeOK
<1>3. addresses' \in [Socket -> 0..MaxAddr]
  <2>1. \E left \in 0..MaxAddr : addresses' = [addresses EXCEPT ![s] = left]
    BY <1>1 DEF RequestConnect
  <2> QED BY <2>1 DEF TypeOK
<1>4. Open(s) \/ Move(s, NoFd)
  BY DEF RequestConnect
<1>5. Quieted(s)
  BY DEF RequestConnect
<1> QED BY <1>2, <1>3, <1>4, <1>5 DEF Open, FreeFor
-----------------------------------------------------------------------------
LEMMA Roles ==
  /\ Client \subseteq Socket /\ Listener \subseteq Socket /\ Session \subseteq Socket
  /\ NoSocket \notin Socket
  /\ \A s \in Client : s \notin Listener /\ s \notin Session
  /\ \A s \in Listener : s \notin Session
  /\ \A s, t \in Listener : s = t
BY PollerAssumption DEF Socket

(* The ready pass.                                                         *)
LEMMA ReadyClientInv ==
  ASSUME Inv, NEW s \in Socket, ReadyClient(s)
  PROVE  Inv'
<1>1. /\ s \in Client /\ s \in todo /\ s \notin ready_done /\ pc = "ready" /\ pc' = "ready"
      /\ todo' = todo \ {s} /\ ready_done' = ready_done \cup {s}
      /\ UNCHANGED <<members, watchdog, notified, self, events>>
  BY DEF ReadyClient, FirstVisit, notifying
<1>2. PICK n \in 0..MaxAddr : RequestConnect(s, n)
  BY DEF ReadyClient
<1>3. TypeOK /\ Table /\ QueueOK
  BY DEF Inv
<1>4. /\ connecting' \subseteq Client /\ addresses' \in [Socket -> 0..MaxAddr]
      /\ Quieted(s)
      /\ \E f \in Fd \cup {NoFd} : FreeFor(s, f) /\ Move(s, f)
  <2>1. n \in Int /\ n <= MaxAddr
    BY PollerAssumption
  <2> QED BY <1>1, <1>2, <1>3, <2>1, Requested
<1>5. PICK f \in Fd \cup {NoFd} : FreeFor(s, f) /\ Move(s, f)
  BY <1>4
<1>6. /\ fd' \in [Socket -> Fd \cup {NoFd}] /\ registered' \subseteq Fd
      /\ connections' \in [DOMAIN connections' -> Socket]
      /\ file' \in [Socket -> Nat]
      /\ \A t \in Socket \ {s} : fd'[t] = fd[t] /\ file'[t] = file[t]
      /\ Kept(s) /\ Table'
  BY <1>3, <1>5, Moved
<1>7. queue' \in Seq(Fd) /\ level' \in [Socket -> Level] /\ QueueOK'
  BY <1>3, <1>4, <1>6, QueueQuieted
<1>8. TypeOK'
  BY <1>1, <1>4, <1>6, <1>7 DEF Inv, TypeOK
<1>9. Member'
  BY <1>1, <1>6 DEF Inv, Member, Closing
<1>10. Unvisited' /\ Closing'
  BY <1>1, <1>6, Roles DEF Inv, Unvisited, Closing
<1>11. Spare'
  <2>1. \A l \in Listener : level'[l] = level[l]
    BY <1>1, <1>4, Roles DEF Quieted, Inv, TypeOK
  <2>2. \A t \in Session : file'[t] = file[t]
    BY <1>1, <1>6, Roles
  <2> QED BY <2>1, <2>2 DEF Inv, Spare, Unmade
<1>12. EventsOK' /\ events' \in Seq(EventType)
  BY <1>1 DEF Inv, EventsOK
<1> QED BY <1>6, <1>7, <1>8, <1>9, <1>10, <1>11, <1>12 DEF Inv

LEMMA ReadyListenerInv ==
  ASSUME Inv, NEW s \in Socket, ReadyListener(s)
  PROVE  Inv'
<1>1. /\ s \in Listener /\ s \in todo /\ s \notin ready_done /\ pc = "ready"
      /\ pc' \in {"ready", "exception", "assertion"}
      /\ todo' = todo \ {s} /\ ready_done' = ready_done \cup {s}
      /\ UNCHANGED <<members, watchdog, notified, self, events, connecting, addresses,
                     queue, level>>
  BY DEF ReadyListener, FirstVisit, notifying, kernel
<1>2. fd[s] = NoFd
  BY <1>1 DEF Inv, Unvisited
<1>3. TypeOK /\ Table /\ QueueOK
  BY DEF Inv
<1>4. UNCHANGED table \/ \E f \in Fd : FreeFor(s, f) /\ Move(s, f)
  BY DEF ReadyListener, Open, FreeFor
<1>5. /\ fd' \in [Socket -> Fd \cup {NoFd}] /\ registered' \subseteq Fd
      /\ connections' \in [DOMAIN connections' -> Socket]
      /\ file' \in [Socket -> Nat]
      /\ \A t \in Socket \ {s} : fd'[t] = fd[t] /\ file'[t] = file[t]
      /\ Table'
  <2>1. CASE UNCHANGED table
    BY <1>3, <2>1 DEF table, TypeOK, Table
  <2>2. CASE \E f \in Fd : FreeFor(s, f) /\ Move(s, f)
    BY <1>3, <2>2, Moved
  <2> QED BY <1>4, <2>1, <2>2
<1>6. QueueOK'
  <2>1. \A t \in Socket : fd[t] # NoFd => fd'[t] = fd[t]
    BY <1>2, <1>5
  <2> QED BY <1>1, <1>3, <2>1, QueueKept DEF TypeOK
<1>7. TypeOK'
  BY <1>1, <1>5 DEF Inv, TypeOK, Fatal
<1>8. Member'
  BY <1>1, <1>5 DEF Inv, Member, Closing
<1>9. Unvisited' /\ Closing'
  BY <1>1, <1>5, Roles DEF Inv, Unvisited, Closing
<1>10. Spare'
  <2>1. \A t \in Session : file'[t] = file[t]
    BY <1>1, <1>5, Roles
  <2> QED BY <1>1, <2>1 DEF Inv, Spare, Unmade
<1>11. EventsOK' /\ events' \in Seq(EventType)
  BY <1>1 DEF Inv, EventsOK
<1> QED BY <1>5, <1>6, <1>7, <1>8, <1>9, <1>10, <1>11 DEF Inv

(* The steps of the thread that leave the sockets and the kernel alone.    *)
LEMMA TurnInv ==
  ASSUME Inv,
         \/ \E s \in Socket : NothingToReady(s)
         \/ AllReady \/ Timeout \/ EndBatch \/ EndRefresh
  PROVE  Inv'
<1>1. UNCHANGED <<members, connecting, addresses, watchdog, notified, self, table, kernel>>
  BY DEF NothingToReady, AllReady, Timeout, EndBatch, EndRefresh, driver, tcp, notifying
<1>2. /\ pc' \in {"ready", "done", "wait", "refresh"}
      /\ pc' = "ready" => todo' \subseteq members
      /\ todo' \subseteq Socket /\ ready_done \subseteq ready_done'
      /\ ready_done' \subseteq Socket
      /\ events' \in Seq(EventType) /\ Len(events') <= MaxEvents
  <2>1. /\ pc' \in {"ready", "done", "wait", "refresh"}
        /\ ready_done \subseteq ready_done' /\ events' \in {events, <<>>}
    BY DEF NothingToReady, AllReady, Timeout, EndBatch, EndRefresh, driver
  <2>2. pc' = "ready" => todo' \subseteq members
    BY DEF NothingToReady, AllReady, Timeout, EndBatch, EndRefresh, Inv, Closing
  <2>3. todo' \subseteq Socket /\ ready_done' \subseteq Socket
    BY DEF NothingToReady, AllReady, Timeout, EndBatch, EndRefresh, driver, Inv, TypeOK
  <2>4. events' \in Seq(EventType) /\ Len(events') <= MaxEvents
    <3>1. CASE events' = events
      BY <3>1 DEF Inv, TypeOK
    <3>2. CASE events' = <<>>
      BY <3>2, PollerAssumption
    <3> QED BY <2>1, <3>1, <3>2
  <2> QED BY <2>1, <2>2, <2>3, <2>4
<1>3. TypeOK'
  BY <1>1, <1>2 DEF Inv, TypeOK, table, kernel
<1>4. Table' /\ Member' /\ Spare'
  BY <1>1 DEF Inv, Table, Member, Spare, Unmade, table, kernel
<1>5. QueueOK'
  BY <1>1 DEF Inv, QueueOK, Distinct, table, kernel
<1>6. Unvisited' /\ Closing' /\ EventsOK'
  BY <1>1, <1>2 DEF Inv, Unvisited, Closing, EventsOK, table
<1> QED BY <1>2, <1>3, <1>4, <1>5, <1>6 DEF Inv
-----------------------------------------------------------------------------
(* epoll_wait().                                                           *)
LEMMA WaitInv ==
  ASSUME Inv, Wait
  PROVE  Inv'
<1> DEFINE n == IF Len(queue) < MaxEvents THEN Len(queue) ELSE MaxEvents
           r == SubSeq(queue, 1, n)
<1>1. /\ pc' = "batch" /\ Reported = r
      /\ events' = [i \in DOMAIN r |-> Event(r[i])]
      /\ queue' = SubSeq(queue, Len(r) + 1, Len(queue)) \o r
      /\ UNCHANGED <<members, todo, ready_done, connecting, addresses, watchdog,
                     notified, self, fd, connections, registered, file, level>>
  BY DEF Wait, Reported, Batch, driver, tcp, notifying
<1>2. queue \in Seq(Fd) /\ Distinct(queue) /\ MaxEvents \in Nat
  BY PollerAssumption DEF Inv, TypeOK, QueueOK
<1>3. n \in 0..Len(queue) /\ n <= MaxEvents
  BY <1>2
<1> HIDE DEF n
<1>4. /\ r \in Seq(Fd) /\ Len(r) = n /\ DOMAIN r = 1..n
      /\ \A i \in 1..n : r[i] = queue[i]
  BY <1>2, <1>3
<1>5. /\ queue' \in Seq(Fd) /\ Distinct(queue')
      /\ \A i \in 1..Len(queue') : \E j \in 1..Len(queue) : queue'[i] = queue[j]
  <2> DEFINE rotated == SubSeq(queue, n + 1, Len(queue)) \o SubSeq(queue, 1, n)
  <2>1. queue' = rotated
    BY <1>1, <1>4
  <2>2. /\ rotated \in Seq(Fd) /\ Distinct(rotated)
        /\ \A i \in 1..Len(rotated) : \E j \in 1..Len(queue) : rotated[i] = queue[j]
    BY <1>2, <1>3, Rotated, ZenonT(60)
  <2> HIDE DEF rotated
  <2> QED BY <2>1, <2>2
<1>6. QueueOK'
  <2>1. ASSUME NEW i \in 1..Len(queue')
        PROVE  \E s \in Socket : fd'[s] = queue'[i] /\ level'[s] # "quiet"
    <3>1. PICK j \in 1..Len(queue) : queue'[i] = queue[j]
      BY <1>5
    <3> QED BY <1>1, <3>1 DEF Inv, QueueOK
  <2> QED BY <1>5, <2>1 DEF QueueOK
<1>7. ASSUME NEW i \in 1..n
      PROVE  r[i] \in Fd /\ Owner(r[i]) \in Socket /\ fd[Owner(r[i])] = r[i]
  <2>1. i \in 1..Len(queue) /\ r[i] = queue[i]
    BY <1>3, <1>4
  <2>2. \E s \in Socket : fd[s] = r[i]
    BY <2>1 DEF Inv, QueueOK
  <2>3. r[i] \in Fd
    BY <1>2, <2>1, ElementOfSeq
  <2> QED BY <2>2, <2>3 DEF Owner
<1>8. /\ events' \in Seq(EventType) /\ Len(events') = n
      /\ \A i \in 1..n : events'[i] = Event(r[i])
  <2>1. ASSUME NEW i \in 1..n PROVE Event(r[i]) \in EventType
    BY <1>7 DEF Event, EventType, Inv, TypeOK
  <2>2. events' = [i \in 1..n |-> Event(r[i])] /\ n \in Nat
    BY <1>1, <1>3, <1>4
  <2>3. events' \in Seq(EventType)
    BY <2>1, <2>2, IsASeq
  <2> QED BY <2>2, <2>3, LenProperties
<1>9. EventsOK'
  <2> HIDE DEF r
  <2>1. ASSUME NEW i \in 1..Len(events')
        PROVE  /\ fd'[events'[i].of] = events'[i].fd
               /\ file'[events'[i].of] = events'[i].file
    BY <1>1, <1>7, <1>8 DEF Event
  <2>2. ASSUME NEW i \in 1..Len(events'), NEW j \in 1..Len(events'), i # j
        PROVE  events'[i].of # events'[j].of
    <3>1. i \in 1..n /\ j \in 1..n /\ i \in 1..Len(queue) /\ j \in 1..Len(queue)
      BY <1>3, <1>8
    <3>2. r[i] # r[j]
      BY <1>2, <1>4, <2>2, <3>1 DEF Distinct
    <3>3. fd[Owner(r[i])] = r[i] /\ fd[Owner(r[j])] = r[j]
      BY <1>7, <3>1
    <3>4. events'[i].of = Owner(r[i]) /\ events'[j].of = Owner(r[j])
      BY <1>8, <3>1 DEF Event
    <3> QED BY <3>2, <3>3, <3>4
  <2> QED BY <2>1, <2>2 DEF EventsOK
<1>10. TypeOK'
  <2> HIDE DEF r
  <2>1. Len(events') <= MaxEvents
    BY <1>3, <1>8
  <2> QED BY <1>1, <1>5, <2>1 DEF Inv, TypeOK
<1>11. Table' /\ Member' /\ Spare' /\ Unvisited' /\ Closing'
  BY <1>1 DEF Inv, Table, Member, Spare, Unmade, Unvisited, Closing
<1> QED BY <1>6, <1>8, <1>9, <1>10, <1>11 DEF Inv
-----------------------------------------------------------------------------
(* A handler moves the descriptor of no socket but the one it is for.      *)
LEMMA Handled ==
  ASSUME Inv, NEW s \in Socket, Notify(s),
         UNCHANGED members,
         connecting' \subseteq Client, watchdog' \subseteq Client,
         addresses' \in [Socket -> 0..MaxAddr],
         notified' = self', notified' \in Socket \cup {NoSocket},
         \/ pc' \in {"batch", "null", "exception"}
         \/ pc' = "closed" /\ notified' \in Socket /\ fd'[notified'] = NoFd,
         UNCHANGED table \/ \E f \in Fd \cup {NoFd} : FreeFor(s, f) /\ Move(s, f),
         Quieted(s) \/ (UNCHANGED table /\ UNCHANGED kernel)
  PROVE  Inv'
<1>1. TypeOK /\ Table /\ QueueOK /\ Member
  BY DEF Inv
<1>2. pc = "batch" /\ UNCHANGED <<todo, ready_done>> /\ fd[s] \in Fd
  BY FirstFound DEF Notify
<1>3. s \in members /\ file[s] # 0 /\ (s \in Listener \cup Client => s \in ready_done)
  BY <1>2, Numbers DEF Inv, Table, Member, Unvisited
<1>4. /\ fd' \in [Socket -> Fd \cup {NoFd}] /\ registered' \subseteq Fd
      /\ connections' \in [DOMAIN connections' -> Socket]
      /\ file' \in [Socket -> Nat]
      /\ \A t \in Socket \ {s} : fd'[t] = fd[t] /\ file'[t] = file[t]
      /\ Kept(s) /\ Table'
  <2>1. CASE UNCHANGED table
    BY <1>1, <2>1 DEF table, TypeOK, Table, Kept
  <2>2. CASE \E f \in Fd \cup {NoFd} : FreeFor(s, f) /\ Move(s, f)
    BY <1>1, <2>2, Moved
  <2> QED BY <2>1, <2>2
<1>5. /\ queue' \in Seq(Fd) /\ level' \in [Socket -> Level] /\ QueueOK'
      /\ \A t \in Socket : level'[t] = level[t] \/ level'[t] = "quiet"
  <2>1. CASE Quieted(s)
    BY <1>1, <1>4, <2>1, QueueQuieted DEF Quieted, TypeOK
  <2>2. CASE UNCHANGED table /\ UNCHANGED kernel
    <3>1. \A t \in Socket : fd[t] # NoFd => fd'[t] = fd[t]
      BY <2>2 DEF table
    <3>2. UNCHANGED <<queue, level>>
      BY <2>2 DEF kernel
    <3> QED BY <1>1, <3>1, <3>2, QueueKept DEF TypeOK
  <2> QED BY <2>1, <2>2
<1>6. events' \in Seq(EventType) /\ Len(events') <= MaxEvents /\ EventsOK'
  BY <1>4, EventsLeft
<1>7. TypeOK'
  <2>1. pc' \in {"batch", "null", "exception", "closed"} /\ self' \in Socket \cup {NoSocket}
    OBVIOUS
  <2> QED BY <1>2, <1>4, <1>5, <1>6, <2>1 DEF Inv, TypeOK, Fatal
<1>8. Member'
  BY <1>3, <1>4 DEF Inv, Member
<1>9. Unvisited' /\ Closing'
  BY <1>2, <1>3, <1>4, Roles DEF Inv, Unvisited, Closing
<1>10. Spare'
  <2>1. \A u \in Unmade : u \in Socket \ {s} /\ u \in Session /\ file'[u] = 0
    BY <1>3, <1>4, Roles DEF Unmade
  <2>2. Unmade # {} => Unmade' # {}
    BY <2>1 DEF Unmade
  <2> QED BY <1>5, <2>2, Roles DEF Inv, Spare
<1> QED BY <1>4, <1>5, <1>6, <1>7, <1>8, <1>9, <1>10 DEF Inv

LEMMA AcceptNullInv ==
  ASSUME Inv, NEW s \in Socket, AcceptNull(s)
  PROVE  Inv'
<1>1. /\ Notify(s) /\ pc' \in {"null", "exception"}
      /\ UNCHANGED <<members, connecting, watchdog, addresses, notified, self, table, kernel>>
  BY DEF AcceptNull, tcp, notifying
<1>2. /\ connecting' \subseteq Client /\ watchdog' \subseteq Client
      /\ addresses' \in [Socket -> 0..MaxAddr]
      /\ notified' = self' /\ notified' \in Socket \cup {NoSocket}
  BY <1>1 DEF Inv, TypeOK, Closing
<1> QED BY <1>1, <1>2, Handled

LEMMA NotifyConnectInv ==
  ASSUME Inv, NEW s \in Socket, NotifyConnect(s)
  PROVE  Inv'
<1>1. /\ Notify(s) /\ s \in connecting /\ pc' = pc /\ pc = "batch"
      /\ UNCHANGED <<members, watchdog, notified, self>>
  BY DEF NotifyConnect, Notify, notifying
<1>2. s \in Client /\ TypeOK
  BY <1>1 DEF Inv, TypeOK
<1>3. /\ watchdog' \subseteq Client
      /\ notified' = self' /\ notified' \in Socket \cup {NoSocket}
  BY <1>1 DEF Inv, TypeOK, Closing
<1>4. /\ connecting' \subseteq Client /\ addresses' \in [Socket -> 0..MaxAddr]
      /\ Quieted(s)
      /\ UNCHANGED table \/ \E f \in Fd \cup {NoFd} : FreeFor(s, f) /\ Move(s, f)
  <2>1. CASE RequestConnect(s, NextAddress(s))
    <3>1. NextAddress(s) \in Int /\ NextAddress(s) <= MaxAddr
      <4>1. addresses[s] \in 0..MaxAddr /\ MaxAddr \in Nat
        BY <1>2, PollerAssumption DEF TypeOK
      <4> QED BY <4>1 DEF NextAddress
    <3> QED BY <1>2, <2>1, <3>1, Requested
  <2>2. CASE /\ connecting' = connecting \ {s}
             /\ addresses' = [addresses EXCEPT ![s] = 0]
             /\ Quieted(s)
             /\ UNCHANGED table
    <3>1. 0 \in 0..MaxAddr
      BY PollerAssumption
    <3> QED BY <1>2, <2>2, <3>1 DEF TypeOK
  <2> QED BY <2>1, <2>2 DEF NotifyConnect
<1> QED BY <1>1, <1>3, <1>4, Handled

LEMMA ReadInv ==
  ASSUME Inv, NEW s \in Socket, Read(s)
  PROVE  Inv'
<1>1. /\ Notify(s) /\ pc' = pc /\ pc = "batch"
      /\ UNCHANGED <<members, connecting, addresses, notified, self, table>>
      /\ watchdog' = watchdog \cup ({s} \cap Client)
      /\ UNCHANGED kernel \/ Quieted(s)
  BY DEF Read, Notify, notifying
<1>2. /\ connecting' \subseteq Client /\ watchdog' \subseteq Client
      /\ addresses' \in [Socket -> 0..MaxAddr]
      /\ notified' = self' /\ notified' \in Socket \cup {NoSocket}
  BY <1>1 DEF Inv, TypeOK, Closing
<1> QED BY <1>1, <1>2, Handled

LEMMA HangUpInv ==
  ASSUME Inv, NEW s \in Socket, HangUp(s)
  PROVE  Inv'
<1>1. /\ Notify(s) /\ pc' = "closed" /\ notified' = s /\ self' = s
      /\ UNCHANGED <<members, connecting, watchdog, addresses>>
      /\ Move(s, NoFd) /\ Quieted(s)
  BY DEF HangUp, SelfOf, Close, tcp
<1>2. FreeFor(s, NoFd) /\ NoFd \in Fd \cup {NoFd}
  BY DEF FreeFor
<1>3. fd'[s] = NoFd
  BY <1>1 DEF Move, Inv, TypeOK
<1>4. /\ connecting' \subseteq Client /\ watchdog' \subseteq Client
      /\ addresses' \in [Socket -> 0..MaxAddr]
  BY <1>1 DEF Inv, TypeOK
<1> QED BY <1>1, <1>2, <1>3, <1>4, Handled

LEMMA AcceptInv ==
  ASSUME Inv, NEW s \in Socket, Accept(s)
  PROVE  Inv'
<1>1. /\ s \in Listener /\ Notify(s) /\ level[s] # "quiet" /\ Quieted(s) /\ Open(New)
      /\ members' = members \cup {New} /\ pc' = "batch" /\ pc = "batch"
      /\ UNCHANGED <<todo, ready_done, connecting, watchdog, addresses, notified, self>>
  BY DEF Accept, Notify, tcp, notifying
<1>2. TypeOK /\ Table /\ QueueOK
  BY DEF Inv
<1>3. New \in Session /\ New \in Socket \ {s} /\ file[New] = 0
  <2>1. Unmade # {}
    BY <1>1 DEF Inv, Spare
  <2>2. New \in Unmade
    BY <2>1 DEF New
  <2> QED BY <1>1, <2>2, Roles DEF Unmade
<1>4. fd[New] = NoFd
  BY <1>2, <1>3 DEF Table
<1> DEFINE new == New
<1>5. PICK f \in Fd : FreeFor(new, f) /\ Move(new, f)
  BY <1>1 DEF Open, FreeFor
<1>6. new \in Socket \ {s} /\ new \in Session /\ fd[new] = NoFd
  BY <1>3, <1>4
<1> HIDE DEF new
<1>7. /\ fd' \in [Socket -> Fd \cup {NoFd}] /\ registered' \subseteq Fd
      /\ connections' \in [DOMAIN connections' -> Socket]
      /\ file' \in [Socket -> Nat]
      /\ \A t \in Socket \ {new} : fd'[t] = fd[t] /\ file'[t] = file[t]
      /\ Table'
  BY <1>2, <1>5, <1>6, Moved
<1>8. Kept(s)
  BY <1>6, <1>7 DEF Kept
<1>9. queue' \in Seq(Fd) /\ level' \in [Socket -> Level] /\ QueueOK'
  BY <1>1, <1>2, <1>8, QueueQuieted
<1>10. events' \in Seq(EventType) /\ Len(events') <= MaxEvents /\ EventsOK'
  BY <1>1, <1>8, EventsLeft
<1>11. members' = members \cup {new}
  BY <1>1 DEF new
<1>12. TypeOK'
  <2>1. members' \subseteq Socket
    BY <1>2, <1>6, <1>11 DEF TypeOK
  <2>2. /\ pc' = "batch"
        /\ UNCHANGED <<todo, ready_done, connecting, watchdog, addresses, notified, self>>
    BY <1>1
  <2> QED BY <1>2, <1>7, <1>9, <1>10, <2>1, <2>2 DEF TypeOK
<1>13. Member'
  BY <1>7, <1>11 DEF Inv, Member
<1>14. Unvisited' /\ Closing'
  BY <1>1, <1>6, <1>7, Roles DEF Inv, Unvisited, Closing
<1>15. Spare'
  <2>1. level'[s] = "quiet"
    BY <1>1, <1>2 DEF Quieted, TypeOK
  <2> QED BY <1>1, <2>1, Roles DEF Spare
<1> QED BY <1>7, <1>9, <1>10, <1>12, <1>13, <1>14, <1>15 DEF Inv

(* The rest of a socket's own end.                                         *)
LEMMA ClosingInv ==
  ASSUME Inv, SocketClosed \/ Return
  PROVE  Inv'
<1>1. /\ UNCHANGED <<todo, ready_done, connecting, addresses, watchdog, events, table, kernel>>
      /\ \/ /\ pc = "closed" /\ pc' = "removed" /\ members' = members \ {notified}
            /\ UNCHANGED <<notified, self>>
         \/ /\ pc = "removed" /\ pc' = "batch" /\ UNCHANGED members
            /\ notified' = NoSocket /\ self' = NoSocket
  BY DEF SocketClosed, Return, driver, tcp, notifying
<1>2. TypeOK'
  BY <1>1 DEF Inv, TypeOK, table, kernel
<1>3. Table' /\ Unvisited' /\ Spare'
  BY <1>1 DEF Inv, Table, Unvisited, Spare, Unmade, table, kernel
<1>4. QueueOK'
  BY <1>1 DEF Inv, QueueOK, Distinct, table, kernel
<1>5. EventsOK' /\ events' \in Seq(EventType)
  BY <1>1 DEF Inv, EventsOK, table
<1>6. Member' /\ Closing'
  BY <1>1 DEF Inv, Member, Closing, table
<1> QED BY <1>2, <1>3, <1>4, <1>5, <1>6 DEF Inv

(* The watchdog.                                                           *)
LEMMA DisconnectInv ==
  ASSUME Inv, NEW s \in Socket, Disconnect(s)
  PROVE  Inv'
<1>1. /\ pc = "refresh" /\ pc' = "refresh" /\ s \in watchdog
      /\ watchdog' = watchdog \ {s} /\ members' = members \ {s}
      /\ Move(s, NoFd) /\ Quieted(s)
      /\ UNCHANGED <<todo, ready_done, connecting, addresses, notified, self, events>>
  BY DEF Disconnect, Close, notifying
<1>2. TypeOK /\ Table /\ QueueOK /\ s \in Client
  BY <1>1 DEF Inv, TypeOK
<1>3. /\ fd' \in [Socket -> Fd \cup {NoFd}] /\ registered' \subseteq Fd
      /\ connections' \in [DOMAIN connections' -> Socket]
      /\ file' \in [Socket -> Nat]
      /\ \A t \in Socket \ {s} : fd'[t] = fd[t] /\ file'[t] = file[t]
      /\ fd'[s] = NoFd /\ Kept(s) /\ Table'
  <2>1. FreeFor(s, NoFd)
    BY DEF FreeFor
  <2> QED BY <1>1, <1>2, <2>1, Moved
<1>4. queue' \in Seq(Fd) /\ level' \in [Socket -> Level] /\ QueueOK'
  BY <1>1, <1>2, <1>3, QueueQuieted
<1>5. TypeOK'
  BY <1>1, <1>3, <1>4 DEF Inv, TypeOK
<1>6. Member' /\ Unvisited' /\ Closing'
  BY <1>1, <1>3, Roles DEF Inv, Member, Unvisited, Closing
<1>7. Spare'
  <2>1. \A l \in Listener : level'[l] = level[l]
    BY <1>1, <1>2, Roles DEF Quieted, TypeOK
  <2>2. \A t \in Session : file'[t] = file[t]
    BY <1>2, <1>3, Roles
  <2> QED BY <2>1, <2>2 DEF Inv, Spare, Unmade
<1>8. EventsOK' /\ events' \in Seq(EventType)
  BY <1>1 DEF Inv, EventsOK
<1> QED BY <1>3, <1>4, <1>5, <1>6, <1>7, <1>8 DEF Inv
-----------------------------------------------------------------------------
(* The network.                                                            *)
LEMMA StirInv ==
  ASSUME Inv, NEW s \in Socket, Stir(s)
  PROVE  Inv'
<1>1. /\ fd[s] # NoFd /\ queue' = IF level[s] = "quiet" THEN Append(queue, fd[s]) ELSE queue
      /\ \E l \in {"input", "end"} : level' = [level EXCEPT ![s] = l]
      /\ s \in Listener => level[s] # "quiet" \/ Unmade # {}
      /\ UNCHANGED <<pc, members, todo, ready_done, connecting, addresses, watchdog,
                     notified, self, events, fd, connections, registered, file>>
  BY DEF Stir, driver, tcp, notifying, table
<1>2. TypeOK /\ Table /\ QueueOK
  BY DEF Inv
<1>3. /\ level' \in [Socket -> Level] /\ level'[s] # "quiet"
      /\ \A t \in Socket \ {s} : level'[t] = level[t]
  BY <1>1, <1>2 DEF TypeOK, Level
<1>4. queue' \in Seq(Fd) /\ QueueOK'
  <2>1. queue \in Seq(Fd) /\ fd[s] \in Fd
    BY <1>1, <1>2 DEF TypeOK
  <2>2. \A i \in 1..Len(queue) :
          \E t \in Socket : fd'[t] = queue[i] /\ level'[t] # "quiet"
    BY <1>1, <1>2, <1>3 DEF QueueOK
  <2>3. CASE level[s] = "quiet"
    <3>1. /\ queue' = Append(queue, fd[s]) /\ queue' \in Seq(Fd)
          /\ Len(queue') = Len(queue) + 1 /\ queue'[Len(queue) + 1] = fd[s]
          /\ \A i \in 1..Len(queue) : queue'[i] = queue[i]
      BY <1>1, <2>1, <2>3
    <3>2. ASSUME NEW i \in 1..Len(queue) PROVE queue[i] # fd[s]
      <4>1. PICK t \in Socket : fd[t] = queue[i] /\ level[t] # "quiet"
        BY <1>2 DEF QueueOK
      <4> QED BY <1>1, <1>2, <2>3, <4>1 DEF Table
    <3>3. \A i \in 1..Len(queue') : i \in 1..Len(queue) \/ i = Len(queue) + 1
      BY <2>1, <3>1
    <3>4. ASSUME NEW i \in 1..Len(queue'), NEW j \in 1..Len(queue'), i # j
          PROVE  queue'[i] # queue'[j]
      BY <1>2, <3>1, <3>2, <3>3, <3>4 DEF QueueOK, Distinct
    <3>5. ASSUME NEW i \in 1..Len(queue')
          PROVE  \E t \in Socket : fd'[t] = queue'[i] /\ level'[t] # "quiet"
      BY <1>1, <1>3, <2>2, <3>1, <3>3
    <3> QED BY <3>1, <3>4, <3>5 DEF QueueOK, Distinct
  <2>4. CASE level[s] # "quiet"
    <3>1. queue' = queue
      BY <1>1, <2>4
    <3> QED BY <1>2, <2>1, <2>2, <3>1 DEF QueueOK, Distinct
  <2> QED BY <2>3, <2>4
<1>5. TypeOK'
  BY <1>1, <1>3, <1>4 DEF Inv, TypeOK
<1>6. Table' /\ Member' /\ Unvisited' /\ Closing'
  BY <1>1 DEF Inv, Table, Member, Unvisited, Closing
<1>7. Spare'
  BY <1>1, <1>3, Roles DEF Inv, Spare, Unmade
<1>8. EventsOK' /\ events' \in Seq(EventType)
  BY <1>1 DEF Inv, EventsOK
<1> QED BY <1>4, <1>5, <1>6, <1>7, <1>8 DEF Inv

LEMMA AbortInv ==
  ASSUME Inv, NEW s \in Socket, Abort(s)
  PROVE  Inv'
<1>1. /\ Quieted(s)
      /\ UNCHANGED <<pc, members, todo, ready_done, connecting, addresses, watchdog,
                     notified, self, events, fd, connections, registered, file>>
  BY DEF Abort, driver, tcp, notifying, table
<1>2. TypeOK /\ QueueOK /\ Kept(s)
  BY <1>1 DEF Inv, Kept
<1>3. queue' \in Seq(Fd) /\ level' \in [Socket -> Level] /\ QueueOK'
  BY <1>1, <1>2, QueueQuieted
<1>4. TypeOK'
  BY <1>1, <1>3 DEF Inv, TypeOK
<1>5. Table' /\ Member' /\ Unvisited' /\ Closing'
  BY <1>1 DEF Inv, Table, Member, Unvisited, Closing
<1>6. Spare'
  <2>1. \A t \in Socket : level'[t] = level[t] \/ level'[t] = "quiet"
    BY <1>1, <1>2 DEF Quieted, TypeOK
  <2> QED BY <1>1, <2>1, Roles DEF Inv, Spare, Unmade
<1>7. EventsOK' /\ events' \in Seq(EventType)
  BY <1>1 DEF Inv, EventsOK
<1> QED BY <1>3, <1>4, <1>5, <1>6, <1>7 DEF Inv

LEMMA StutterInv ==
  ASSUME Inv, UNCHANGED vars
  PROVE  Inv'
<1>1. UNCHANGED <<pc, members, todo, ready_done, connecting, addresses, watchdog,
                  notified, self, events, fd, connections, registered, file, queue, level>>
  BY DEF vars, driver, tcp, notifying, table, kernel
<1>2. TypeOK'
  BY <1>1 DEF Inv, TypeOK
<1>3. Table' /\ Member' /\ Unvisited' /\ Closing' /\ Spare'
  BY <1>1 DEF Inv, Table, Member, Unvisited, Closing, Spare, Unmade
<1>4. QueueOK' /\ EventsOK' /\ events' \in Seq(EventType)
  BY <1>1 DEF Inv, QueueOK, Distinct, EventsOK
<1> QED BY <1>2, <1>3, <1>4 DEF Inv
-----------------------------------------------------------------------------
LEMMA InitInv == Init => Inv
<1> SUFFICES ASSUME Init PROVE Inv
  OBVIOUS
<1>1. events = <<>> /\ queue = <<>> /\ connections = <<>> /\ MaxEvents \in Nat /\ MaxAddr \in Nat
  BY PollerAssumption DEF Init
<1>2. connections \in [DOMAIN connections -> Socket] /\ DOMAIN connections = {}
  BY <1>1
<1>3. TypeOK
  <2>1. addresses \in [Socket -> 0..MaxAddr]
    BY <1>1 DEF Init
  <2>2. queue \in Seq(Fd) /\ Len(events) <= MaxEvents
    BY <1>1
  <2> QED BY <1>2, <2>1, <2>2, Roles DEF Init, TypeOK, Level
<1>4. events \in Seq(EventType) /\ QueueOK
  BY <1>1 DEF QueueOK, Distinct
<1>5. Table /\ Member /\ Unvisited /\ Spare
  BY <1>2, Roles DEF Init, Table, Member, Unvisited, Spare
<1>6. EventsOK /\ Closing
  BY DEF Init, EventsOK, Closing
<1> QED BY <1>3, <1>4, <1>5, <1>6 DEF Inv

LEMMA NextInv ==
  ASSUME Inv, [Next]_vars
  PROVE  Inv'
<1>1. CASE \E s \in Socket : Ready(s)
  BY <1>1, ReadyClientInv, ReadyListenerInv, TurnInv DEF Ready
<1>2. CASE \E s \in Socket : Handle(s)
  BY <1>2, AcceptInv, AcceptNullInv, NotifyConnectInv, ReadInv, HangUpInv DEF Handle
<1>3. CASE AllReady \/ Timeout \/ EndBatch \/ EndRefresh
  BY <1>3, TurnInv
<1>4. CASE Wait
  BY <1>4, WaitInv
<1>5. CASE SocketClosed \/ Return
  BY <1>5, ClosingInv
<1>6. CASE \E s \in Socket : Disconnect(s) \/ Stir(s) \/ Abort(s)
  BY <1>6, DisconnectInv, StirInv, AbortInv
<1>7. CASE Ended \/ UNCHANGED vars
  BY <1>7, StutterInv DEF Ended
<1> QED BY <1>1, <1>2, <1>3, <1>4, <1>5, <1>6, <1>7 DEF Next, Loop

(* Inv is an inductive invariant of the loop over the sockets.             *)
THEOREM PollerInvariance == Spec => []Inv
<1>1. Inv /\ [Next]_vars => Inv'
  BY NextInv
<1> QED BY InitInv, <1>1, PTL DEF Spec
-----------------------------------------------------------------------------
(* The variables keep their types, whatever opens, closes and is accepted. *)
THEOREM PollerTypeCorrect == Spec => []TypeOK
<1>1. Inv => TypeOK
  BY DEF Inv
<1> QED BY <1>1, PollerInvariance, PTL

(* The map of Epoll, the epoll instance and the descriptors of the sockets *)
(* agree in every state, and all belong to sockets of the driver (add(),   *)
(* remove() and close() of src/asio).                                      *)
THEOREM PollerRegistered == Spec => []Registered
<1>1. Inv => Registered
  <2> SUFFICES ASSUME Inv PROVE Registered
    OBVIOUS
  <2>1. TypeOK /\ Table /\ Member
    BY DEF Inv
  <2>2. ASSUME NEW f \in registered
        PROVE  connections[f] \in Socket /\ fd[connections[f]] = f /\ f # NoFd
    BY <2>1, <2>2, Numbers DEF TypeOK, Table
  <2>3. registered \subseteq {fd[s] : s \in Socket} \ {NoFd}
    BY <2>2
  <2>4. {fd[s] : s \in Socket} \ {NoFd} \subseteq registered
    BY <2>1 DEF Table
  <2>5. \A f \in registered : connections[f] \in members /\ fd[connections[f]] = f
    BY <2>1, <2>2 DEF Member
  <2> QED BY <2>1, <2>3, <2>4, <2>5 DEF Registered, Table
<1> QED BY <1>1, PollerInvariance, PTL

(* However many descriptors one epoll_wait() reports, and whatever the     *)
(* handlers of the first events do to them, each event is dispatched by    *)
(* wait() of src/asio/epoll.cc to the socket and the descriptor it is of.  *)
THEOREM PollerReachesItsFile == Spec => []ReachesItsFile
<1>1. Inv => ReachesItsFile
  <2> SUFFICES ASSUME Inv, pc = "batch", NEW i \in DOMAIN events
               PROVE  /\ events[i].fd \in DOMAIN connections
                      /\ connections[events[i].fd] = events[i].of
                      /\ file[events[i].of] = events[i].file
    BY DEF ReachesItsFile
  <2>1. i \in 1..Len(events)
    BY DEF Inv
  <2>2. events[i].of \in Socket /\ events[i].fd \in Fd
    BY <2>1, EventsTyped DEF Inv
  <2> QED BY <2>1, <2>2, Numbers DEF Inv, EventsOK, Table
<1> QED BY <1>1, PollerInvariance, PTL

(* A socket that closes itself in notify_transmission() is kept by its     *)
(* reference `self', and the ready pass of Driver::work() walks only over  *)
(* sockets the driver has.                                                 *)
THEOREM PollerNothingDangles == Spec => []NothingDangles
<1>1. Inv => NothingDangles
  BY DEF Inv, Closing, NothingDangles
<1> QED BY <1>1, PollerInvariance, PTL
=============================================================================
