-------------------------- MODULE ShoutcastProofs --------------------------
(***************************************************************************)
(* Theorems about the client of the stream and its processor, for every    *)
(* stream the server may send and every way it is cut into segments.       *)
(***************************************************************************)
EXTENDS Shoutcast, SequenceTheorems, FiniteSetTheorems, TLAPS

Phase == {"status", "header", "audio", "length", "meta"}

(* The numbers a byte of each kind may have.                               *)
Valid(b) ==
  /\ b.kind = "status" => b.n \in {OK, 404}
  /\ b.kind = "header" => b.n \in MetaInts \cup {-1}
  /\ b.kind = "length" => b.n \in 0..1
  /\ b.kind = "meta" => b.n \in 0..2

Bytes == {b \in [kind : Kind, n : Int] : Valid(b)}

(* A place in the stream: what comes next, how much of it is left, and     *)
(* the interval, the audio bytes and the title so far.                     *)
Position == [at : Phase, left : Int, interval : Nat, audio : Nat, title : 0..2]

(* The byte b can come at p, and is followed by what comes at q.           *)
Moves(p, b, q) ==
  /\ b.kind \in IF p.at = "header" THEN {"header", "blank"} ELSE {p.at}
  /\ b.kind = "audio" => b.n = p.audio + 1
  /\ b.kind = "meta" /\ p.left # Unit => b.n = 0
  /\ q.at = CASE b.kind \in {"status", "header"} -> "header"
              [] b.kind = "blank" -> "audio"
              [] b.kind = "audio" -> IF p.left = 1 THEN "length" ELSE "audio"
              [] b.kind = "length" -> IF b.n = 0 THEN "audio" ELSE "meta"
              [] b.kind = "meta" -> IF p.left = 1 THEN "audio" ELSE "meta"
  /\ q.left = CASE b.kind \in {"status", "header"} -> p.left
                [] b.kind = "blank" -> p.interval
                [] b.kind = "audio" -> IF p.interval = 0 THEN 0 ELSE p.left - 1
                [] b.kind = "length" -> IF b.n = 0 THEN p.interval ELSE Unit
                [] b.kind = "meta" -> IF p.left = 1 THEN p.interval ELSE p.left - 1
  /\ q.interval = IF b.kind = "header" /\ b.n # -1 THEN b.n ELSE p.interval
  /\ q.audio = IF b.kind = "audio" THEN p.audio + 1 ELSE p.audio
  /\ q.title = IF b.kind = "meta" /\ b.n # 0 THEN b.n ELSE p.title

(* The bytes s lead from p to q, by the places w.                          *)
Path(w, s, p, q) ==
  /\ w[0] = p /\ w[Len(s)] = q
  /\ \A i \in 1..Len(s) : Moves(w[i - 1], s[i], w[i])
  /\ \A i, j \in 0..Len(s) : i <= j => w[i].audio <= w[j].audio
  /\ \A n \in Int : p.audio < n /\ n <= q.audio =>
                      \E i \in 1..Len(s) : s[i] = Byte("audio", n)

Leads(s, p, q) == \E w \in [0..Len(s) -> Position] : Path(w, s, p, q)
-----------------------------------------------------------------------------
LEMMA LeadsNowhere ==
  ASSUME NEW p \in Position
  PROVE  /\ Leads(<<>>, p, p)
         /\ \A q \in Position : Leads(<<>>, p, q) => p = q
<1>1. Leads(<<>>, p, p)
  <2> DEFINE w == [i \in 0..0 |-> p]
  <2>1. w \in [0..0 -> Position] /\ w[0] = p
    OBVIOUS
  <2>2. p.audio \in Nat
    BY DEF Position
  <2> HIDE DEF w
  <2>3. Path(w, <<>>, p, p)
    BY <2>1, <2>2 DEF Path
  <2> QED BY <2>1, <2>3 DEF Leads
<1>2. ASSUME NEW q \in Position, Leads(<<>>, p, q) PROVE p = q
  BY <1>2 DEF Leads, Path
<1> QED BY <1>1, <1>2

(* The server sends one more byte.                                         *)
LEMMA LeadsOn ==
  ASSUME NEW s \in Seq(Bytes), NEW b \in Bytes,
         NEW p \in Position, NEW q \in Position, NEW r \in Position,
         Leads(s, p, q), Moves(q, b, r)
  PROVE  Leads(Append(s, b), p, r)
<1>1. PICK w \in [0..Len(s) -> Position] : Path(w, s, p, q)
  BY DEF Leads
<1> DEFINE t == Append(s, b)
           v == [i \in 0..Len(s) + 1 |-> IF i <= Len(s) THEN w[i] ELSE r]
<1>2. Len(s) \in Nat
  BY LenProperties
<1>11. /\ Len(t) = Len(s) + 1
      /\ \A i \in 1..Len(s) : t[i] = s[i]
      /\ t[Len(s) + 1] = b
  <2> HIDE DEF Bytes
  <2> QED BY AppendProperties
<1>3. /\ v \in [0..Len(s) + 1 -> Position]
      /\ \A i \in 0..Len(s) : v[i] = w[i]
      /\ v[Len(s) + 1] = r
  BY <1>2
<1>4. r.audio = IF b.kind = "audio" THEN q.audio + 1 ELSE q.audio
  BY DEF Moves
<1>5. /\ p.audio \in Nat /\ q.audio \in Nat /\ r.audio \in Nat
      /\ \A i \in 0..Len(s) : w[i].audio \in Nat
  BY <1>1 DEF Position
<1> HIDE DEF t, v
<1>6. v[0] = p /\ v[Len(t)] = r
  BY <1>1, <1>2, <1>3, <1>11 DEF Path
<1>7. ASSUME NEW i \in 1..Len(t) PROVE Moves(v[i - 1], t[i], v[i])
  <2>1. CASE i = Len(s) + 1
    <3>1. t[i] = b /\ v[i] = r
      BY <2>1, <1>3, <1>11
    <3>2. i - 1 = Len(s) /\ Len(s) \in 0..Len(s)
      BY <2>1, <1>2
    <3>3. v[i - 1] = q
      BY <3>2, <1>1, <1>3 DEF Path
    <3> QED BY <3>1, <3>3
  <2>2. CASE i \in 1..Len(s)
    <3>1. v[i - 1] = w[i - 1] /\ t[i] = s[i] /\ v[i] = w[i]
      BY <2>2, <1>2, <1>3, <1>11
    <3> QED BY <3>1, <2>2, <1>1 DEF Path
  <2> QED BY <2>1, <2>2, <1>2, <1>11
<1>8. ASSUME NEW i \in 0..Len(t), NEW j \in 0..Len(t), i <= j PROVE v[i].audio <= v[j].audio
  <2>1. CASE j <= Len(s)
    <3>1. i \in 0..Len(s) /\ j \in 0..Len(s)
      BY <2>1, <1>8, <1>2, <1>11
    <3>2. w[i].audio <= w[j].audio
      BY <3>1, <1>8, <1>1 DEF Path
    <3> QED BY <3>1, <3>2, <1>3
  <2>2. CASE j = Len(s) + 1
    <3>1. CASE i = j
      BY <3>1, <2>2, <1>3, <1>5
    <3>2. CASE i \in 0..Len(s)
      <4>1. w[i].audio <= w[Len(s)].audio
        BY <3>2, <1>1, <1>2 DEF Path
      <4>2. w[i].audio <= q.audio /\ v[i] = w[i] /\ v[j] = r
        BY <4>1, <3>2, <2>2, <1>1, <1>3 DEF Path
      <4> QED BY <4>2, <3>2, <1>4, <1>5
    <3> QED BY <3>1, <3>2, <2>2, <1>2, <1>11
  <2> QED BY <2>1, <2>2, <1>2, <1>11
<1>9. ASSUME NEW n \in Int, p.audio < n, n <= r.audio
      PROVE  \E i \in 1..Len(t) : t[i] = Byte("audio", n)
  <2>1. CASE n <= q.audio
    <3>1. PICK i \in 1..Len(s) : s[i] = Byte("audio", n)
      BY <2>1, <1>9, <1>1 DEF Path
    <3> QED BY <3>1, <1>2, <1>11
  <2>2. CASE n > q.audio
    <3>1. b.kind = "audio" /\ n = q.audio + 1
      BY <2>2, <1>9, <1>4, <1>5
    <3>2. b.n = q.audio + 1
      BY <3>1 DEF Moves
    <3>3. b = Byte("audio", n)
      BY <3>1, <3>2 DEF Bytes, Byte
    <3> QED BY <3>3, <1>2, <1>11
  <2> QED BY <2>1, <2>2, <1>5
<1>10. Path(v, t, p, r)
  BY <1>6, <1>7, <1>8, <1>9 DEF Path
<1> QED BY <1>10, <1>3, <1>11 DEF Leads, t

(* The client reads one byte.                                              *)
LEMMA LeadsFrom ==
  ASSUME NEW s \in Seq(Bytes), s # <<>>,
         NEW p \in Position, NEW q \in Position, Leads(s, p, q)
  PROVE  \E r \in Position :
           /\ Moves(p, Head(s), r)
           /\ Leads(Tail(s), r, q)
           /\ r.audio <= q.audio
<1>1. PICK w \in [0..Len(s) -> Position] : Path(w, s, p, q)
  BY DEF Leads
<1> DEFINE t == Tail(s)
           v == [i \in 0..Len(s) - 1 |-> w[i + 1]]
           r == w[1]
<1>2. Len(s) \in Nat \ {0}
  BY EmptySeq
<1>3. /\ Head(s) = s[1]
      /\ Len(t) = Len(s) - 1
      /\ \A i \in 1..Len(t) : t[i] = s[i + 1]
  <2> HIDE DEF Bytes
  <2> QED BY HeadTailProperties
<1>4. /\ v \in [0..Len(t) -> Position]
      /\ \A i \in 0..Len(t) : v[i] = w[i + 1] /\ i + 1 \in 0..Len(s)
      /\ r \in Position
  BY <1>2, <1>3
<1>5. \A i \in 0..Len(s) : w[i].audio \in Nat
  BY DEF Position
<1> HIDE DEF t, v, r
<1>6. Moves(p, Head(s), r)
  BY <1>1, <1>2, <1>3 DEF Path, r
<1>7. r.audio <= q.audio
  <2>1. 1 \in 0..Len(s) /\ Len(s) \in 0..Len(s) /\ 1 <= Len(s)
    BY <1>2
  <2>2. w[1].audio <= w[Len(s)].audio
    BY <2>1, <1>1 DEF Path
  <2> QED BY <2>2, <1>1 DEF Path, r
<1>8. v[0] = r /\ v[Len(t)] = q
  BY <1>1, <1>2, <1>3, <1>4 DEF Path, r
<1>9. ASSUME NEW i \in 1..Len(t) PROVE Moves(v[i - 1], t[i], v[i])
  <2>1. i + 1 \in 1..Len(s) /\ i \in 0..Len(t) /\ i - 1 \in 0..Len(t)
    BY <1>2, <1>3
  <2>2. v[i - 1] = w[i] /\ v[i] = w[i + 1] /\ t[i] = s[i + 1]
    BY <2>1, <1>3, <1>4
  <2>3. Moves(w[(i + 1) - 1], s[i + 1], w[i + 1])
    BY <2>1, <1>1 DEF Path
  <2> QED BY <2>2, <2>3
<1>10. ASSUME NEW i \in 0..Len(t), NEW j \in 0..Len(t), i <= j
       PROVE  v[i].audio <= v[j].audio
  BY <1>1, <1>4, <1>10 DEF Path
<1>11. ASSUME NEW n \in Int, r.audio < n, n <= q.audio
       PROVE  \E i \in 1..Len(t) : t[i] = Byte("audio", n)
  <2>1. p.audio \in Nat /\ r.audio = IF s[1].kind = "audio" THEN p.audio + 1 ELSE p.audio
    BY <1>3, <1>6 DEF Moves, Position
  <2>2. PICK i \in 1..Len(s) : s[i] = Byte("audio", n)
    BY <2>1, <1>1, <1>11 DEF Path
  <2>3. i # 1
    <3>1. SUFFICES ASSUME i = 1 PROVE FALSE
      OBVIOUS
    <3>2. s[1].kind = "audio" /\ s[1].n = n
      BY <3>1, <2>2 DEF Byte
    <3>3. n = p.audio + 1
      BY <3>2, <1>3, <1>6 DEF Moves
    <3> QED BY <3>2, <3>3, <2>1, <1>11
  <2>4. i - 1 \in 1..Len(t) /\ (i - 1) + 1 = i
    BY <2>3, <1>2, <1>3
  <2> QED BY <2>2, <2>4, <1>3
<1>12. Path(v, t, r, q)
  BY <1>8, <1>9, <1>10, <1>11 DEF Path
<1> QED BY <1>12, <1>4, <1>6, <1>7 DEF Leads, t

(* The audio bytes of s are those after p up to q.                         *)
LEMMA LeadsAudio ==
  ASSUME NEW s \in Seq(Bytes), NEW p \in Position, NEW q \in Position, Leads(s, p, q),
         NEW n \in Nat
  PROVE  /\ p.audio <= q.audio
         /\ (n <= q.audio /\ ~\E i \in DOMAIN s : s[i] = Byte("audio", n)) <=> n <= p.audio
<1>1. PICK w \in [0..Len(s) -> Position] : Path(w, s, p, q)
  BY DEF Leads
<1>2. Len(s) \in Nat /\ DOMAIN s = 1..Len(s)
  BY LenProperties
<1>3. p.audio \in Nat /\ q.audio \in Nat /\ \A i \in 0..Len(s) : w[i].audio \in Nat
  BY DEF Position
<1>4. p.audio <= q.audio
  <2>1. w[0].audio <= w[Len(s)].audio
    BY <1>1, <1>2 DEF Path
  <2> QED BY <2>1, <1>1 DEF Path
<1>5. ASSUME NEW i \in 1..Len(s), s[i] = Byte("audio", n) PROVE p.audio < n
  <2>1. i - 1 \in 0..Len(s) /\ 0 \in 0..Len(s) /\ 0 <= i - 1
    BY <1>2
  <2>2. w[0].audio <= w[i - 1].audio
    BY <2>1, <1>1 DEF Path
  <2>3. s[i].kind = "audio" /\ s[i].n = n
    BY <1>5 DEF Byte
  <2>4. n = w[i - 1].audio + 1
    BY <2>3, <1>1 DEF Path, Moves
  <2> QED BY <2>1, <2>2, <2>4, <1>1, <1>3 DEF Path
<1>6. ASSUME p.audio < n, n <= q.audio PROVE \E i \in 1..Len(s) : s[i] = Byte("audio", n)
  BY <1>6, <1>1 DEF Path
<1> QED BY <1>2, <1>3, <1>4, <1>5, <1>6
-----------------------------------------------------------------------------
(* Multiples, and what is left of a number between two of them.            *)
Multiple(d, m) == \E k \in Nat : d = k * m

LEMMA MultipleOfAny == ASSUME NEW m \in Nat PROVE Multiple(0, m)
<1>1. 0 = 0 * m
  OBVIOUS
<1> QED BY <1>1 DEF Multiple

LEMMA MultipleNext ==
  ASSUME NEW m \in Nat, NEW d \in Nat, Multiple(d, m)
  PROVE  Multiple(d + m, m)
<1>1. PICK k \in Nat : d = k * m
  BY DEF Multiple
<1>2. d + m = (k + 1) * m
  BY <1>1
<1> QED BY <1>2 DEF Multiple

LEMMA MultipleRest ==
  ASSUME NEW m \in Nat \ {0}, NEW d \in Nat, Multiple(d, m), NEW r \in 0..m - 1
  PROVE  (d + r) % m = r
<1>1. PICK k \in Nat : d = k * m
  BY DEF Multiple
<1> QED BY <1>1

(* The last byte of the chunk of n is among the first d + r, with d a      *)
(* number of whole chunks, if n is among the first d.                      *)
LEMMA ChunkEnd ==
  ASSUME NEW m \in Nat \ {0}, NEW d \in Nat, Multiple(d, m), NEW r \in 0..m - 1,
         NEW n \in Nat
  PROVE  (n + ((-n) % m) <= d + r) <=> n <= d
<1>1. PICK k \in Nat : d = k * m
  BY DEF Multiple
<1> DEFINE s == (-n) % m
           e == -((-n) \div m)
<1>2. s \in 0..m - 1 /\ e \in Int /\ n + s = e * m
  OBVIOUS
<1> HIDE DEF s, e
<1>3. ASSUME n <= d PROVE n + s <= d + r
  <2>1. CASE e <= k
    <3>1. e * m <= k * m
      BY <2>1, <1>2
    <3> QED BY <3>1, <1>1, <1>2
  <2>2. CASE e >= k + 1
    <3>1. e * m >= (k + 1) * m
      BY <2>2, <1>2
    <3>2. (k + 1) * m = k * m + m
      OBVIOUS
    <3> QED BY <3>1, <3>2, <1>1, <1>2, <1>3
  <2> QED BY <2>1, <2>2, <1>2
<1>4. ASSUME n + s <= d + r PROVE n <= d
  <2>1. CASE e <= k
    <3>1. e * m <= k * m
      BY <2>1, <1>2
    <3> QED BY <3>1, <1>1, <1>2
  <2>2. CASE e >= k + 1
    <3>1. e * m >= (k + 1) * m
      BY <2>2, <1>2
    <3>2. (k + 1) * m = k * m + m
      OBVIOUS
    <3> QED BY <3>1, <3>2, <1>1, <1>2, <1>4
  <2> QED BY <2>1, <2>2, <1>2
<1> QED BY <1>3, <1>4 DEF s
-----------------------------------------------------------------------------
Memory == 1..Segment + 2
Info == [kind : Phase \cup {"audio_only"}, size : Nat, got : Seq(Int)]

(* The types of the variables.                                             *)
Shape ==
  /\ pc \in {"start", "idle", "loop", "assertion"}
  /\ read_buffer \in Seq(Bytes) /\ net \in Seq(Bytes)
  /\ stream \in BOOLEAN /\ paused \in BOOLEAN
  /\ status \in {-1, OK, 404}
  /\ header \in MetaInts \cup {-1} /\ metaint \in MetaInts \cup {0, Default}
  /\ title \in 0..2 /\ titles \in 0..2
  /\ written \in Seq(1..MaxAudio) /\ dropped \subseteq 1..MaxAudio
  /\ server \in Phase /\ sending \in Int /\ interval \in MetaInts \cup {0}
  /\ audio \in 0..MaxAudio

(* The task objects, and who holds them.  An action that runs has read a   *)
(* byte at least, so that those that run and the bytes still to be read    *)
(* are not more than a segment: there is memory for the next task.         *)
Tasks ==
  /\ DOMAIN objects \subseteq Memory
  /\ objects \in [DOMAIN objects -> Info]
  /\ \A o \in DOMAIN objects : Len(objects[o].got) <= objects[o].size
  /\ stack \in Seq(Memory)
  /\ TasksOwned
  /\ stream => DOMAIN objects = (ToSet(stack) \cup {task}) \ {0}
  /\ pc \in {"start", "idle"} => stack = <<>>
  /\ pc \in {"loop", "assertion"} => stream
  /\ Len(net) <= Segment
  /\ task # 0 => Len(stack) + Len(read_buffer) <= Segment
  /\ task # 0 /\ pc = "idle" => read_buffer = <<>>

(* Nothing has happened before the connection.                             *)
Fresh ==
  pc = "start" =>
    /\ stream /\ task = 0 /\ objects = <<>> /\ read_buffer = <<>> /\ net = <<>>
    /\ status = -1 /\ header = -1 /\ title = 0 /\ dropped = {}
    /\ server = "status" /\ sending = 0 /\ interval = 0 /\ audio = 0 /\ titles = 0

(* The client reads a stream.                                              *)
Reading == stream /\ task # 0 /\ pc # "assertion"

ChunkSize == IF header = -1 THEN Default ELSE header

(* What the current task collects, and what the client knows by then.      *)
Course ==
  /\ status # OK => metaint = 0
  /\ stream /\ task = 0 /\ pc # "start" => status = 404
  /\ Reading =>
       /\ Len(Current.got) < Current.size
       /\ Current.kind = "status" => header = -1
       /\ Current.kind \in {"audio", "length", "meta"} => header # -1
       /\ Current.kind = "audio_only" => header = -1
       /\ Current.size = CASE Current.kind \in {"status", "header", "length"} -> 1
                           [] Current.kind \in {"audio", "audio_only"} -> metaint
                           [] Current.kind = "meta" -> Unit
       /\ metaint = IF Current.kind \in {"status", "header"} THEN 0 ELSE ChunkSize
       /\ Current.kind \notin {"status", "header"} => metaint > 0
       /\ status = IF Current.kind = "status" THEN -1 ELSE OK

(* Standard output has whole chunks.                                       *)
Output == Multiple(Len(written), metaint) /\ WholeChunks
-----------------------------------------------------------------------------
Sound == {"audio", "audio_only"}

(* Where the client is when it has written or dropped d audio bytes, and   *)
(* where the server is.                                                    *)
Place(d) ==
  [at |-> IF Current.kind = "audio_only" THEN "audio" ELSE Current.kind,
   left |-> IF Current.kind \in {"audio", "meta"}
              THEN Current.size - Len(Current.got) ELSE 0,
   interval |-> IF header = -1 THEN 0 ELSE header,
   audio |-> IF Current.kind \in Sound THEN d + Len(Current.got) ELSE d,
   title |-> IF Current.kind = "meta" /\ Current.got # <<>>
               THEN Title(Current.got) ELSE title]

Source ==
  [at |-> server, left |-> sending, interval |-> interval, audio |-> audio,
   title |-> titles]

(* The client has written or dropped the first d audio bytes, collects     *)
(* those that follow, and what is on its way leads it to where the server  *)
(* is: this is why it never mixes up what the bytes mean.                  *)
Progress(d) ==
  /\ Multiple(d, metaint)
  /\ ToSet(written) \cup dropped = 1..d
  /\ Current.kind \in Sound => \A i \in 1..Len(Current.got) : Current.got[i] = d + i
  /\ Current.kind = "meta" => \A i \in 1..Len(Current.got) : Current.got[i] \in 0..2
  /\ Place(d) \in Position
  /\ Leads(read_buffer \o net, Place(d), Source)

Progressing == Reading => \E d \in Nat : Progress(d)

Inv == Shape /\ Tasks /\ Fresh /\ Course /\ Output /\ Progressing
-----------------------------------------------------------------------------
LEMMA Sizes ==
  /\ MetaInts \subseteq Nat /\ -1 \notin MetaInts
  /\ Default \in Nat \ {0} /\ Unit \in Nat \ {0} /\ Segment \in Nat \ {0}
  /\ MaxAudio \in Nat
BY StreamAssumption

LEMMA SourceIsPosition == ASSUME Shape PROVE Source \in Position
BY Sizes DEF Shape, Source, Position

LEMMA ByteValid ==
  ASSUME NEW k \in Kind, NEW n \in Int, Valid(Byte(k, n))
  PROVE  Byte(k, n) \in Bytes /\ Byte(k, n).kind = k /\ Byte(k, n).n = n
BY DEF Byte, Bytes
LEMMA PendingSent ==
  ASSUME NEW s \in Seq(Bytes), NEW t \in Seq(Bytes), NEW b \in Bytes
  PROVE  /\ Append(t, b) \in Seq(Bytes)
         /\ s \o t \in Seq(Bytes)
         /\ s \o Append(t, b) = Append(s \o t, b)
<1> HIDE DEF Bytes
<1>1. Append(t, b) = t \o <<b>> /\ Append(t, b) \in Seq(Bytes)
  BY AppendIsConcat, AppendProperties
<1>2. s \o t \in Seq(Bytes)
  BY ConcatProperties
<1>3. <<b>> \in Seq(Bytes)
  OBVIOUS
<1>4. Append(s \o t, b) = (s \o t) \o <<b>>
  BY <1>2, AppendIsConcat
<1>5. (s \o t) \o <<b>> = s \o (t \o <<b>>)
  BY <1>3, ConcatAssociative
<1> QED BY <1>1, <1>2, <1>4, <1>5

LEMMA PendingRead ==
  ASSUME NEW s \in Seq(Bytes), NEW t \in Seq(Bytes), s # <<>>
  PROVE  /\ Head(s) \in Bytes /\ Tail(s) \in Seq(Bytes) /\ Len(Tail(s)) = Len(s) - 1
         /\ s \o t \in Seq(Bytes) /\ s \o t # <<>>
         /\ Head(s \o t) = Head(s) /\ Tail(s \o t) = Tail(s) \o t
<1> DEFINE u == s \o t
           v == Tail(s) \o t
<1> HIDE DEF Bytes
<1>1. Head(s) \in Bytes /\ Tail(s) \in Seq(Bytes) /\ Len(Tail(s)) = Len(s) - 1
      /\ \A i \in 1..Len(Tail(s)) : Tail(s)[i] = s[i + 1]
  BY HeadTailProperties
<1>2. Len(s) \in Nat \ {0} /\ Len(t) \in Nat
  BY EmptySeq
<1>3. /\ u \in Seq(Bytes) /\ Len(u) = Len(s) + Len(t)
      /\ \A i \in 1..Len(s) + Len(t) : u[i] = IF i <= Len(s) THEN s[i] ELSE t[i - Len(s)]
  BY ConcatProperties
<1>4. /\ v \in Seq(Bytes) /\ Len(v) = Len(s) - 1 + Len(t)
      /\ \A i \in 1..Len(v) : v[i] = IF i <= Len(s) - 1 THEN Tail(s)[i] ELSE t[i - (Len(s) - 1)]
  BY <1>1, ConcatProperties
<1> HIDE DEF u, v
<1>5. u # <<>>
  BY <1>2, <1>3, EmptySeq
<1>6. /\ Tail(u) \in Seq(Bytes) /\ Len(Tail(u)) = Len(u) - 1
      /\ \A i \in 1..Len(Tail(u)) : Tail(u)[i] = u[i + 1]
  BY <1>3, <1>5, HeadTailProperties
<1>7. Head(u) = Head(s)
  <2>1. Head(u) = u[1] /\ Head(s) = s[1]
    BY <1>3, <1>5
  <2> QED BY <2>1, <1>2, <1>3
<1>8. Tail(u) = v
  <2>1. ASSUME NEW i \in 1..Len(v) PROVE Tail(u)[i] = v[i]
    <3>1. i \in 1..Len(Tail(u)) /\ i + 1 \in 1..Len(s) + Len(t)
      BY <1>2, <1>3, <1>4, <1>6
    <3>2. CASE i <= Len(s) - 1
      <4>1. i \in 1..Len(Tail(s)) /\ i + 1 <= Len(s)
        BY <3>2, <1>1, <1>2
      <4> QED BY <3>1, <3>2, <4>1, <1>1, <1>3, <1>4, <1>6
    <3>3. CASE ~(i <= Len(s) - 1)
      <4>1. ~(i + 1 <= Len(s)) /\ (i + 1) - Len(s) = i - (Len(s) - 1)
        BY <3>3, <1>2
      <4> QED BY <3>1, <3>3, <4>1, <1>3, <1>4, <1>6
    <3> QED BY <3>2, <3>3
  <2>2. Len(Tail(u)) = Len(v)
    BY <1>2, <1>3, <1>4, <1>6
  <2> QED BY <2>1, <2>2, <1>4, <1>6, SeqEqual
<1> QED BY <1>1, <1>3, <1>5, <1>7, <1>8 DEF u, v

(* A byte of the server comes after those that are on their way.           *)
LEMMA Sent ==
  ASSUME Inv, NEW k \in Kind, NEW n \in Int, Valid(Byte(k, n)), pc # "start",
         SendByte(Byte(k, n)), Moves(Source, Byte(k, n), Source'),
         server' \in Phase, sending' \in Int, interval' \in MetaInts \cup {0},
         audio' \in 0..MaxAudio, titles' \in 0..2
  PROVE  Inv'
<1> DEFINE b == Byte(k, n)
<1>1. b \in Bytes
  BY ByteValid
<1>2. net' = Append(net, b) /\ Len(net) < Segment
  BY DEF SendByte
<1>3. UNCHANGED <<pc, read_buffer, stream, task, objects, stack, status, header, metaint,
                  title, paused, written, dropped>>
  BY DEF SendByte, client
<1>4. read_buffer \in Seq(Bytes) /\ net \in Seq(Bytes)
  BY DEF Inv, Shape
<1> HIDE DEF b
<1>5. Fresh'
  BY <1>3 DEF Fresh
<1>9. Shape'
  <2>1. net' \in Seq(Bytes)
    BY <1>1, <1>2, <1>4, PendingSent
  <2> QED BY <2>1, <1>3 DEF Inv, Shape
<1>6. Tasks'
  <2>1. Len(net') = Len(net) + 1 /\ Len(net) \in Nat
    <3> HIDE DEF Bytes
    <3> QED BY <1>1, <1>2, <1>4, AppendProperties, LenProperties
  <2>2. Len(net') <= Segment
    BY <2>1, <1>2, Sizes
  <2> QED BY <1>3, <2>2 DEF Inv, Tasks, TasksOwned
<1>7. Course' /\ Output'
  BY <1>3 DEF Inv, Course, Output, WholeChunks, Reading, ChunkSize, Current
<1>8. Progressing'
  <2>1. SUFFICES ASSUME Reading PROVE \E d \in Nat : Progress(d)'
    BY <1>3 DEF Progressing, Reading
  <2>2. PICK d \in Nat : Progress(d)
    BY <2>1 DEF Inv, Progressing
  <2>3. Place(d)' = Place(d)
    BY <1>3 DEF Place, Current, Title
  <2>4. Leads(Append(read_buffer \o net, b), Place(d), Source')
    <3>1. Source \in Position
      BY SourceIsPosition DEF Inv
    <3>2. Source' \in Position
      BY Sizes DEF Source, Position
    <3>3. read_buffer \o net \in Seq(Bytes)
      BY <1>1, <1>4, PendingSent
    <3> QED BY <3>1, <3>2, <3>3, <2>2, <1>1, LeadsOn DEF Progress, b
  <2>5. read_buffer' \o net' = Append(read_buffer \o net, b)
    BY <1>1, <1>2, <1>3, <1>4, PendingSent
  <2> QED BY <2>2, <2>3, <2>4, <2>5, <1>3 DEF Progress, Current
<1> QED BY <1>5, <1>6, <1>7, <1>8, <1>9 DEF Inv

LEMMA ServerStep ==
  ASSUME Inv, Server
  PROVE  Inv'
<1> USE Sizes
<1>1. /\ server \in Phase /\ sending \in Int /\ interval \in MetaInts \cup {0}
      /\ audio \in 0..MaxAudio /\ titles \in 0..2
      /\ pc = "start" => server = "status"
  BY DEF Inv, Shape, Fresh
<1>2. CASE SendStatus
  <2>1. PICK s \in {OK, 404} : SendByte(Byte("status", s))
    BY <1>2 DEF SendStatus
  <2> DEFINE b == Byte("status", s)
  <2>2. Valid(b) /\ "status" \in Kind /\ s \in Int /\ pc # "start"
    BY <1>2 DEF Valid, Byte, Kind, OK, SendStatus
  <2>3. server' \in Phase /\ UNCHANGED <<sending, interval, audio, titles>>
    BY <1>2 DEF SendStatus, Phase
  <2>4. Moves(Source, b, Source')
    BY <1>2 DEF SendStatus, Moves, Source, Byte
  <2> QED BY <1>1, <2>1, <2>2, <2>3, <2>4, Sent
<1>3. CASE SendHeader
  <2>1. PICK m \in MetaInts \cup {-1} :
               SendByte(Byte("header", m)) /\ interval' = IF m = -1 THEN interval ELSE m
    BY <1>3 DEF SendHeader
  <2> DEFINE b == Byte("header", m)
  <2>2. Valid(b) /\ "header" \in Kind /\ m \in Int /\ pc # "start"
    BY <1>1, <1>3 DEF Valid, Byte, Kind, SendHeader
  <2>3. server' \in Phase /\ interval' \in MetaInts \cup {0} /\ UNCHANGED <<sending, audio, titles>>
    BY <1>1, <1>3, <2>1 DEF SendHeader
  <2>4. Moves(Source, b, Source')
    BY <1>3, <2>1 DEF SendHeader, Moves, Source, Byte
  <2> QED BY <1>1, <2>1, <2>2, <2>3, <2>4, Sent
<1>4. CASE SendBlank
  <2> DEFINE b == Byte("blank", 0)
  <2>1. Valid(b) /\ "blank" \in Kind /\ pc # "start" /\ SendByte(b)
    BY <1>1, <1>4 DEF Valid, Byte, Kind, SendBlank
  <2>2. server' \in Phase /\ sending' \in Int /\ UNCHANGED <<interval, audio, titles>>
    BY <1>1, <1>4 DEF SendBlank, Phase
  <2>3. Moves(Source, b, Source')
    BY <1>4 DEF SendBlank, Moves, Source, Byte
  <2> QED BY <1>1, <2>1, <2>2, <2>3, Sent
<1>5. CASE SendAudio
  <2> DEFINE b == Byte("audio", audio + 1)
  <2>1. Valid(b) /\ "audio" \in Kind /\ audio + 1 \in Int /\ pc # "start" /\ SendByte(b)
    BY <1>1, <1>5 DEF Valid, Byte, Kind, SendAudio
  <2>2. /\ server' \in Phase /\ sending' \in Int /\ audio' \in 0..MaxAudio
        /\ UNCHANGED <<interval, titles>>
    BY <1>1, <1>5 DEF SendAudio, Phase
  <2>3. Moves(Source, b, Source')
    BY <1>5 DEF SendAudio, Moves, Source, Byte
  <2> QED BY <1>1, <2>1, <2>2, <2>3, Sent
<1>6. CASE SendLength
  <2>1. PICK n \in 0..1 :
          /\ SendByte(Byte("length", n))
          /\ server' = IF n = 0 THEN "audio" ELSE "meta"
          /\ sending' = IF n = 0 THEN interval ELSE n * Unit
    BY <1>6 DEF SendLength
  <2> DEFINE b == Byte("length", n)
  <2>2. Valid(b) /\ "length" \in Kind /\ n \in Int /\ pc # "start"
    BY <1>1, <1>6 DEF Valid, Byte, Kind, SendLength
  <2>3. sending' = IF n = 0 THEN interval ELSE Unit
    BY <2>1
  <2>4. server' \in Phase /\ sending' \in Int /\ UNCHANGED <<interval, audio, titles>>
    BY <1>1, <1>6, <2>1, <2>3 DEF SendLength, Phase
  <2>5. Moves(Source, b, Source')
    BY <1>6, <2>1, <2>3 DEF SendLength, Moves, Source, Byte
  <2> QED BY <1>1, <2>1, <2>2, <2>4, <2>5, Sent
<1>7. CASE SendMeta
  <2>1. PICK t \in IF sending = Unit THEN 0..2 ELSE {0} :
               SendByte(Byte("meta", t)) /\ titles' = IF t = 0 THEN titles ELSE t
    BY <1>7 DEF SendMeta
  <2> DEFINE b == Byte("meta", t)
  <2>2. Valid(b) /\ "meta" \in Kind /\ t \in 0..2 /\ pc # "start"
    BY <1>1, <1>7 DEF Valid, Byte, Kind, SendMeta
  <2>3. /\ server' \in Phase /\ sending' \in Int /\ titles' \in 0..2
        /\ UNCHANGED <<interval, audio>>
    BY <1>1, <1>7, <2>1, <2>2 DEF SendMeta, Phase
  <2>4. Moves(Source, b, Source')
    BY <1>7, <2>1, <2>2 DEF SendMeta, Moves, Source, Byte
  <2> QED BY <1>1, <2>1, <2>2, <2>3, <2>4, Sent
<1> QED BY <1>2, <1>3, <1>4, <1>5, <1>6, <1>7 DEF Server
-----------------------------------------------------------------------------
(* There is memory for one more task while fewer than a segment run.       *)
LEMMA FreeExists ==
  ASSUME stack \in Seq(Memory), Len(stack) < Segment,
         DOMAIN objects \subseteq ToSet(stack) \cup {task}
  PROVE  Free \in Memory /\ Free \notin DOMAIN objects
<1>1. Len(stack) \in Nat /\ DOMAIN stack = 1..Len(stack)
  BY LenProperties
<1> DEFINE n == Len(stack) + 1
           f == [i \in 1..n |-> IF i <= Len(stack) THEN stack[i] ELSE task]
           T == ToSet(stack) \cup {task}
<1>2. n \in Nat /\ Len(stack) = n - 1
  BY <1>1
<1>3. f \in Surjection(1..n, T)
  <2>1. f \in [1..n -> T]
    BY <1>1 DEF ToSet
  <2>2. ASSUME NEW x \in T PROVE \E i \in 1..n : f[i] = x
    <3>1. CASE x = task
      <4>1. n \in 1..n /\ f[n] = task
        BY <1>1
      <4> QED BY <4>1, <3>1
    <3>2. CASE x \in ToSet(stack)
      <4>1. PICK i \in 1..Len(stack) : stack[i] = x
        BY <3>2, <1>1 DEF ToSet
      <4>2. i \in 1..n /\ f[i] = x
        BY <4>1, <1>1
      <4> QED BY <4>2
    <3> QED BY <3>1, <3>2
  <2> QED BY <2>1, <2>2 DEF Surjection
<1>4. IsFiniteSet(1..n) /\ Cardinality(1..n) = n
  <2>1. 1 \in Int /\ n \in Int /\ ~(1 > n) /\ n - 1 + 1 = n
    BY <1>1
  <2> HIDE DEF n
  <2> QED BY ONLY <2>1, FS_Interval
<1>5. IsFiniteSet(T) /\ Cardinality(T) <= n
  <2> HIDE DEF f, T, n
  <2> QED BY <1>3, <1>4, FS_Surjection
<1>6. IsFiniteSet(Memory) /\ Cardinality(Memory) = Segment + 2
  <2>1. 1 \in Int /\ Segment + 2 \in Int /\ ~(1 > Segment + 2) /\ (Segment + 2) - 1 + 1 = Segment + 2
    BY Sizes
  <2> DEFINE z == Segment + 2
  <2>2. IsFiniteSet(1..z) /\ Cardinality(1..z) = z
    <3> HIDE DEF z
    <3> QED BY ONLY <2>1, FS_Interval DEF z
  <2> QED BY <2>2 DEF Memory
<1>7. ~(Memory \subseteq DOMAIN objects)
  <2>1. SUFFICES ASSUME Memory \subseteq T PROVE FALSE
    OBVIOUS
  <2>2. Cardinality(Memory) <= Cardinality(T)
    <3> HIDE DEF T, Memory
    <3> QED BY <2>1, <1>5, FS_Subset
  <2>3. Cardinality(T) \in Nat
    <3> HIDE DEF T
    <3> QED BY <1>5, FS_CardinalityType
  <2> HIDE DEF T
  <2> QED BY <2>2, <2>3, <1>1, <1>5, <1>6, Sizes
<1>8. \E o \in Memory : o \notin DOMAIN objects
  BY <1>7
<1> QED BY <1>8 DEF Free, Memory

(* What the processor has when it goes on with a byte.                     *)
LEMMA NextByte ==
  ASSUME Inv, pc = "loop", MoreToDo
  PROVE  /\ Reading
         /\ read_buffer # <<>> /\ read_buffer \in Seq(Bytes) /\ net \in Seq(Bytes)
         /\ Head(read_buffer) \in Bytes /\ Tail(read_buffer) \in Seq(Bytes)
         /\ Len(read_buffer) \in Nat \ {0} /\ Len(Tail(read_buffer)) = Len(read_buffer) - 1
         /\ task \in DOMAIN objects /\ task \in Memory /\ Current \in Info
         /\ Len(Current.got) \in Nat /\ Collected \in Seq(Int)
         /\ Len(Collected) = Len(Current.got) + 1
         /\ \A i \in 1..Len(Current.got) : Collected[i] = Current.got[i]
         /\ Collected[Len(Current.got) + 1] = Head(read_buffer).n
<1>1. task # 0 /\ read_buffer # <<>> /\ read_buffer \in Seq(Bytes) /\ net \in Seq(Bytes)
  BY DEF MoreToDo, Inv, Shape
<1>2. Head(read_buffer) \in Bytes /\ Tail(read_buffer) \in Seq(Bytes)
      /\ Len(Tail(read_buffer)) = Len(read_buffer) - 1
  BY <1>1, PendingRead
<1>3. Len(read_buffer) \in Nat \ {0}
  <2> HIDE DEF Bytes
  <2> QED BY <1>1, EmptySeq
<1>4. Reading
  BY <1>1 DEF Reading, Inv, Tasks
<1>5. task \in DOMAIN objects /\ task \in Memory /\ Current \in Info
  BY <1>1 DEF Inv, Tasks, TasksOwned, Current
<1>6. Current.got \in Seq(Int)
  BY <1>5 DEF Info
<1>7. Head(read_buffer).n \in Int
  BY <1>2 DEF Bytes
<1> DEFINE g == Current.got
           e == Head(read_buffer).n
<1>8. /\ Append(g, e) \in Seq(Int) /\ Len(Append(g, e)) = Len(g) + 1
      /\ \A i \in 1..Len(g) : Append(g, e)[i] = g[i]
      /\ Append(g, e)[Len(g) + 1] = e
      /\ Len(g) \in Nat
  <2>1. g \in Seq(Int) /\ e \in Int
    BY <1>6, <1>7
  <2> HIDE DEF g, e
  <2> QED BY ONLY <2>1, AppendProperties, LenProperties
<1> QED BY <1>1, <1>2, <1>3, <1>4, <1>5, <1>8 DEF Collected

(* The task whose action runs is pushed, and t is the current one.         *)
LEMMA Continued ==
  ASSUME Inv, pc = "loop", MoreToDo, NEW t \in Info, Len(t.got) <= t.size, Continue(t)
  PROVE  /\ Tasks' /\ Fresh' /\ Current' = t /\ Reading' /\ task' # 0
         /\ read_buffer' = Tail(read_buffer) /\ net' = net
         /\ read_buffer' \in Seq(Bytes)
<1>1. /\ task \in DOMAIN objects /\ task \in Memory /\ Reading
      /\ Len(read_buffer) \in Nat \ {0} /\ Len(Tail(read_buffer)) = Len(read_buffer) - 1
      /\ Tail(read_buffer) \in Seq(Bytes)
  BY NextByte
<1>2. /\ stack \in Seq(Memory) /\ DOMAIN objects = ToSet(stack) \cup {task} /\ stream
      /\ DOMAIN objects \subseteq Memory /\ objects \in [DOMAIN objects -> Info]
      /\ task \notin ToSet(stack) /\ \A i, j \in DOMAIN stack : i # j => stack[i] # stack[j]
      /\ Len(stack) + Len(read_buffer) <= Segment /\ 0 \notin Memory
  BY <1>1, Sizes DEF Inv, Tasks, TasksOwned, MoreToDo, Reading, Memory
<1>3. Len(stack) \in Nat /\ DOMAIN stack = 1..Len(stack)
  BY <1>2, LenProperties
<1>4. Free \in Memory /\ Free \notin DOMAIN objects
  <2>1. Len(stack) < Segment
    BY <1>1, <1>2, <1>3, Sizes
  <2> QED BY <2>1, <1>2, FreeExists
<1>5. /\ task' = Free /\ objects' = [o \in DOMAIN objects \cup {Free} |-> IF o = Free THEN t ELSE objects[o]]
      /\ read_buffer' = Tail(read_buffer) /\ stack' = <<task>> \o stack
      /\ UNCHANGED <<pc, net, stream>>
  BY DEF Continue, Receive, Kept
<1>6. /\ DOMAIN objects' = DOMAIN objects \cup {task'}
      /\ objects' \in [DOMAIN objects' -> Info]
      /\ objects'[task'] = t
      /\ \A o \in DOMAIN objects : objects'[o] = objects[o]
  BY <1>2, <1>4, <1>5
<1>7. /\ stack' \in Seq(Memory) /\ Len(stack') = Len(stack) + 1
      /\ stack'[1] = task
      /\ \A i \in 2..Len(stack) + 1 : stack'[i] = stack[i - 1]
  <2>1. <<task>> \in Seq(Memory) /\ Len(<<task>>) = 1 /\ <<task>>[1] = task
    BY <1>1
  <2> DEFINE o == <<task>>
  <2>2. /\ o \o stack \in Seq(Memory) /\ Len(o \o stack) = 1 + Len(stack)
        /\ \A i \in 1..1 + Len(stack) : (o \o stack)[i] = IF i <= 1 THEN o[i] ELSE stack[i - 1]
    <3> HIDE DEF o, Memory
    <3> QED BY <2>1, <1>2, ConcatProperties DEF o
  <2> HIDE DEF o, Memory
  <2> QED BY <2>1, <2>2, <1>3, <1>5 DEF o
<1>8. DOMAIN stack' = 1..Len(stack) + 1
  BY <1>7, LenProperties
<1>9. ToSet(stack') = DOMAIN objects
  <2>1. ToSet(stack') \subseteq DOMAIN objects
    <3>1. SUFFICES ASSUME NEW i \in 1..Len(stack) + 1 PROVE stack'[i] \in DOMAIN objects
      BY <1>8 DEF ToSet
    <3>2. CASE i = 1
      BY <3>2, <1>1, <1>7
    <3>3. CASE i # 1
      <4>1. i \in 2..Len(stack) + 1 /\ i - 1 \in DOMAIN stack
        BY <3>3, <1>3
      <4>2. stack[i - 1] \in ToSet(stack)
        BY <4>1 DEF ToSet
      <4> QED BY <4>1, <4>2, <1>2, <1>7
    <3> QED BY <3>2, <3>3
  <2>2. DOMAIN objects \subseteq ToSet(stack')
    <3>1. SUFFICES ASSUME NEW x \in DOMAIN objects PROVE \E i \in 1..Len(stack) + 1 : stack'[i] = x
      BY <1>8 DEF ToSet
    <3>2. CASE x = task
      BY <3>2, <1>3, <1>7
    <3>3. CASE x \in ToSet(stack)
      <4>1. PICK i \in 1..Len(stack) : stack[i] = x
        BY <3>3, <1>3 DEF ToSet
      <4>2. i + 1 \in 2..Len(stack) + 1 /\ (i + 1) - 1 = i
        BY <1>3
      <4>3. stack'[i + 1] = x
        BY <4>1, <4>2, <1>7
      <4> QED BY <4>2, <4>3
    <3> QED BY <3>2, <3>3, <1>2
  <2> QED BY <2>1, <2>2
<1>10. ASSUME NEW i \in 1..Len(stack) + 1, NEW j \in 1..Len(stack) + 1, i # j
       PROVE  stack'[i] # stack'[j]
  <2>1. ASSUME NEW k \in 1..Len(stack) + 1, k # 1
        PROVE  stack'[k] = stack[k - 1] /\ k - 1 \in DOMAIN stack /\ stack[k - 1] # task
    <3>1. k \in 2..Len(stack) + 1 /\ k - 1 \in DOMAIN stack
      BY <2>1, <1>3
    <3>2. stack[k - 1] \in ToSet(stack)
      BY <3>1 DEF ToSet
    <3> QED BY <3>1, <3>2, <1>2, <1>7
  <2>2. CASE i = 1
    BY <2>1, <2>2, <1>7, <1>10
  <2>3. CASE j = 1
    BY <2>1, <2>3, <1>7, <1>10
  <2>4. CASE i # 1 /\ j # 1
    <3>1. i - 1 # j - 1
      BY <1>10, <1>3
    <3> QED BY <3>1, <2>1, <2>4, <1>2
  <2> QED BY <2>2, <2>3, <2>4
<1>11. \A o \in DOMAIN objects' : Len(objects'[o].got) <= objects'[o].size
  <2>1. \A o \in DOMAIN objects : Len(objects[o].got) <= objects[o].size
    BY DEF Inv, Tasks
  <2> QED BY <2>1, <1>5, <1>6
<1>12. TasksOwned'
  BY <1>2, <1>4, <1>5, <1>6, <1>8, <1>9, <1>10 DEF TasksOwned
<1>13. task' # 0
  BY <1>2, <1>4, <1>5
<1>14. Len(stack') + Len(read_buffer') <= Segment /\ Len(net') <= Segment
  BY <1>1, <1>2, <1>3, <1>5, <1>7, Sizes DEF Inv, Tasks
<1>15. Tasks'
  <2>1. DOMAIN objects' \subseteq Memory
    BY <1>2, <1>4, <1>5, <1>6
  <2>2. DOMAIN objects' = (ToSet(stack') \cup {task'}) \ {0}
    BY <1>2, <1>6, <1>9, <1>13
  <2> QED BY <1>2, <1>5, <1>6, <1>7, <1>11, <1>12, <1>14, <2>1, <2>2 DEF Tasks
<1> QED BY <1>1, <1>2, <1>5, <1>6, <1>13, <1>15 DEF Fresh, Reading, Current
-----------------------------------------------------------------------------
(* The next byte is one that can come where the client is.                 *)
LEMMA ReadAhead ==
  ASSUME Inv, pc = "loop", MoreToDo, NEW d \in Nat, Progress(d)
  PROVE  \E r \in Position :
           /\ Moves(Place(d), Head(read_buffer), r)
           /\ Leads(Tail(read_buffer) \o net, r, Source)
           /\ r.audio <= audio
<1>1. read_buffer # <<>> /\ read_buffer \in Seq(Bytes) /\ net \in Seq(Bytes)
  BY NextByte
<1>2. /\ read_buffer \o net \in Seq(Bytes) /\ read_buffer \o net # <<>>
      /\ Head(read_buffer \o net) = Head(read_buffer)
      /\ Tail(read_buffer \o net) = Tail(read_buffer) \o net
  BY <1>1, PendingRead
<1>3. Place(d) \in Position /\ Source \in Position /\ Leads(read_buffer \o net, Place(d), Source)
  BY SourceIsPosition DEF Progress, Inv
<1>4. Source.audio = audio
  BY DEF Source
<1> QED BY <1>2, <1>3, <1>4, LeadsFrom

(* The client has come to r.                                               *)
LEMMA Advanced ==
  ASSUME UNCHANGED origin, read_buffer' = Tail(read_buffer), net' = net,
         NEW r \in Position, Leads(Tail(read_buffer) \o net, r, Source),
         NEW e \in Nat, Place(e)' = r, Multiple(e, metaint'),
         ToSet(written') \cup dropped' = 1..e,
         Current'.kind \in Sound => \A i \in 1..Len(Current'.got) : Current'.got[i] = e + i,
         Current'.kind = "meta" => \A i \in 1..Len(Current'.got) : Current'.got[i] \in 0..2
  PROVE  Progress(e)'
<1>1. Source' = Source
  BY DEF Source, origin
<1> QED BY <1>1 DEF Progress

LEMMA SamePosition ==
  ASSUME NEW p \in Position, NEW at, NEW left, NEW i, NEW a, NEW t,
         p.at = at, p.left = left, p.interval = i, p.audio = a, p.title = t
  PROVE  p = [at |-> at, left |-> left, interval |-> i, audio |-> a, title |-> t]
BY DEF Position

LEMMA NewTaskInfo ==
  ASSUME NEW k \in Phase \cup {"audio_only"}, NEW n \in Nat
  PROVE  /\ NewTask(k, n) \in Info /\ Len(NewTask(k, n).got) <= NewTask(k, n).size
         /\ NewTask(k, n).kind = k /\ NewTask(k, n).size = n
         /\ NewTask(k, n).got = <<>> /\ Len(NewTask(k, n).got) = 0
<1> DEFINE e == <<>>
<1>1. e \in Seq(Int) /\ Len(e) = 0
  OBVIOUS
<1> HIDE DEF e
<1>2. NewTask(k, n) = [kind |-> k, size |-> n, got |-> e]
  BY DEF NewTask, e
<1>3. NewTask(k, n) \in Info
  BY <1>1, <1>2 DEF Info
<1>4. /\ NewTask(k, n).kind = k /\ NewTask(k, n).size = n /\ NewTask(k, n).got = e
  BY <1>2
<1> QED BY <1>1, <1>3, <1>4 DEF e

(* The numbers of the header and of the chunks.                            *)
LEMMA Numbers ==
  ASSUME Inv
  PROVE  /\ header \in Int
         /\ header # -1 => header \in Nat
         /\ metaint \in Nat /\ title \in 0..2 /\ audio \in Nat
BY Sizes DEF Inv, Shape

LEMMA CollectStep ==
  ASSUME Inv, Collect
  PROVE  Inv'
<1> DEFINE b == Head(read_buffer)
           k == Current.kind
           g == Current.got
           size == Current.size
           c == Collected
<1>1. /\ pc = "loop" /\ MoreToDo /\ ~Complete
      /\ read_buffer' = Tail(read_buffer)
      /\ objects' = With(task, [Current EXCEPT !.got = Collected])
      /\ UNCHANGED <<pc, net, stream, task, stack, status, header, metaint, title, paused,
                     written, dropped, origin>>
  BY DEF Collect, Receive
<1>2. /\ Reading /\ b \in Bytes /\ Tail(read_buffer) \in Seq(Bytes)
      /\ Len(Tail(read_buffer)) = Len(read_buffer) - 1 /\ Len(read_buffer) \in Nat \ {0}
      /\ task \in DOMAIN objects /\ Current \in Info
  BY <1>1, NextByte
<1>3. /\ Len(g) \in Nat /\ c \in Seq(Int) /\ Len(c) = Len(g) + 1
      /\ \A i \in 1..Len(g) : c[i] = g[i]
      /\ c[Len(g) + 1] = b.n
  BY <1>1, NextByte
<1>4. k \in Phase \cup {"audio_only"} /\ size \in Nat /\ g \in Seq(Int)
  BY <1>2 DEF Info
<1>5. /\ DOMAIN objects' = DOMAIN objects
      /\ Current' = [Current EXCEPT !.got = Collected]
      /\ \A o \in DOMAIN objects : o # task => objects'[o] = objects[o]
      /\ objects'[task] = Current'
  BY <1>1, <1>2 DEF With, Current
<1>6. /\ Current' \in Info /\ Current'.kind = k /\ Current'.size = size /\ Current'.got = c
  BY <1>2, <1>3, <1>5 DEF Info
<1>7. Len(g) < size
  BY <1>2 DEF Inv, Course
<1>8. Len(c) # size
  BY <1>1 DEF Complete
<1> HIDE DEF b, k, g, size, c
<1>9. Len(c) < size /\ size - Len(g) # 1 /\ size - Len(c) = size - Len(g) - 1
  BY <1>3, <1>4, <1>7, <1>8
<1>10. Shape'
  BY <1>1, <1>2 DEF Inv, Shape, origin
<1>11. Tasks'
  <2>1. ASSUME NEW o \in DOMAIN objects'
        PROVE  objects'[o] \in Info /\ Len(objects'[o].got) <= objects'[o].size
    <3>1. CASE o = task
      BY <3>1, <1>3, <1>4, <1>5, <1>6, <1>9
    <3>2. CASE o # task
      BY <3>2, <1>5 DEF Inv, Tasks
    <3> QED BY <3>1, <3>2
  <2>2. objects' \in [DOMAIN objects' -> Info]
    BY <2>1, <1>1 DEF With
  <2>3. task # 0 => Len(stack) + Len(read_buffer') <= Segment
    <3>1. Len(stack) \in Nat
      BY LenProperties DEF Inv, Tasks
    <3> QED BY <3>1, <1>1, <1>2, Sizes DEF Inv, Tasks
  <2> QED BY <2>1, <2>2, <2>3, <1>1, <1>5 DEF Inv, Tasks, TasksOwned
<1>12. Fresh' /\ Output'
  BY <1>1 DEF Fresh, Inv, Output, WholeChunks
<1>13. Course'
  BY <1>1, <1>2, <1>6, <1>9 DEF Inv, Course, Reading, ChunkSize, k, size
<1>14. Progressing'
  <2>1. PICK d \in Nat : Progress(d)
    BY <1>2 DEF Inv, Progressing
  <2>2. PICK r \in Position : /\ Moves(Place(d), b, r)
                              /\ Leads(Tail(read_buffer) \o net, r, Source)
    BY <2>1, <1>1, ReadAhead DEF b
  <2> DEFINE p == Place(d)
             i == IF header = -1 THEN 0 ELSE header
  <2>3. /\ p.at = IF k = "audio_only" THEN "audio" ELSE k
        /\ p.left = IF k \in {"audio", "meta"} THEN size - Len(g) ELSE 0
        /\ p.interval = i
        /\ p.audio = IF k \in Sound THEN d + Len(g) ELSE d
        /\ p.title = IF k = "meta" /\ g # <<>> THEN Title(g) ELSE title
    BY DEF Place, k, size, g
  <2>4. k \in {"audio", "audio_only", "meta"}
    <3>1. k \in {"status", "header", "length"} => size = 1
      BY <1>2 DEF Inv, Course, k, size
    <3> QED BY <3>1, <1>3, <1>4, <1>9, <1>7 DEF Phase
  <2>5. g = <<>> <=> Len(g) = 0
    BY <1>4, EmptySeq
  <2> HIDE DEF p, i
  <2>6. CASE k \in Sound
    <3>1. b.kind = "audio" /\ b.n = d + Len(g) + 1
      BY <2>2, <2>3, <2>6 DEF Moves, Sound, p
    <3>2. \A j \in 1..Len(c) : c[j] = d + j
      <4>1. \A j \in 1..Len(g) : g[j] = d + j
        BY <2>1, <2>6 DEF Progress, g, k
      <4>2. Len(c) = Len(g) + 1 /\ c[Len(g) + 1] = d + Len(g) + 1
        BY <3>1, <1>3
      <4>3. ASSUME NEW j \in 1..Len(c) PROVE c[j] = d + j
        <5>1. CASE j = Len(g) + 1
          BY <5>1, <4>2, <1>3
        <5>2. CASE j \in 1..Len(g)
          BY <5>2, <4>1, <1>3
        <5> QED BY <5>1, <5>2, <4>2, <1>3
      <4> QED BY <4>3
    <3>3. k = "audio" => i # 0
      BY <1>2, <1>3, <1>7, Numbers DEF Inv, Course, ChunkSize, k, size, i
    <3>4. k = "audio_only" => i = 0
      BY <1>2 DEF Inv, Course, k, i
    <3>5. Place(d)' = r
      <4> DEFINE left == IF k = "audio" THEN size - Len(c) ELSE 0
      <4>1. r.at = "audio"
        BY <3>1, <2>2, <2>3, <2>6, <1>9 DEF Moves, Sound, p
      <4>2. r.left = left
        BY <3>1, <3>3, <3>4, <2>2, <2>3, <2>6, <1>9 DEF Moves, Sound, p
      <4>3. r.interval = i /\ r.title = title
        BY <3>1, <2>2, <2>3, <2>6 DEF Moves, Sound, p
      <4>4. r.audio = d + Len(c)
        BY <3>1, <2>2, <2>3, <2>6, <1>3 DEF Moves, Sound, p
      <4>5. r = [at |-> "audio", left |-> left, interval |-> i,
                 audio |-> d + Len(c), title |-> title]
        BY <4>1, <4>2, <4>3, <4>4, SamePosition
      <4> QED BY <4>5, <2>6, <1>1, <1>6 DEF Place, Sound, i
    <3>6. Progress(d)'
      BY <3>2, <3>5, <2>1, <2>2, <2>6, <1>1, <1>6, Advanced DEF Progress, Sound
    <3> QED BY <3>6 DEF Progressing
  <2>7. CASE k = "meta"
    <3>1. b.kind = "meta" /\ b.n \in 0..2
      BY <2>2, <2>3, <2>7, <1>2 DEF Moves, Bytes, Valid, p
    <3>2. \A j \in 1..Len(c) : c[j] \in 0..2
      <4>1. \A j \in 1..Len(g) : g[j] \in 0..2
        BY <2>1, <2>7 DEF Progress, g, k
      <4> QED BY <4>1, <3>1, <1>3
    <3>3. size = Unit
      BY <2>7, <1>2 DEF Inv, Course, k, size
    <3>4. g # <<>> => b.n = 0
      BY <3>1, <3>3, <2>2, <2>3, <2>5, <2>7, <1>3, Sizes DEF Moves, p
    <3>5. Title(c) = IF b.n = 0 THEN p.title ELSE b.n
      <4>1. CASE g = <<>>
        BY <4>1, <2>3, <2>5, <1>3 DEF Title
      <4>2. CASE g # <<>>
        <5>1. c[1] = g[1]
          BY <4>2, <2>5, <1>3
        <5> QED BY <4>2, <5>1, <3>4, <2>3, <2>7 DEF Title
      <4> QED BY <4>1, <4>2
    <3>6. Place(d)' = r
      <4>1. /\ r.at = "meta" /\ r.left = size - Len(c)
        BY <3>1, <2>2, <2>3, <2>7, <1>9 DEF Moves, p
      <4>2. r.interval = i /\ r.audio = d /\ r.title = Title(c)
        BY <3>1, <3>5, <2>2, <2>3, <2>7 DEF Moves, Sound, p
      <4>3. c # <<>>
        BY <1>3
      <4>4. r = [at |-> "meta", left |-> size - Len(c), interval |-> i,
                 audio |-> d, title |-> Title(c)]
        BY <4>1, <4>2, SamePosition
      <4>5. Title(Current.got)' = Title(c)
        BY <1>1, <1>6 DEF Title
      <4> QED BY <4>3, <4>4, <4>5, <2>7, <1>1, <1>6 DEF Place, Sound, i
    <3>7. Progress(d)'
      BY <3>2, <3>6, <2>1, <2>2, <2>7, <1>1, <1>6, Advanced DEF Progress, Sound
    <3> QED BY <3>7 DEF Progressing
  <2> QED BY <2>4, <2>6, <2>7 DEF Sound
<1> QED BY <1>10, <1>11, <1>12, <1>13, <1>14 DEF Inv
-----------------------------------------------------------------------------
(* What an action finds: k is the kind of its task, which has collected    *)
(* all it asked for, d the audio bytes before it, and the client comes     *)
(* to r.                                                                   *)
Done(k, d, r) ==
  /\ Current.kind = k /\ Len(Collected) = Current.size /\ Current.size \in Nat \ {0}
  /\ d \in Nat /\ Progress(d)
  /\ r \in Position /\ r.audio <= audio
  /\ Leads(Tail(read_buffer) \o net, r, Source)
  /\ r.at = CASE k = "status" -> "header"
              [] k = "header" -> IF Head(read_buffer).kind = "header" THEN "header" ELSE "audio"
              [] k = "audio" -> "length"
              [] k = "audio_only" -> "audio"
              [] k = "length" -> IF Head(read_buffer).n = 0 THEN "audio" ELSE "meta"
              [] k = "meta" -> "audio"
  /\ r.left = CASE k = "length" -> IF Head(read_buffer).n = 0 THEN header ELSE Unit
                [] k = "header" -> IF Head(read_buffer).kind = "header" \/ header = -1
                                     THEN 0 ELSE header
                [] k = "meta" -> header
                [] OTHER -> 0
  /\ r.interval = IF k = "header" /\ Head(read_buffer).kind = "header" /\ Head(read_buffer).n # -1
                    THEN Head(read_buffer).n ELSE IF header = -1 THEN 0 ELSE header
  /\ r.audio = IF k \in Sound THEN d + Len(Collected) ELSE d
  /\ r.title = IF k = "meta" THEN Title(Collected) ELSE title

(* The byte it reads is one of its kind.                                   *)
Fits(k) ==
  LET b == Head(read_buffer)
  IN  /\ b \in Bytes /\ b.kind \in Expected(k)
      /\ Collected[Len(Collected)] = b.n
      /\ k \in {"status", "header", "length"} => Len(Collected) = 1 /\ Collected[1] = b.n

LEMMA ReadsFitting ==
  ASSUME Inv, pc = "loop", MoreToDo
  PROVE  Head(read_buffer).kind \in Expected(Current.kind)
<1>1. PICK d \in Nat : Progress(d)
  BY NextByte DEF Inv, Progressing
<1>2. PICK r \in Position : Moves(Place(d), Head(read_buffer), r)
  BY <1>1, ReadAhead
<1>3. Place(d).at = IF Current.kind = "audio_only" THEN "audio" ELSE Current.kind
  BY DEF Place
<1>4. Current.kind \in Phase \cup {"audio_only"}
  BY NextByte DEF Info
<1> QED BY <1>2, <1>3, <1>4 DEF Moves, Expected, Phase

LEMMA DoneBy ==
  ASSUME Inv, NEW k \in Phase \cup {"audio_only"}, Completes(k)
  PROVE  Fits(k) /\ \E d, r : Done(k, d, r)
<1> DEFINE b == Head(read_buffer)
           g == Current.got
           size == Current.size
           c == Collected
           i == IF header = -1 THEN 0 ELSE header
<1>1. pc = "loop" /\ MoreToDo /\ Len(c) = size /\ Current.kind = k
  BY DEF Completes, Complete
<1>2. Reading /\ b \in Bytes /\ Current \in Info
  BY <1>1, NextByte
<1>3. /\ Len(g) \in Nat /\ Len(c) = Len(g) + 1
      /\ \A j \in 1..Len(g) : c[j] = g[j]
      /\ c[Len(g) + 1] = b.n
  BY <1>1, NextByte
<1>4. size \in Nat /\ g \in Seq(Int)
  BY <1>2 DEF Info
<1>5. g = <<>> <=> Len(g) = 0
  BY <1>4, EmptySeq
<1>6. /\ k = "meta" => size = Unit
      /\ k \in {"status", "header", "length"} => size = 1
      /\ k = "status" => header = -1
      /\ k \in {"audio", "length", "meta"} => header # -1 /\ metaint = header
      /\ k = "audio" => size = metaint
      /\ k = "audio_only" => header = -1
  BY <1>1, <1>2 DEF Inv, Course, ChunkSize
<1>7. PICK d \in Nat : Progress(d)
  BY <1>2 DEF Inv, Progressing
<1>8. PICK r \in Position : /\ Moves(Place(d), b, r)
                            /\ Leads(Tail(read_buffer) \o net, r, Source)
                            /\ r.audio <= audio
  BY <1>1, <1>7, ReadAhead
<1> DEFINE p == Place(d)
<1>9. /\ p.at = IF k = "audio_only" THEN "audio" ELSE k
      /\ p.left = IF k \in {"audio", "meta"} THEN size - Len(g) ELSE 0
      /\ p.interval = i
      /\ p.audio = IF k \in Sound THEN d + Len(g) ELSE d
      /\ p.title = IF k = "meta" /\ g # <<>> THEN Title(g) ELSE title
  BY <1>1 DEF Place
<1>10. b.kind \in Expected(k)
  BY <1>1, ReadsFitting
<1>11. b.n \in Int /\ Valid(b)
  BY <1>2 DEF Bytes
<1>12. header \in Int /\ (header # -1 => header \in Nat) /\ title \in 0..2
  BY Numbers
<1>13. size - Len(g) = 1 /\ size \in Nat \ {0}
  BY <1>1, <1>3, <1>4
<1> HIDE DEF b, g, size, c, p, i
<1>14. /\ c[Len(c)] = b.n
       /\ k \in {"status", "header", "length"} => Len(c) = 1 /\ c[1] = b.n
  BY <1>1, <1>3, <1>6, <1>13
<1>15. Fits(k)
  BY <1>2, <1>10, <1>14 DEF Fits, b, c
<1>16. r.at = CASE k = "status" -> "header"
              [] k = "header" -> IF b.kind = "header" THEN "header" ELSE "audio"
              [] k = "audio" -> "length"
              [] k = "audio_only" -> "audio"
              [] k = "length" -> IF b.n = 0 THEN "audio" ELSE "meta"
              [] k = "meta" -> "audio"
  BY <1>8, <1>9, <1>10, <1>13 DEF Moves, Expected, Phase, p
<1>17. r.left = CASE k = "length" -> IF b.n = 0 THEN header ELSE Unit
                [] k = "header" -> IF b.kind = "header" \/ header = -1 THEN 0 ELSE header
                [] k = "meta" -> header
                [] OTHER -> 0
  BY <1>6, <1>8, <1>9, <1>10, <1>12, <1>13 DEF Moves, Expected, Phase, p, i
<1>18. r.interval = IF k = "header" /\ b.kind = "header" /\ b.n # -1
                      THEN b.n ELSE IF header = -1 THEN 0 ELSE header
  BY <1>8, <1>9, <1>10 DEF Moves, Expected, Phase, p, i
<1>19. r.audio = IF k \in Sound THEN d + Len(c) ELSE d
  BY <1>3, <1>8, <1>9, <1>10 DEF Moves, Expected, Phase, Sound, p
<1>20. r.title = IF k = "meta" THEN Title(c) ELSE title
  <2>1. CASE k # "meta"
    BY <2>1, <1>8, <1>9, <1>10 DEF Moves, Expected, Phase, p
  <2>2. CASE k = "meta"
    <3>1. b.kind = "meta" /\ r.title = IF b.n = 0 THEN p.title ELSE b.n
      BY <2>2, <1>8, <1>10 DEF Moves, Expected, p
    <3>2. CASE g = <<>>
      BY <3>1, <3>2, <2>2, <1>3, <1>5, <1>9 DEF Title
    <3>3. CASE g # <<>>
      <4>1. c[1] = g[1] /\ p.left # Unit
        BY <3>3, <2>2, <1>3, <1>5, <1>6, <1>9, <1>13, Sizes
      <4>2. b.n = 0
        BY <4>1, <3>1, <1>8 DEF Moves, p
      <4> QED BY <3>1, <3>3, <4>1, <4>2, <2>2, <1>9 DEF Title
    <3> QED BY <3>2, <3>3
  <2> QED BY <2>1, <2>2
<1>21. Done(k, d, r)
  BY <1>1, <1>7, <1>8, <1>13, <1>16, <1>17, <1>18, <1>19, <1>20 DEF Done, b, c, size
<1> QED BY <1>15, <1>21
-----------------------------------------------------------------------------
(* An action is right if the task it gives the processor is the one for    *)
(* what comes next at r.                                                   *)
LEMMA Performed ==
  ASSUME Inv, pc = "loop", MoreToDo,
         NEW k \in Phase \cup {"audio_only"}, NEW n \in Nat \ {0}, Continue(NewTask(k, n)),
         NEW r \in Position, Leads(Tail(read_buffer) \o net, r, Source),
         NEW e \in Nat, Multiple(e, metaint'), ToSet(written') \cup dropped' = 1..e,
         r.at = IF k = "audio_only" THEN "audio" ELSE k,
         r.left = IF k \in {"audio", "meta"} THEN n ELSE 0,
         r.interval = IF header' = -1 THEN 0 ELSE header',
         r.audio = e, r.title = title',
         k # "status",
         k \in {"audio", "length", "meta"} => header' # -1,
         k = "audio_only" => header' = -1,
         k \in {"header", "length"} => n = 1, k \in Sound => n = metaint',
         k = "meta" => n = Unit,
         status' = OK, header' \in MetaInts \cup {-1}, metaint' \in MetaInts \cup {0, Default},
         metaint' = IF k = "header" THEN 0 ELSE IF header' = -1 THEN Default ELSE header',
         k # "header" => metaint' > 0,
         written' \in Seq(1..MaxAudio), dropped' \subseteq 1..MaxAudio, Output'
  PROVE  Inv'
<1> DEFINE t == NewTask(k, n)
<1>1. /\ t \in Info /\ Len(t.got) <= t.size
      /\ t.kind = k /\ t.size = n /\ t.got = <<>> /\ Len(t.got) = 0
  <2>1. n \in Nat
    OBVIOUS
  <2> QED BY <2>1, NewTaskInfo
<1>2. UNCHANGED <<pc, net, stream, paused, origin>>
  BY DEF Continue
<1>3. Continue(t)
  OBVIOUS
<1> HIDE DEF t
<1>4. /\ Tasks' /\ Fresh' /\ Current' = t /\ Reading' /\ task' # 0
      /\ read_buffer' = Tail(read_buffer) /\ net' = net
      /\ read_buffer' \in Seq(Bytes)
  BY <1>1, <1>3, Continued
<1>5. title' \in 0..2
  BY DEF Position
<1>6. Shape'
  BY <1>2, <1>4, <1>5 DEF Inv, Shape, origin
<1>7. Course'
  <2>1. /\ Current'.kind = k /\ Current'.size = n /\ Len(Current'.got) = 0
    BY <1>1, <1>4
  <2>2. k \in {"header", "length", "audio", "audio_only", "meta"}
    BY DEF Phase
  <2> QED BY <2>1, <2>2, <1>4 DEF Course, ChunkSize, Sound, OK
<1>8. Place(e)' = r
  <2>1. r = [at |-> IF k = "audio_only" THEN "audio" ELSE k,
             left |-> IF k \in {"audio", "meta"} THEN n ELSE 0,
             interval |-> IF header' = -1 THEN 0 ELSE header', audio |-> e, title |-> title']
    BY SamePosition
  <2>2. /\ Current'.kind = k /\ Current'.size = n /\ Current'.got = <<>> /\ Len(Current'.got) = 0
    BY <1>1, <1>4
  <2>3. n - 0 = n /\ e + 0 = e
    OBVIOUS
  <2> QED BY <2>1, <2>2, <2>3 DEF Place
<1>9. Progress(e)'
  <2>1. \A i \in 1..Len(Current'.got) : FALSE
    BY <1>1, <1>4
  <2> QED BY <2>1, <1>2, <1>4, <1>8, Advanced
<1> QED BY <1>4, <1>6, <1>7, <1>9 DEF Inv, Progressing

(* A chunk of audio is written as a whole or dropped as a whole.           *)
LEMMA WrittenOut ==
  ASSUME Inv, NEW k \in Sound, NEW d, NEW r, Completes(k), Done(k, d, r), Fits(k),
         WriteOut, metaint' = metaint
  PROVE  /\ written' \in Seq(1..MaxAudio) /\ dropped' \subseteq 1..MaxAudio
         /\ d + metaint \in Nat /\ Multiple(d + metaint, metaint)
         /\ ToSet(written') \cup dropped' = 1..d + metaint
         /\ Output' /\ metaint \in Nat \ {0} /\ Len(Collected) = metaint
         /\ d \in Nat /\ Multiple(d, metaint)
         /\ ToSet(Collected) = d + 1..d + metaint /\ Head(read_buffer).n = d + metaint
<1> DEFINE c == Collected
           m == metaint
           w == written
           g == Current.got
<1>1. pc = "loop" /\ MoreToDo /\ Current.kind = k
  BY DEF Completes
<1>2. /\ Len(c) = Current.size /\ Current.size \in Nat \ {0} /\ d \in Nat /\ Progress(d)
      /\ r \in Position /\ r.audio <= audio /\ r.audio = d + Len(c)
  BY DEF Done
<1>3. Current.size = m
  BY <1>1, NextByte DEF Inv, Course, Sound
<1>4. m \in Nat \ {0} /\ Len(c) = m
  BY <1>2, <1>3
<1>5. Multiple(d, m) /\ ToSet(w) \cup dropped = 1..d /\ \A i \in 1..Len(g) : g[i] = d + i
  BY <1>1, <1>2 DEF Progress
<1>6. /\ c \in Seq(Int) /\ Len(g) \in Nat /\ Len(c) = Len(g) + 1
      /\ \A i \in 1..Len(g) : c[i] = g[i]
      /\ c[Len(g) + 1] = Head(read_buffer).n
  BY <1>1, NextByte
<1>7. Head(read_buffer).n = d + Len(c)
  <2>1. PICK q \in Position : Moves(Place(d), Head(read_buffer), q)
    BY <1>1, <1>2, ReadAhead
  <2>2. Place(d).at = "audio" /\ Place(d).audio = d + Len(g)
    BY <1>1 DEF Place, Sound
  <2>3. Head(read_buffer).n = d + Len(g) + 1
    BY <2>1, <2>2 DEF Moves
  <2> QED BY <2>3, <1>2, <1>6
<1>8. w \in Seq(1..MaxAudio) /\ dropped \subseteq 1..MaxAudio /\ audio \in 0..MaxAudio /\ MaxAudio \in Nat
  BY Sizes DEF Inv, Shape
<1>9. Multiple(Len(w), m) /\ WholeChunks
  BY DEF Inv, Output
<1>10. d + m <= MaxAudio
  BY <1>2, <1>4, <1>8 DEF Position
<1>11. /\ paused => dropped' = dropped \cup ToSet(c) /\ written' = w
       /\ ~paused => written' = w \o c /\ dropped' = dropped
  BY DEF WriteOut
<1> HIDE DEF c, m, w, g
<1>12. \A i \in 1..m : c[i] = d + i
  <2>1. ASSUME NEW i \in 1..m PROVE c[i] = d + i
    <3>1. CASE i = Len(g) + 1
      BY <3>1, <1>2, <1>4, <1>6, <1>7
    <3>2. CASE i \in 1..Len(g)
      BY <3>2, <1>5, <1>6
    <3> QED BY <3>1, <3>2, <1>4, <1>6
  <2> QED BY <2>1
<1>13. c \in Seq(1..MaxAudio)
  <2> DEFINE A == 1..MaxAudio
  <2>1. c \in Seq(Int) /\ \A i \in 1..Len(c) : c[i] \in A
    BY <1>2, <1>4, <1>6, <1>8, <1>10, <1>12
  <2> HIDE DEF A
  <2>2. c \in Seq(A)
    BY ONLY <2>1
  <2> QED BY <2>2 DEF A
<1>14. ToSet(c) = d + 1..d + m
  <2>1. DOMAIN c = 1..m
    BY <1>4, <1>6, LenProperties
  <2>2. \A x \in d + 1..d + m : x - d \in 1..m /\ c[x - d] = x
    BY <1>2, <1>4, <1>12
  <2>3. \A i \in 1..m : c[i] \in d + 1..d + m
    BY <1>2, <1>4, <1>12
  <2> QED BY <2>1, <2>2, <2>3 DEF ToSet
<1>15. /\ d + m \in Nat /\ Multiple(d + m, m) /\ 1..d + m = (1..d) \cup (d + 1..d + m)
       /\ d \in Nat /\ Multiple(d, m) /\ Head(read_buffer).n = d + m
  BY <1>2, <1>4, <1>5, <1>7, MultipleNext
<1>16. CASE paused
  <2>1. ToSet(written') \cup dropped' = 1..d + m
    BY <1>5, <1>11, <1>14, <1>15, <1>16
  <2>2. dropped' \subseteq 1..MaxAudio
    <3>1. \A x \in d + 1..d + m : x \in 1..MaxAudio
      BY <1>2, <1>4, <1>8, <1>10
    <3> QED BY <3>1, <1>8, <1>11, <1>14, <1>16
  <2>3. Output'
    BY <1>9, <1>11, <1>16 DEF Output, WholeChunks, m, w
  <2> QED BY <2>1, <2>2, <2>3, <1>4, <1>8, <1>11, <1>14, <1>15, <1>16 DEF c, m
<1>17. CASE ~paused
  <2> DEFINE v == w \o c
             A == 1..MaxAudio
  <2>1. /\ v \in Seq(A) /\ Len(v) = Len(w) + Len(c)
        /\ \A i \in 1..Len(w) + Len(c) : v[i] = IF i <= Len(w) THEN w[i] ELSE c[i - Len(w)]
    <3>1. w \in Seq(A) /\ c \in Seq(A)
      BY <1>8, <1>13
    <3> HIDE DEF A
    <3> QED BY <3>1, ConcatProperties
  <2>2. Len(w) \in Nat /\ DOMAIN w = 1..Len(w) /\ DOMAIN v = 1..Len(w) + m
    BY <2>1, <1>4, <1>8, LenProperties
  <2>3. written' = v /\ dropped' = dropped
    BY <1>11, <1>17
  <2> HIDE DEF v, A
  <2>4. \A i \in 1..Len(w) : v[i] = w[i] /\ w[i] \in 1..d
    <3>1. \A i \in 1..Len(w) : w[i] \in ToSet(w)
      BY <2>2 DEF ToSet
    <3> QED BY <3>1, <2>1, <2>2, <1>5, <1>4
  <2>5. \A j \in 1..m : v[Len(w) + j] = d + j
    <3>1. ASSUME NEW j \in 1..m PROVE v[Len(w) + j] = d + j
      <4>1. /\ Len(w) + j \in 1..Len(w) + Len(c) /\ ~(Len(w) + j <= Len(w))
            /\ (Len(w) + j) - Len(w) = j
        BY <2>2, <1>4
      <4> QED BY <4>1, <2>1, <1>12
    <3> QED BY <3>1
  <2>6. ToSet(v) = ToSet(w) \cup ToSet(c)
    <3>1. DOMAIN c = 1..m
      BY <1>4, <1>6, LenProperties
    <3>2. ToSet(v) \subseteq ToSet(w) \cup ToSet(c)
      <4>1. SUFFICES ASSUME NEW i \in 1..Len(w) + m PROVE v[i] \in ToSet(w) \cup ToSet(c)
        BY <2>2 DEF ToSet
      <4>2. CASE i \in 1..Len(w)
        BY <4>2, <2>2, <2>4 DEF ToSet
      <4>3. CASE i - Len(w) \in 1..m
        <5>1. v[i] = c[i - Len(w)]
          BY <4>3, <2>1, <2>2, <1>4
        <5> QED BY <4>3, <5>1, <3>1 DEF ToSet
      <4> QED BY <4>2, <4>3, <2>2, <1>4
    <3>3. ToSet(w) \subseteq ToSet(v)
      <4>1. \A i \in 1..Len(w) : i \in 1..Len(w) + m
        BY <2>2, <1>4
      <4> QED BY <4>1, <2>2, <2>4 DEF ToSet
    <3>4. ToSet(c) \subseteq ToSet(v)
      <4>1. \A j \in 1..m : Len(w) + j \in 1..Len(w) + m /\ v[Len(w) + j] = c[j]
        BY <2>2, <2>5, <1>4, <1>12
      <4> QED BY <4>1, <3>1, <2>2 DEF ToSet
    <3> QED BY <3>2, <3>3, <3>4
  <2>7. ToSet(written') \cup dropped' = 1..d + m
    BY <2>3, <2>6, <1>5, <1>14, <1>15
  <2>8. Multiple(Len(v), m)
    BY <2>1, <2>2, <1>4, <1>9, MultipleNext
  <2>9. ASSUME NEW i \in 1..Len(v)
        PROVE  IF (i - 1) % m = 0
                 THEN (v[i] - 1) % m = 0 /\ (i > 1 => v[i - 1] < v[i])
                 ELSE v[i] = v[i - 1] + 1
    <3>1. CASE i \in 1..Len(w)
      <4>1. IF (i - 1) % m = 0
              THEN (w[i] - 1) % m = 0 /\ (i > 1 => w[i - 1] < w[i])
              ELSE w[i] = w[i - 1] + 1
        BY <3>1, <1>9 DEF WholeChunks, w, m
      <4>2. v[i] = w[i]
        BY <3>1, <2>4
      <4>3. CASE i = 1
        <5>1. (i - 1) % m = 0
          BY <4>3, <1>4
        <5> QED BY <5>1, <4>1, <4>2, <4>3
      <4>4. CASE i > 1
        <5>1. i - 1 \in 1..Len(w)
          BY <4>4, <3>1, <2>2
        <5> QED BY <5>1, <4>1, <4>2, <2>4
      <4> QED BY <4>3, <4>4, <3>1
    <3>2. CASE i = Len(w) + 1
      <4>1. v[i] = d + 1
        BY <3>2, <2>5, <1>4
      <4>2. (v[i] - 1) % m = 0
        <5>1. (d + 0) % m = 0
          BY <1>2, <1>4, <1>5, MultipleRest
        <5> QED BY <5>1, <4>1, <1>2
      <4>3. (i - 1) % m = 0
        <5>1. (Len(w) + 0) % m = 0
          BY <2>2, <1>4, <1>9, MultipleRest
        <5> QED BY <5>1, <3>2, <2>2
      <4>4. i > 1 => v[i - 1] < v[i]
        <5>1. SUFFICES ASSUME i > 1 PROVE v[i - 1] < v[i]
          OBVIOUS
        <5>2. i - 1 \in 1..Len(w)
          BY <5>1, <3>2, <2>2
        <5>3. v[i - 1] \in 1..d
          BY <5>2, <2>4
        <5> QED BY <5>3, <4>1, <1>2
      <4> QED BY <4>2, <4>3, <4>4
    <3>3. CASE i \in Len(w) + 2..Len(w) + m
      <4> DEFINE j == i - Len(w)
      <4>1. j \in 2..m /\ j - 1 \in 1..m - 1 /\ j - 1 \in 1..m /\ j \in 1..m
            /\ i = Len(w) + j /\ i - 1 = Len(w) + (j - 1)
        BY <3>3, <2>2, <1>4
      <4> HIDE DEF j
      <4>2. v[i] = d + j /\ v[i - 1] = d + (j - 1)
        BY <4>1, <2>5
      <4>3. (Len(w) + (j - 1)) % m = j - 1
        <5>1. j - 1 \in 0..m - 1
          BY <4>1, <1>4
        <5> DEFINE z == j - 1
        <5> HIDE DEF z
        <5>2. (Len(w) + z) % m = z
          BY <5>1, <2>2, <1>4, <1>9, MultipleRest DEF z
        <5> QED BY <5>2 DEF z
      <4>4. (i - 1) % m # 0
        BY <4>1, <4>3
      <4>5. v[i] = v[i - 1] + 1
        BY <4>1, <4>2, <1>2, <1>4
      <4> QED BY <4>4, <4>5
    <3> QED BY <3>1, <3>2, <3>3, <2>1, <2>2, <1>4
  <2>10. Output'
    <3>1. WholeChunks'
      BY <2>3, <2>9 DEF WholeChunks, m
    <3> QED BY <3>1, <2>3, <2>8 DEF Output, m
  <2>11. written' \in Seq(1..MaxAudio)
    BY <2>1, <2>3 DEF A
  <2> QED BY <2>3, <2>7, <2>10, <2>11, <1>4, <1>8, <1>14, <1>15 DEF c, m
<1> QED BY <1>16, <1>17
(* What holds of an action with a task of kind k, and of the client.       *)
LEMMA Acting ==
  ASSUME Inv, NEW k \in Phase \cup {"audio_only"}, Completes(k)
  PROVE  /\ pc = "loop" /\ MoreToDo /\ Current.kind = k
         /\ header \in MetaInts \cup {-1} /\ metaint \in MetaInts \cup {0, Default}
         /\ written \in Seq(1..MaxAudio) /\ dropped \subseteq 1..MaxAudio
         /\ Output /\ header \in Int /\ metaint \in Nat
         /\ k # "status" => status = OK
         /\ metaint = IF k \in {"status", "header"} THEN 0
                        ELSE IF header = -1 THEN Default ELSE header
         /\ k = "status" => header = -1
         /\ k \in {"audio", "length", "meta"} => header # -1
         /\ k = "audio_only" => header = -1
         /\ k \notin {"status", "header"} => metaint > 0
<1>1. pc = "loop" /\ MoreToDo /\ Current.kind = k
  BY DEF Completes
<1>2. Reading
  BY <1>1, NextByte
<1> QED BY <1>1, <1>2, Numbers DEF Inv, Shape, Course, ChunkSize

LEMMA StatusLineStep ==
  ASSUME Inv, ReadStatusLine
  PROVE  Inv'
<1> DEFINE k == "status"
<1>1. Completes(k) /\ k \in Phase \cup {"audio_only"}
  BY DEF ReadStatusLine, Phase
<1>2. UNCHANGED <<header, metaint, title, written, dropped>> /\ status' = Collected[1]
  BY DEF ReadStatusLine
<1>3. PICK d, r : Done(k, d, r)
  BY <1>1, DoneBy
<1>4. Fits(k)
  BY <1>1, DoneBy
<1>5. /\ pc = "loop" /\ MoreToDo /\ Current.kind = k /\ metaint = 0 /\ header = -1
      /\ written \in Seq(1..MaxAudio) /\ dropped \subseteq 1..MaxAudio /\ Output
  BY <1>1, Acting
<1>6. status' \in {OK, 404}
  BY <1>2, <1>4 DEF Fits, Expected, Bytes, Valid
<1>7. Output'
  BY <1>2, <1>5 DEF Output, WholeChunks
<1>8. CASE status' = OK
  <2>1. Continue(NewTask("header", 1)) /\ "header" \in Phase \cup {"audio_only"} /\ 1 \in Nat \ {0}
    BY <1>8 DEF ReadStatusLine, Phase
  <2>2. /\ r \in Position /\ d \in Nat /\ Leads(Tail(read_buffer) \o net, r, Source)
        /\ Multiple(d, metaint) /\ ToSet(written) \cup dropped = 1..d
    BY <1>3 DEF Done, Progress
  <2>3. r.at = "header" /\ r.left = 0 /\ r.interval = 0 /\ r.audio = d /\ r.title = title
    BY <1>3, <1>5 DEF Done, Sound
  <2> QED BY <2>1, <2>2, <2>3, <1>2, <1>5, <1>7, <1>8, Performed DEF Sound
<1>9. CASE status' # OK
  <2>1. /\ read_buffer' = Tail(read_buffer) /\ task' = 0
        /\ objects' = Restrict(objects, DOMAIN objects \ {task})
        /\ UNCHANGED <<pc, net, stream, stack, paused, origin>>
    BY <1>9 DEF ReadStatusLine, Receive
  <2>2. /\ Tail(read_buffer) \in Seq(Bytes) /\ task \in DOMAIN objects /\ Reading
    BY <1>5, NextByte
  <2>3. Shape'
    BY <2>1, <2>2, <1>2, <1>6 DEF Inv, Shape, origin
  <2>4. /\ DOMAIN objects' = DOMAIN objects \ {task}
        /\ \A o \in DOMAIN objects' : objects'[o] = objects[o]
        /\ objects' = [o \in DOMAIN objects' |-> objects[o]]
    BY <2>1 DEF Restrict
  <2>5. Tasks'
    <3>1. /\ DOMAIN objects \subseteq Memory /\ objects \in [DOMAIN objects -> Info]
          /\ \A o \in DOMAIN objects : Len(objects[o].got) <= objects[o].size
          /\ DOMAIN objects = (ToSet(stack) \cup {task}) \ {0} /\ 0 \notin Memory
          /\ ToSet(stack) \subseteq DOMAIN objects \ {task}
      BY <2>2 DEF Inv, Tasks, TasksOwned, Reading, Memory
    <3>2. /\ DOMAIN objects' = ToSet(stack)
          /\ objects' \in [DOMAIN objects' -> Info]
          /\ \A o \in DOMAIN objects' : Len(objects'[o].got) <= objects'[o].size
      BY <3>1, <2>2, <2>4
    <3>3. TasksOwned'
      BY <3>1, <3>2, <2>1, <1>5 DEF Inv, Tasks, TasksOwned
    <3> QED BY <3>1, <3>2, <3>3, <2>1, <1>5 DEF Inv, Tasks
  <2>6. Course' /\ Fresh' /\ Progressing'
    BY <2>1, <1>2, <1>5, <1>6, <1>9 DEF Course, Fresh, Progressing, Reading
  <2> QED BY <2>3, <2>5, <2>6, <1>7 DEF Inv
<1> QED BY <1>8, <1>9

LEMMA HeadersStep ==
  ASSUME Inv, ReadHeaders
  PROVE  Inv'
<1> DEFINE k == "header"
           b == Head(read_buffer)
<1>1. Completes(k) /\ k \in Phase \cup {"audio_only"}
  BY DEF ReadHeaders, Phase
<1>2. UNCHANGED <<status, title, written, dropped>>
  BY DEF ReadHeaders
<1>3. PICK d, r : Done(k, d, r)
  BY <1>1, DoneBy
<1>4. Fits(k)
  BY <1>1, DoneBy
<1>5. /\ pc = "loop" /\ MoreToDo /\ Current.kind = k /\ metaint = 0 /\ status = OK
      /\ written \in Seq(1..MaxAudio) /\ dropped \subseteq 1..MaxAudio /\ Output
      /\ header \in MetaInts \cup {-1}
  BY <1>1, Acting
<1>6. /\ r \in Position /\ d \in Nat /\ Leads(Tail(read_buffer) \o net, r, Source)
      /\ Multiple(d, 0) /\ ToSet(written) \cup dropped = 1..d
  BY <1>3, <1>5 DEF Done, Progress
<1>7. d = 0 /\ Len(written) = 0
  BY <1>5, <1>6 DEF Multiple, Output
<1>8. /\ r.at = IF b.kind = "header" THEN "header" ELSE "audio"
      /\ r.left = IF b.kind = "header" \/ header = -1 THEN 0 ELSE header
      /\ r.interval = IF b.kind = "header" /\ b.n # -1
                        THEN b.n ELSE IF header = -1 THEN 0 ELSE header
      /\ r.audio = d /\ r.title = title
  BY <1>3 DEF Done, Sound
<1>9. b.kind \in {"header", "blank"} /\ Collected[1] = b.n
      /\ (b.kind = "header" => b.n \in MetaInts \cup {-1})
  BY <1>4 DEF Fits, Expected, Bytes, Valid
<1>10. \A m \in Nat : Multiple(Len(written), m) /\ Multiple(d, m)
  BY <1>7, MultipleOfAny
<1> HIDE DEF b
<1>11. metaint' \in Nat => Output'
  <2>1. written' = written /\ Len(written) = 0
    BY <1>2, <1>7
  <2>2. WholeChunks'
    BY <2>1 DEF WholeChunks
  <2> QED BY <2>1, <2>2, <1>10 DEF Output
<1>12. CASE b.kind = "header"
  <2>1. /\ Continue(NewTask("header", 1)) /\ "header" \in Phase \cup {"audio_only"}
        /\ 1 \in Nat \ {0} /\ metaint' = metaint
        /\ header' = IF b.n = -1 THEN header ELSE b.n
    BY <1>9, <1>12 DEF ReadHeaders, Phase, b
  <2>2. /\ header' \in MetaInts \cup {-1} /\ metaint' = 0
        /\ r.interval = IF header' = -1 THEN 0 ELSE header'
    BY <2>1, <1>5, <1>8, <1>9, <1>12
  <2>3. Output' /\ Multiple(d, metaint')
    BY <2>2, <1>10, <1>11
  <2>4. r.at = "header" /\ r.left = 0
    BY <1>8, <1>12
  <2> QED BY <2>1, <2>2, <2>3, <2>4, <1>2, <1>5, <1>6, <1>8, Performed DEF Sound
<1>13. CASE b.kind = "blank" /\ metaint' = 0
  <2>1. /\ pc' = "assertion" /\ header' = header
        /\ UNCHANGED <<read_buffer, net, stream, task, objects, stack, paused, origin>>
    BY <1>13 DEF ReadHeaders, b
  <2>2. metaint' = metaint
    BY <1>5, <1>13
  <2>3. Shape' /\ Fresh' /\ Progressing'
    BY <2>1, <2>2, <1>2 DEF Inv, Shape, Fresh, Progressing, Reading, origin
  <2>4. Tasks'
    BY <2>1, <1>5 DEF Inv, Tasks, TasksOwned
  <2>5. Course'
    BY <2>1, <2>2, <1>2, <1>5 DEF Inv, Course, Reading, MoreToDo
  <2> QED BY <2>3, <2>4, <2>5, <1>11, <1>13 DEF Inv
<1>14. CASE b.kind = "blank" /\ metaint' # 0
  <2>1. /\ Continue(FirstChunk) /\ metaint' = FirstChunk.size /\ header' = header
    BY <1>14 DEF ReadHeaders, b
  <2> DEFINE q == IF header # -1 THEN "audio" ELSE "audio_only"
             n == IF header # -1 THEN header ELSE Default
  <2>2. FirstChunk = NewTask(q, n)
    BY DEF FirstChunk
  <2>3. q \in Phase \cup {"audio_only"} /\ n \in Nat
    BY <1>5, Sizes DEF Phase
  <2>4. metaint' = n
    BY <2>1, <2>2, <2>3, NewTaskInfo
  <2>5. n \in Nat \ {0} /\ Continue(NewTask(q, n)) /\ metaint' \in MetaInts \cup {0, Default}
    BY <2>1, <2>2, <2>3, <2>4, <1>5, <1>14
  <2>6. r.at = "audio" /\ r.left = (IF q = "audio" THEN n ELSE 0)
        /\ r.interval = (IF header' = -1 THEN 0 ELSE header')
    BY <2>1, <1>8, <1>14
  <2>7. /\ q \in {"audio", "length", "meta"} => header' # -1
        /\ q = "audio_only" => header' = -1
        /\ metaint' = IF header' = -1 THEN Default ELSE header'
    BY <2>1, <2>4
  <2>8. Output' /\ Multiple(d, metaint')
    BY <2>4, <2>3, <1>10, <1>11
  <2>9. (q = "audio" \/ q = "audio_only") /\ metaint' > 0
    BY <2>4, <2>5
  <2> HIDE DEF q, n
  <2> QED BY <2>1, <2>3, <2>4, <2>5, <2>6, <2>7, <2>8, <2>9, <1>2, <1>5, <1>6, <1>8, Performed
          DEF Sound
<1> QED BY <1>9, <1>12, <1>13, <1>14
LEMMA AudioStep ==
  ASSUME Inv, ReadAudioData \/ ReadAudioDataOnly
  PROVE  Inv'
<1>1. ASSUME NEW k \in Sound, NEW q \in {"length", "audio_only"}, NEW n \in Nat \ {0},
             Completes(k), WriteOut, Continue(NewTask(q, n)),
             UNCHANGED <<status, header, metaint, title>>,
             k = "audio" => q = "length" /\ n = 1,
             k = "audio_only" => q = "audio_only" /\ n = metaint
      PROVE  Inv'
  <2>1. k \in Phase \cup {"audio_only"} /\ q \in Phase \cup {"audio_only"} /\ (k = "audio" \/ k = "audio_only")
    BY DEF Sound, Phase
  <2>2. PICK d, r : Done(k, d, r)
    BY <1>1, <2>1, DoneBy
  <2>3. Fits(k)
    BY <1>1, <2>1, DoneBy
  <2>4. /\ written' \in Seq(1..MaxAudio) /\ dropped' \subseteq 1..MaxAudio
        /\ d + metaint \in Nat /\ Multiple(d + metaint, metaint)
        /\ ToSet(written') \cup dropped' = 1..d + metaint
        /\ Output' /\ metaint \in Nat \ {0} /\ Len(Collected) = metaint
    BY <1>1, <2>2, <2>3, WrittenOut
  <2>5. /\ pc = "loop" /\ MoreToDo /\ status = OK
        /\ header \in MetaInts \cup {-1} /\ metaint \in MetaInts \cup {0, Default}
        /\ metaint = IF header = -1 THEN Default ELSE header
        /\ k = "audio" => header # -1
        /\ k = "audio_only" => header = -1
    BY <1>1, <2>1, Acting
  <2>6. r \in Position /\ Leads(Tail(read_buffer) \o net, r, Source)
    BY <2>2 DEF Done
  <2> DEFINE e == d + metaint
  <2>7. /\ r.at = IF q = "audio_only" THEN "audio" ELSE q
        /\ r.left = 0 /\ r.interval = (IF header = -1 THEN 0 ELSE header)
        /\ r.audio = e /\ r.title = title
    BY <1>1, <2>1, <2>2, <2>4 DEF Done, Sound
  <2>8. /\ e \in Nat /\ Multiple(e, metaint') /\ ToSet(written') \cup dropped' = 1..e
    BY <1>1, <2>4
  <2>9. q # "status" /\ q \notin {"audio", "meta"} /\ q # "header"
    OBVIOUS
  <2>10. /\ q \in {"audio", "length", "meta"} => header' # -1
         /\ q = "audio_only" => header' = -1
         /\ q \in {"header", "length"} => n = 1
         /\ q \in Sound => n = metaint'
         /\ metaint' > 0
    BY <1>1, <2>1, <2>4, <2>5 DEF Sound
  <2> HIDE DEF e
  <2> QED BY <1>1, <2>1, <2>4, <2>5, <2>6, <2>7, <2>8, <2>9, <2>10, Performed
<1>2. CASE ReadAudioData
  <2>1. "audio" \in Sound /\ "length" \in {"length", "audio_only"} /\ 1 \in Nat \ {0}
    BY DEF Sound
  <2> QED BY <2>1, <1>1, <1>2 DEF ReadAudioData
<1>3. CASE ReadAudioDataOnly
  <2>1. "audio_only" \in Sound /\ "audio_only" \in {"length", "audio_only"}
        /\ "audio_only" \in Phase \cup {"audio_only"} /\ Completes("audio_only")
    BY <1>3 DEF Sound, ReadAudioDataOnly
  <2>2. metaint \in Nat \ {0}
    <3>1. metaint = Default
      BY <2>1, Acting
    <3> QED BY <3>1, Sizes
  <2> QED BY <2>1, <2>2, <1>1, <1>3 DEF ReadAudioDataOnly
<1> QED BY <1>2, <1>3

LEMMA MetadataStep ==
  ASSUME Inv, ReadMetadataHeader \/ ReadMetadataData
  PROVE  Inv'
<1>1. ASSUME NEW k \in {"length", "meta"}, Completes(k),
             UNCHANGED <<status, header, metaint, written, dropped>>
      PROVE  \E d, r :
               /\ Done(k, d, r) /\ Fits(k)
               /\ pc = "loop" /\ MoreToDo /\ status = OK
               /\ header \in MetaInts /\ header # -1 /\ metaint = header /\ metaint \in Nat \ {0}
               /\ written \in Seq(1..MaxAudio) /\ dropped \subseteq 1..MaxAudio
               /\ Output' /\ d \in Nat /\ Multiple(d, metaint)
               /\ ToSet(written) \cup dropped = 1..d
               /\ r \in Position /\ Leads(Tail(read_buffer) \o net, r, Source)
               /\ r.interval = header /\ r.audio = d
  <2>1. k \in Phase \cup {"audio_only"} /\ k \notin Sound
    BY DEF Phase, Sound
  <2>2. PICK d, r : Done(k, d, r) /\ Fits(k)
    BY <1>1, <2>1, DoneBy
  <2>3. /\ pc = "loop" /\ MoreToDo /\ Current.kind = k /\ status = OK
        /\ header \in MetaInts /\ header # -1 /\ metaint = header
        /\ written \in Seq(1..MaxAudio) /\ dropped \subseteq 1..MaxAudio /\ Output
    BY <1>1, <2>1, Acting
  <2>4. Output'
    BY <1>1, <2>3 DEF Output, WholeChunks
  <2>5. /\ d \in Nat /\ Multiple(d, metaint) /\ ToSet(written) \cup dropped = 1..d
        /\ r \in Position /\ Leads(Tail(read_buffer) \o net, r, Source)
        /\ r.interval = header /\ r.audio = d
    BY <2>1, <2>2, <2>3 DEF Done, Progress
  <2>6. metaint \in Nat \ {0}
    <3>1. metaint \in Nat /\ metaint > 0
      BY <1>1, <2>1, Acting
    <3> QED BY <3>1
  <2> QED BY <2>2, <2>3, <2>4, <2>5, <2>6
<1>2. CASE ReadMetadataHeader
  <2>1. /\ Completes("length") /\ UNCHANGED <<status, header, metaint, title, written, dropped>>
        /\ Continue(IF Collected[1] > 0 THEN Metadata(Collected[1]) ELSE NewTask("audio", metaint))
    BY <1>2 DEF ReadMetadataHeader
  <2>2. PICK d, r :
               /\ Done("length", d, r) /\ Fits("length")
               /\ pc = "loop" /\ MoreToDo /\ status = OK
               /\ header \in MetaInts /\ header # -1 /\ metaint = header /\ metaint \in Nat \ {0}
               /\ written \in Seq(1..MaxAudio) /\ dropped \subseteq 1..MaxAudio
               /\ Output' /\ d \in Nat /\ Multiple(d, metaint)
               /\ ToSet(written) \cup dropped = 1..d
               /\ r \in Position /\ Leads(Tail(read_buffer) \o net, r, Source)
               /\ r.interval = header /\ r.audio = d
    BY <2>1, <1>1
  <2> DEFINE h == Head(read_buffer)
  <2>3. Collected[1] = h.n /\ h.n \in 0..1
    BY <2>2 DEF Fits, Expected, Bytes, Valid
  <2>4. /\ r.at = (IF h.n = 0 THEN "audio" ELSE "meta")
        /\ r.left = (IF h.n = 0 THEN header ELSE Unit) /\ r.title = title
    BY <2>2 DEF Done
  <2> HIDE DEF h
  <2>5. CASE h.n = 0
    <3>1. Continue(NewTask("audio", metaint)) /\ "audio" \in Phase \cup {"audio_only"}
      BY <2>1, <2>3, <2>5 DEF Phase
    <3>2. r.at = "audio" /\ r.left = header
      BY <2>4, <2>5
    <3>3. /\ UNCHANGED <<status, header, metaint, title, written, dropped>>
          /\ r.title = title'
      BY <2>1, <2>4
    <3> QED BY <3>1, <3>2, <3>3, <2>2, Performed DEF Sound
  <2>6. CASE h.n = 1
    <3>1. Metadata(1) = NewTask("meta", Unit)
      <4>1. 1 * Unit = Unit
        BY Sizes
      <4> QED BY <4>1 DEF Metadata
    <3>2. Continue(NewTask("meta", Unit)) /\ "meta" \in Phase \cup {"audio_only"}
      BY <3>1, <2>1, <2>3, <2>6 DEF Phase
    <3>3. Unit \in Nat \ {0}
      BY Sizes
    <3> QED BY <3>2, <3>3, <2>1, <2>2, <2>4, <2>6, Performed DEF Sound
  <2> QED BY <2>3, <2>5, <2>6
<1>3. CASE ReadMetadataData
  <2>1. /\ Completes("meta") /\ UNCHANGED <<status, header, metaint, written, dropped>>
        /\ title' = Title(Collected) /\ Continue(NewTask("audio", metaint))
    BY <1>3 DEF ReadMetadataData
  <2>2. PICK d, r :
               /\ Done("meta", d, r) /\ Fits("meta")
               /\ pc = "loop" /\ MoreToDo /\ status = OK
               /\ header \in MetaInts /\ header # -1 /\ metaint = header /\ metaint \in Nat \ {0}
               /\ written \in Seq(1..MaxAudio) /\ dropped \subseteq 1..MaxAudio
               /\ Output' /\ d \in Nat /\ Multiple(d, metaint)
               /\ ToSet(written) \cup dropped = 1..d
               /\ r \in Position /\ Leads(Tail(read_buffer) \o net, r, Source)
               /\ r.interval = header /\ r.audio = d
    BY <2>1, <1>1
  <2>3. r.at = "audio" /\ r.left = header /\ r.title = title'
    BY <2>1, <2>2 DEF Done
  <2>4. "audio" \in Phase \cup {"audio_only"}
    BY DEF Phase
  <2> QED BY <2>1, <2>2, <2>3, <2>4, Performed DEF Sound
<1> QED BY <1>2, <1>3
-----------------------------------------------------------------------------
LEMMA ConnectStep ==
  ASSUME Inv, OnConnect
  PROVE  Inv'
<1> DEFINE t == NewTask("status", 1)
<1>1. /\ pc = "start" /\ objects' = With(Free, t) /\ task' = Free /\ pc' = "idle"
      /\ UNCHANGED <<read_buffer, net, stream, stack, status, header, metaint, title,
                     paused, written, dropped, origin>>
  BY DEF OnConnect
<1>2. /\ stream /\ task = 0 /\ objects = <<>> /\ read_buffer = <<>> /\ net = <<>>
      /\ status = -1 /\ header = -1 /\ title = 0 /\ dropped = {}
      /\ server = "status" /\ sending = 0 /\ interval = 0 /\ audio = 0 /\ titles = 0
  BY <1>1 DEF Inv, Fresh
<1>3. stack = <<>> /\ metaint = 0 /\ stack \in Seq(Memory) /\ written \in Seq(1..MaxAudio)
  BY <1>1, <1>2 DEF Inv, Tasks, Course, OK, Shape
<1>4. t \in Info /\ Len(t.got) = 0 /\ t.size = 1 /\ t.kind = "status" /\ t.got = <<>>
  BY NewTaskInfo DEF Phase
<1>5. Free \in Memory /\ DOMAIN objects = {}
  <2>1. DOMAIN objects = {} /\ Len(stack) = 0
    BY <1>2, <1>3
  <2> QED BY <2>1, <1>3, Sizes, FreeExists
<1> HIDE DEF t
<1>6. /\ DOMAIN objects' = {task'} /\ objects' \in [DOMAIN objects' -> Info]
      /\ Current' = t /\ objects'[task'] = t /\ task' \in Memory /\ task' # 0
  <2>1. objects' = [o \in {Free} |-> t]
    BY <1>1, <1>5 DEF With
  <2>2. 0 \notin Memory
    BY DEF Memory
  <2> QED BY <2>1, <2>2, <1>1, <1>4, <1>5 DEF Current
<1>7. written = <<>> /\ ToSet(written) = {}
  <2>1. Multiple(Len(written), 0)
    BY <1>3 DEF Inv, Output
  <2>2. Len(written) = 0
    BY <2>1 DEF Multiple
  <2>3. written = <<>>
    BY <1>3, <2>2, EmptySeq
  <2> QED BY <2>3 DEF ToSet
<1>8. Shape'
  BY <1>1 DEF Inv, Shape, origin
<1>9. Tasks'
  <2>1. ToSet(stack') = {} /\ DOMAIN stack' = {} /\ Len(stack') = 0 /\ Len(read_buffer') = 0
        /\ Len(net') = 0
    BY <1>1, <1>2, <1>3 DEF ToSet
  <2>2. TasksOwned'
    BY <2>1, <1>6 DEF TasksOwned
  <2>3. \A o \in DOMAIN objects' : Len(objects'[o].got) <= objects'[o].size
    BY <1>4, <1>6
  <2> QED BY <2>1, <2>2, <2>3, <1>1, <1>2, <1>3, <1>6, Sizes DEF Tasks
<1>10. Fresh' /\ Output'
  BY <1>1 DEF Fresh, Inv, Output, WholeChunks
<1>11. Course'
  <2>1. Current'.kind = "status" /\ Current'.size = 1 /\ Len(Current'.got) = 0
    BY <1>4, <1>6
  <2> QED BY <2>1, <1>1, <1>2, <1>3, <1>6 DEF Course, Reading
<1>12. Progress(0)'
  <2> DEFINE p == [at |-> "status", left |-> 0, interval |-> 0, audio |-> 0, title |-> 0]
  <2>1. Current'.kind = "status" /\ Current'.got = <<>>
    BY <1>4, <1>6
  <2>2. Place(0)' = p
    BY <2>1, <1>1, <1>2 DEF Place, Sound
  <2>3. Source' = p
    BY <1>1, <1>2 DEF Source, origin
  <2>4. p \in Position
    BY DEF Position, Phase
  <2> HIDE DEF p
  <2>5. Leads(<<>>, p, p)
    BY <2>4, LeadsNowhere
  <2>6. (read_buffer \o net)' = <<>>
    BY <1>1, <1>2
  <2>7. Multiple(0, metaint') /\ ToSet(written') \cup dropped' = {}
    BY <1>1, <1>2, <1>3, <1>7, MultipleOfAny
  <2> QED BY <2>1, <2>2, <2>3, <2>4, <2>5, <2>6, <2>7 DEF Progress, Sound
<1> QED BY <1>8, <1>9, <1>10, <1>11, <1>12 DEF Inv, Progressing

(* What the client and the server are is the same, and what is on its way. *)
LEMMA Undisturbed ==
  ASSUME Inv, UNCHANGED <<stream, task, status, header, metaint, title, written, dropped, origin>>,
         (read_buffer \o net)' = read_buffer \o net,
         pc # "start", pc' # "start", Reading' => Reading /\ Current' = Current
  PROVE  Fresh' /\ Course' /\ Output' /\ Progressing'
<1>1. Fresh' /\ Output'
  BY DEF Fresh, Inv, Output, WholeChunks
<1>2. Course'
  BY DEF Inv, Course, ChunkSize, Reading
<1>3. ASSUME Reading' PROVE \E d \in Nat : Progress(d)'
  <2>1. PICK d \in Nat : Progress(d)
    BY <1>3 DEF Inv, Progressing
  <2>2. Place(d)' = Place(d)
    BY <1>3 DEF Place, Title
  <2>3. Source' = Source
    BY DEF Source, origin
  <2> QED BY <2>1, <2>2, <2>3, <1>3 DEF Progress
<1> QED BY <1>1, <1>2, <1>3 DEF Progressing

LEMMA ArriveStep ==
  ASSUME Inv, Arrive
  PROVE  Inv'
<1>1. /\ pc = "idle" /\ stream /\ net # <<>> /\ read_buffer' = read_buffer \o net /\ net' = <<>>
      /\ pc' = "loop" /\ UNCHANGED <<client, origin>>
  BY DEF Arrive
<1>2. read_buffer \in Seq(Bytes) /\ net \in Seq(Bytes)
  BY DEF Inv, Shape
<1>3. read_buffer \o net \in Seq(Bytes) /\ (read_buffer \o net) \o <<>> = read_buffer \o net
      /\ <<>> \in Seq(Bytes) /\ Len(<<>>) = 0
  <2> HIDE DEF Bytes
  <2> QED BY <1>2, ConcatProperties, ConcatEmptySeq, EmptySeq
<1>4. Shape'
  BY <1>1, <1>3 DEF Inv, Shape, client, origin
<1>5. Tasks'
  <2>1. stack = <<>> /\ Len(stack) = 0
    BY <1>1 DEF Inv, Tasks
  <2>2. task # 0 => Len(read_buffer') <= Segment
    <3>1. SUFFICES ASSUME task # 0 PROVE Len(read_buffer') <= Segment
      OBVIOUS
    <3>2. read_buffer = <<>>
      BY <3>1, <1>1 DEF Inv, Tasks
    <3>3. read_buffer' = net
      <4> HIDE DEF Bytes
      <4> QED BY <3>2, <1>1, <1>2, ConcatEmptySeq
    <3> QED BY <3>3 DEF Inv, Tasks
  <2>3. Len(read_buffer') \in Nat
    <3>1. read_buffer' \in Seq(Bytes)
      BY <1>1, <1>3
    <3> HIDE DEF Bytes
    <3> QED BY <3>1, LenProperties
  <2> QED BY <2>1, <2>2, <2>3, <1>1, <1>3, Sizes DEF Inv, Tasks, TasksOwned, client
<1>6. Fresh' /\ Course' /\ Output' /\ Progressing'
  <2>1. (read_buffer \o net)' = read_buffer \o net
    BY <1>1, <1>3
  <2>2. Reading' => Reading /\ Current' = Current
    BY <1>1 DEF Reading, Current, client
  <2> QED BY <2>1, <2>2, <1>1, Undisturbed DEF client
<1> QED BY <1>4, <1>5, <1>6 DEF Inv

LEMMA ReturnStep ==
  ASSUME Inv, Return
  PROVE  Inv'
<1>1. /\ pc = "loop" /\ ~MoreToDo
      /\ UNCHANGED <<read_buffer, net, stream, task, status, header, metaint, title, paused,
                     written, dropped, origin>>
  BY DEF Return
<1>2. Shape'
  BY <1>1 DEF Inv, Shape, origin, Return
<1>3. /\ stream /\ stack \in Seq(Memory) /\ DOMAIN objects = (ToSet(stack) \cup {task}) \ {0}
      /\ ToSet(stack) \subseteq DOMAIN objects \ {task} /\ task \in DOMAIN objects \cup {0}
      /\ objects \in [DOMAIN objects -> Info] /\ DOMAIN objects \subseteq Memory
      /\ \A i, j \in DOMAIN stack : i # j => stack[i] # stack[j]
      /\ \A o \in DOMAIN objects : Len(objects[o].got) <= objects[o].size
      /\ Len(net) <= Segment
      /\ task # 0 => Len(stack) + Len(read_buffer) <= Segment /\ read_buffer = <<>>
  BY <1>1 DEF Inv, Tasks, TasksOwned, MoreToDo
<1>4. CASE stack = <<>>
  <2>1. pc' = "idle" /\ UNCHANGED <<objects, stack>>
    BY <1>4 DEF Return
  <2>2. ToSet(stack) = {}
    BY <1>4 DEF ToSet
  <2>3. Tasks'
    BY <2>1, <2>2, <1>1, <1>3, <1>4 DEF Tasks, TasksOwned
  <2>4. Reading' => Reading /\ Current' = Current
    BY <2>1, <1>1 DEF Reading, Current
  <2> QED BY <2>1, <2>3, <2>4, <1>1, <1>2, Undisturbed DEF Inv
<1>5. CASE stack # <<>>
  <2> DEFINE h == Head(stack)
             t == Tail(stack)
  <2>1. objects' = Deleted /\ stack' = t /\ pc' = pc
    BY <1>5 DEF Return
  <2>2. Len(stack) \in Nat \ {0} /\ DOMAIN stack = 1..Len(stack)
    <3> HIDE DEF Memory
    <3> QED BY <1>3, <1>5, EmptySeq, LenProperties
  <2>3. /\ h = stack[1] /\ t \in Seq(Memory) /\ Len(t) = Len(stack) - 1
        /\ \A i \in 1..Len(t) : t[i] = stack[i + 1]
        /\ DOMAIN t = 1..Len(t)
    <3> HIDE DEF Memory
    <3> QED BY <1>3, <1>5, HeadTailProperties, LenProperties
  <2> HIDE DEF h, t
  <2>4. /\ DOMAIN objects' = DOMAIN objects \ {h}
        /\ objects' = [o \in DOMAIN objects' |-> objects[o]]
    BY <2>1 DEF Deleted, Restrict, h
  <2>5. ToSet(stack) = ToSet(t) \cup {h} /\ h \notin ToSet(t)
    <3>1. \A i \in 1..Len(t) : i + 1 \in 1..Len(stack) /\ i + 1 # 1
      BY <2>2, <2>3
    <3>2. \A i \in 1..Len(stack) : i = 1 \/ (i - 1 \in 1..Len(t) /\ t[i - 1] = stack[i])
      BY <2>2, <2>3
    <3>3. 1 \in 1..Len(stack)
      BY <2>2
    <3>4. ToSet(t) \cup {h} \subseteq ToSet(stack)
      BY <3>1, <3>3, <2>2, <2>3 DEF ToSet
    <3>5. ToSet(stack) \subseteq ToSet(t) \cup {h}
      BY <3>2, <2>2, <2>3 DEF ToSet
    <3>6. h \notin ToSet(t)
      <4>1. SUFFICES ASSUME NEW i \in 1..Len(t), t[i] = h PROVE FALSE
        BY <2>3 DEF ToSet
      <4>2. stack[i + 1] = stack[1]
        BY <4>1, <2>3
      <4> QED BY <4>2, <3>1, <3>3, <2>2, <1>3
    <3> QED BY <3>4, <3>5, <3>6
  <2>6. \A i, j \in DOMAIN t : i # j => t[i] # t[j]
    <3>1. ASSUME NEW i \in 1..Len(t), NEW j \in 1..Len(t), i # j PROVE t[i] # t[j]
      <4>1. i + 1 \in 1..Len(stack) /\ j + 1 \in 1..Len(stack) /\ i + 1 # j + 1
        BY <3>1, <2>2, <2>3
      <4> QED BY <4>1, <2>2, <2>3, <1>3
    <3> QED BY <3>1, <2>3
  <2>7. h # task /\ h \in DOMAIN objects
    BY <2>5, <1>3
  <2>8. /\ objects' \in [DOMAIN objects' -> Info]
        /\ \A o \in DOMAIN objects' : Len(objects'[o].got) <= objects'[o].size
        /\ DOMAIN objects' \subseteq Memory
    BY <2>4, <1>3
  <2>9. TasksOwned'
    <3>1. task' \in DOMAIN objects' \cup {0}
      BY <2>4, <2>7, <1>1, <1>3
    <3>2. ToSet(stack') \subseteq DOMAIN objects' \ {task'}
      BY <2>1, <2>4, <2>5, <1>1, <1>3
    <3>3. pc' # "idle"
      BY <2>1, <1>1
    <3> QED BY <3>1, <3>2, <3>3, <2>1, <2>6 DEF TasksOwned
  <2>10. DOMAIN objects' = (ToSet(stack') \cup {task'}) \ {0}
    <3>1. 0 \notin Memory
      BY DEF Memory
    <3> QED BY <3>1, <2>1, <2>4, <2>5, <2>7, <1>1, <1>3
  <2>11. task' # 0 => Len(stack') + Len(read_buffer') <= Segment
    <3>1. Len(read_buffer) \in Nat
      BY LenProperties DEF Inv, Shape
    <3> QED BY <3>1, <2>1, <2>2, <2>3, <1>1, <1>3, Sizes
  <2>12. Tasks'
    BY <2>1, <2>3, <2>8, <2>9, <2>10, <2>11, <1>1, <1>3 DEF Tasks
  <2>13. Reading' => Reading /\ Current' = Current
    <3>1. SUFFICES ASSUME Reading' PROVE Reading /\ Current' = Current
      OBVIOUS
    <3>2. task # 0 /\ Reading
      BY <3>1, <2>1, <1>1 DEF Reading
    <3>3. task \in DOMAIN objects'
      BY <3>2, <2>4, <2>7, <1>3
    <3> QED BY <3>2, <3>3, <2>4, <1>1 DEF Current
  <2> QED BY <2>1, <2>12, <2>13, <1>1, <1>2, Undisturbed DEF Inv
<1> QED BY <1>4, <1>5

LEMMA UserStep ==
  ASSUME Inv, PlayOrPause \/ Close \/ UNCHANGED vars
  PROVE  Inv'
<1>1. CASE PlayOrPause
  <2>1. pc = "idle" /\ UNCHANGED <<pc, read_buffer, net, stream, task, objects, stack, status,
                            header, metaint, title, written, dropped, origin>>
        /\ paused' = ~paused
    BY <1>1 DEF PlayOrPause
  <2>2. Shape' /\ Tasks'
    BY <2>1 DEF Inv, Shape, Tasks, TasksOwned, origin
  <2>3. Reading' => Reading /\ Current' = Current
    BY <2>1 DEF Reading, Current
  <2> QED BY <2>1, <2>2, <2>3, Undisturbed DEF Inv
<1>2. CASE Close
  <2>1. /\ pc = "idle" /\ stream' = FALSE /\ task' = 0
        /\ UNCHANGED <<pc, read_buffer, net, objects, stack, status, header, metaint, title,
                       paused, written, dropped, origin>>
    BY <1>2 DEF Close
  <2>2. Shape' /\ Fresh' /\ Output'
    BY <2>1 DEF Inv, Shape, Fresh, Output, WholeChunks, origin
  <2>3. Tasks'
    <3>1. stack = <<>> /\ ToSet(stack) = {} /\ DOMAIN stack = {}
      BY <2>1 DEF Inv, Tasks, ToSet
    <3> QED BY <3>1, <2>1 DEF Inv, Tasks, TasksOwned
  <2>4. Course' /\ Progressing'
    BY <2>1 DEF Inv, Course, Progressing, Reading
  <2> QED BY <2>2, <2>3, <2>4 DEF Inv
<1>3. CASE UNCHANGED vars
  <2>1. Shape' /\ Tasks' /\ Fresh' /\ Output' /\ Course'
    <3> USE <1>3 DEF vars, client, origin
    <3>1. Shape' /\ Fresh'
      BY DEF Inv, Shape, Fresh
    <3>2. Tasks'
      BY DEF Inv, Tasks, TasksOwned
    <3>3. Output' /\ Course'
      BY DEF Inv, Output, WholeChunks, Course, Reading, ChunkSize, Current
    <3> QED BY <3>1, <3>2, <3>3
  <2>2. Progressing'
    <3>1. Source' = Source /\ \A d \in Nat : Place(d)' = Place(d)
      BY <1>3 DEF vars, client, origin, Source, Place, Current, Title
    <3> QED BY <3>1, <1>3 DEF vars, client, Inv, Progressing, Progress, Reading, Current
  <2> QED BY <2>1, <2>2 DEF Inv
<1> QED BY <1>1, <1>2, <1>3
LEMMA InitInv ==
  ASSUME Init
  PROVE  Inv
<1>1. /\ pc = "start" /\ read_buffer = <<>> /\ net = <<>> /\ stream = TRUE /\ task = 0
      /\ objects = <<>> /\ stack = <<>> /\ status = -1 /\ header = -1 /\ metaint = 0
      /\ title = 0 /\ paused = TRUE /\ written = <<>> /\ dropped = {}
      /\ server = "status" /\ sending = 0 /\ interval = 0 /\ audio = 0 /\ titles = 0
  BY DEF Init
<1>2. <<>> \in Seq(Bytes) /\ <<>> \in Seq(Memory) /\ <<>> \in Seq(1..MaxAudio) /\ Len(<<>>) = 0
  <2> DEFINE A == 1..MaxAudio
  <2> HIDE DEF Bytes, Memory, A
  <2>1. <<>> \in Seq(Bytes) /\ <<>> \in Seq(Memory) /\ <<>> \in Seq(A) /\ Len(<<>>) = 0
    BY EmptySeq
  <2> QED BY <2>1 DEF A
<1>3. Shape
  BY <1>1, <1>2, Sizes DEF Shape, Phase
<1>4. Tasks
  <2>1. DOMAIN objects = {} /\ ToSet(stack) = {} /\ DOMAIN stack = {} /\ objects \in [{} -> Info]
    BY <1>1 DEF ToSet
  <2> QED BY <2>1, <1>1, <1>2, Sizes DEF Tasks, TasksOwned
<1>5. Output
  <2>1. WholeChunks
    BY <1>1, <1>2 DEF WholeChunks
  <2> QED BY <2>1, <1>1, <1>2, MultipleOfAny DEF Output
<1>6. Fresh /\ Course /\ Progressing
  BY <1>1 DEF Fresh, Course, Progressing, Reading, OK
<1> QED BY <1>3, <1>4, <1>5, <1>6 DEF Inv

(* Inv is an inductive invariant.                                          *)
THEOREM ShoutcastInvariance == Spec => []Inv
<1>1. Inv /\ [Next]_vars => Inv'
  BY ServerStep, ConnectStep, ArriveStep, CollectStep, StatusLineStep, HeadersStep, AudioStep,
     MetadataStep, ReturnStep, UserStep DEF Next, Processor, Action, Aborted
<1> QED BY InitInv, <1>1, PTL DEF Spec
-----------------------------------------------------------------------------
LEMMA SetOfConcat ==
  ASSUME NEW s \in Seq(Int), NEW t \in Seq(Int)
  PROVE  ToSet(s \o t) \subseteq ToSet(s) \cup ToSet(t)
<1>1. /\ Len(s) \in Nat /\ Len(t) \in Nat /\ DOMAIN s = 1..Len(s) /\ DOMAIN t = 1..Len(t)
      /\ s \o t \in Seq(Int) /\ Len(s \o t) = Len(s) + Len(t)
      /\ \A i \in 1..Len(s) + Len(t) : (s \o t)[i] = IF i <= Len(s) THEN s[i] ELSE t[i - Len(s)]
  BY LenProperties, ConcatProperties
<1>2. DOMAIN (s \o t) = 1..Len(s) + Len(t)
  BY <1>1, LenProperties
<1>3. ASSUME NEW i \in 1..Len(s) + Len(t) PROVE (s \o t)[i] \in ToSet(s) \cup ToSet(t)
  <2>1. CASE i <= Len(s)
    <3>1. i \in 1..Len(s) /\ (s \o t)[i] = s[i]
      BY <2>1, <1>1
    <3> QED BY <3>1, <1>1 DEF ToSet
  <2>2. CASE i > Len(s)
    <3>1. i - Len(s) \in 1..Len(t) /\ (s \o t)[i] = t[i - Len(s)]
      BY <2>2, <1>1
    <3> QED BY <3>1, <1>1 DEF ToSet
  <2> QED BY <2>1, <2>2, <1>1
<1> QED BY <1>2, <1>3 DEF ToSet

(* The byte that completes a chunk.                                        *)
LEMMA ChunkEndsAt ==
  ASSUME NEW m \in Nat \ {0}, NEW d \in Nat, Multiple(d, m), NEW n \in d + 1..d + m
  PROVE  n + ((-n) % m) = d + m
<1> DEFINE s == n + ((-n) % m)
<1>1. n \in Nat /\ s \in Int
  OBVIOUS
<1>2. Multiple(d + m, m) /\ d + m \in Nat
  BY MultipleNext
<1>3. m - 1 \in 0..m - 1 /\ 0 \in 0..m - 1
  OBVIOUS
<1>4. (s <= d + (m - 1)) <=> n <= d
  BY <1>1, <1>3, ChunkEnd
<1>5. (s <= (d + m) + 0) <=> n <= d + m
  BY <1>1, <1>2, <1>3, ChunkEnd
<1> HIDE DEF s
<1>6. s = d + m
  BY <1>1, <1>4, <1>5
<1> QED BY <1>6 DEF s

(* What the client is about to read arrived while `paused' was what it is: *)
(* nobody pauses or plays inside the data handler.                         *)
Unread ==
  pc = "loop" /\ task # 0 =>
    \A i \in 1..Len(read_buffer) :
      read_buffer[i].kind = "audio" => <<read_buffer[i].n, paused>> \in heard

Pauses == heard \subseteq Int \X BOOLEAN /\ Unread /\ PauseDecides

LEMMA UnreadLater ==
  ASSUME Inv, Unread, pc = "loop", MoreToDo, read_buffer' = Tail(read_buffer),
         UNCHANGED <<pc, paused, heard>>
  PROVE  Unread'
<1>1. /\ read_buffer \in Seq(Bytes) /\ read_buffer # <<>> /\ task # 0
      /\ Len(read_buffer) \in Nat \ {0} /\ Len(Tail(read_buffer)) = Len(read_buffer) - 1
  BY NextByte DEF MoreToDo
<1>2. \A i \in 1..Len(Tail(read_buffer)) : Tail(read_buffer)[i] = read_buffer[i + 1]
  <2> HIDE DEF Bytes
  <2> QED BY <1>1, HeadTailProperties
<1>3. \A i \in 1..Len(Tail(read_buffer)) : i + 1 \in 1..Len(read_buffer)
  BY <1>1
<1> QED BY <1>1, <1>2, <1>3 DEF Unread

LEMMA WrittenPauses ==
  ASSUME Inv, Pauses, ReadAudioData \/ ReadAudioDataOnly
  PROVE  PauseDecides'
<1>1. PICK k \in Sound : Completes(k) /\ k \in Phase \cup {"audio_only"} /\ Expected(k) = {"audio"}
  BY DEF ReadAudioData, ReadAudioDataOnly, Sound, Phase, Expected
<1>2. PICK d, r : Done(k, d, r)
  BY <1>1, DoneBy
<1>3. Fits(k)
  BY <1>1, DoneBy
<1>4. WriteOut /\ metaint' = metaint /\ heard' = heard
  BY DEF ReadAudioData, ReadAudioDataOnly, Continue
<1>5. /\ d \in Nat /\ metaint \in Nat \ {0} /\ Multiple(d, metaint)
      /\ ToSet(Collected) = d + 1..d + metaint /\ Head(read_buffer).n = d + metaint
  BY <1>1, <1>2, <1>3, <1>4, WrittenOut
<1>6. <<d + metaint, paused>> \in heard
  <2>1. Head(read_buffer).kind = "audio"
    BY <1>1, <1>3 DEF Fits
  <2>2. /\ pc = "loop" /\ task # 0 /\ Head(read_buffer) = read_buffer[1]
        /\ 1 \in 1..Len(read_buffer)
    <3>1. pc = "loop" /\ MoreToDo
      BY <1>1 DEF Completes
    <3>2. read_buffer \in Seq(Bytes) /\ read_buffer # <<>> /\ Len(read_buffer) \in Nat \ {0}
      BY <3>1, NextByte
    <3> QED BY <3>1, <3>2, HeadTailProperties DEF MoreToDo
  <2> QED BY <2>1, <2>2, <1>5 DEF Pauses, Unread
<1>7. \A n \in ToSet(Collected) : <<ChunkLast(n), paused>> \in heard
  <2>1. ASSUME NEW n \in ToSet(Collected) PROVE ChunkLast(n) = d + metaint
    BY <2>1, <1>5, ChunkEndsAt DEF ChunkLast
  <2> QED BY <2>1, <1>6
<1>8. /\ \A n \in ToSet(written) : <<ChunkLast(n), FALSE>> \in heard
      /\ \A n \in dropped : <<ChunkLast(n), TRUE>> \in heard
  <2>1. metaint > 0
    BY <1>5
  <2> QED BY <2>1 DEF Pauses, PauseDecides
<1>9. paused \in BOOLEAN
  BY DEF Inv, Shape
<1>10. CASE paused
  <2>1. dropped' = dropped \cup ToSet(Collected) /\ written' = written
    BY <1>4, <1>10 DEF WriteOut
  <2>2. \A n \in dropped' : <<ChunkLast(n), TRUE>> \in heard
    BY <2>1, <1>7, <1>8, <1>10
  <2> QED BY <2>1, <2>2, <1>4, <1>8 DEF PauseDecides, ChunkLast
<1>11. CASE ~paused
  <2>1. written' = written \o Collected /\ dropped' = dropped
    BY <1>4, <1>11 DEF WriteOut
  <2>2. ToSet(written') \subseteq ToSet(written) \cup ToSet(Collected)
    <3>1. written \in Seq(Int) /\ Collected \in Seq(Int)
      <4>1. written \in Seq(1..MaxAudio) /\ \A n \in 1..MaxAudio : n \in Int
        BY DEF Inv, Shape
      <4>2. \A i \in 1..Len(written) : written[i] \in Int
        BY <4>1, ElementOfSeq
      <4>3. pc = "loop" /\ MoreToDo
        BY <1>1 DEF Completes
      <4>4. written \in Seq(Int)
        BY ONLY <4>1, <4>2
      <4> QED BY <4>3, <4>4, NextByte
    <3> QED BY <3>1, <2>1, SetOfConcat
  <2>3. paused = FALSE
    BY <1>9, <1>11
  <2>4. \A n \in ToSet(written') : <<ChunkLast(n), FALSE>> \in heard
    BY <2>2, <2>3, <1>7, <1>8
  <2> QED BY <2>1, <2>4, <1>4, <1>8 DEF PauseDecides, ChunkLast
<1> QED BY <1>10, <1>11

(* Until the headers have been read nothing was written or dropped.        *)
LEMMA NothingWritten ==
  ASSUME Inv, Completes("header")
  PROVE  ToSet(written) = {} /\ dropped = {}
<1>1. PICK d, r : Done("header", d, r)
  BY DoneBy DEF Phase
<1>2. metaint = 0
  BY Acting DEF Phase
<1>3. d \in Nat /\ Multiple(d, 0) /\ ToSet(written) \cup dropped = 1..d
  BY <1>1, <1>2 DEF Done, Progress
<1>4. d = 0
  BY <1>3 DEF Multiple
<1> QED BY <1>3, <1>4

LEMMA PausesStep ==
  ASSUME Inv, Pauses, [Next]_vars
  PROVE  Pauses'
<1> USE DEF Pauses
<1>1. ASSUME UNCHANGED <<metaint, written, dropped, heard>> PROVE PauseDecides'
  BY <1>1 DEF PauseDecides, ChunkLast
<1>2. CASE Server \/ OnConnect \/ Return \/ PlayOrPause \/ Close \/ Aborted \/ UNCHANGED vars
  <2>1. UNCHANGED <<metaint, written, dropped, heard>>
    BY <1>2 DEF Server, SendStatus, SendHeader, SendBlank, SendAudio, SendLength, SendMeta,
                SendByte, OnConnect, Return, PlayOrPause, Close, Aborted, vars, client
  <2>2. \/ UNCHANGED <<pc, task, read_buffer, paused, heard>>
        \/ pc' = "idle"
    BY <1>2 DEF Server, SendStatus, SendHeader, SendBlank, SendAudio, SendLength, SendMeta,
                SendByte, OnConnect, Return, PlayOrPause, Close, Aborted, vars, client
  <2>3. Unread'
    BY <2>2 DEF Unread
  <2> QED BY <2>1, <2>3, <1>1
<1>3. CASE Arrive
  <2>1. /\ pc = "idle" /\ read_buffer' = read_buffer \o net /\ UNCHANGED client
        /\ heard' = heard \cup {<<b.n, paused>> : b \in {a \in ToSet(net) : a.kind = "audio"}}
    BY <1>3 DEF Arrive
  <2>2. net \in Seq(Bytes) /\ read_buffer \in Seq(Bytes) /\ paused \in BOOLEAN
    BY DEF Inv, Shape
  <2>3. DOMAIN net = 1..Len(net) /\ \A i \in 1..Len(net) : net[i] \in Bytes
    <3> HIDE DEF Bytes
    <3> QED BY <2>2, LenProperties, ElementOfSeq
  <2>4. heard' \subseteq Int \X BOOLEAN
    BY <2>1, <2>2, <2>3 DEF ToSet, Bytes
  <2>5. Unread'
    <3>1. SUFFICES ASSUME task # 0 PROVE Unread'
      BY <2>1 DEF client, Unread
    <3>2. read_buffer = <<>>
      BY <3>1, <2>1 DEF Inv, Tasks
    <3>3. read_buffer' = net
      <4> HIDE DEF Bytes
      <4> QED BY <3>2, <2>1, <2>2, ConcatEmptySeq
    <3>4. \A i \in 1..Len(net) : net[i].kind = "audio" => <<net[i].n, paused>> \in heard'
      BY <2>1, <2>3 DEF ToSet
    <3> QED BY <3>3, <3>4, <2>1 DEF Unread, client
  <2>6. PauseDecides'
    <3>1. UNCHANGED <<metaint, written, dropped>> /\ heard \subseteq heard'
      BY <2>1 DEF client
    <3> QED BY <3>1 DEF PauseDecides, ChunkLast
  <2> QED BY <2>4, <2>5, <2>6
<1>4. CASE Collect \/ Action
  <2>1. pc = "loop" /\ MoreToDo /\ heard' = heard
    BY <1>4 DEF Collect, Action, ReadStatusLine, ReadHeaders, ReadAudioData, ReadAudioDataOnly,
                ReadMetadataHeader, ReadMetadataData, Completes, Continue
  <2>2. \/ read_buffer' = Tail(read_buffer) /\ UNCHANGED <<pc, paused, heard>>
        \/ pc' = "assertion"
    BY <1>4 DEF Collect, Action, ReadStatusLine, ReadHeaders, ReadAudioData, ReadAudioDataOnly,
                ReadMetadataHeader, ReadMetadataData, Continue, Receive
  <2>3. Unread'
    <3>1. CASE pc' = "assertion"
      BY <3>1 DEF Unread
    <3> QED BY <3>1, <2>1, <2>2, UnreadLater
  <2>4. CASE Collect \/ ReadStatusLine \/ ReadMetadataHeader \/ ReadMetadataData
    <3>1. UNCHANGED <<metaint, written, dropped, heard>>
      BY <2>4, <2>1 DEF Collect, ReadStatusLine, ReadMetadataHeader, ReadMetadataData
    <3> QED BY <3>1, <2>1, <2>3, <1>1
  <2>5. CASE ReadHeaders
    <3>1. ToSet(written) = {} /\ dropped = {} /\ UNCHANGED <<written, dropped>>
      BY <2>5, NothingWritten DEF ReadHeaders
    <3> QED BY <3>1, <2>1, <2>3 DEF PauseDecides
  <2>6. CASE ReadAudioData \/ ReadAudioDataOnly
    BY <2>6, <2>1, <2>3, WrittenPauses
  <2> QED BY <1>4, <2>4, <2>5, <2>6 DEF Action
<1> QED BY <1>2, <1>3, <1>4 DEF Next, Processor

(* Pauses is inductive, given Inv.                                         *)
THEOREM ShoutcastPauses == Spec => []Pauses
<1>1. Init => Pauses
  BY DEF Init, Pauses, Unread, PauseDecides
<1>2. Inv /\ Pauses /\ [Next]_vars => Pauses'
  BY PausesStep
<1> QED BY <1>1, <1>2, ShoutcastInvariance, PTL DEF Spec
-----------------------------------------------------------------------------
(* The variables of the client keep their types, and there is memory for   *)
(* every task.                                                             *)
THEOREM ShoutcastTypeCorrect == Spec => []TypeOK
<1>1. Inv /\ Pauses => TypeOK
  <2>1. SUFFICES ASSUME Inv, Pauses PROVE TypeOK
    OBVIOUS
  <2> DEFINE B == [kind : Kind, n : Int]
  <2>2. read_buffer \in Seq(B) /\ net \in Seq(B)
    <3>1. \A b \in Bytes : b \in B
      BY DEF Bytes
    <3>2. read_buffer \in Seq(Bytes) /\ net \in Seq(Bytes)
      BY <2>1 DEF Inv, Shape
    <3> HIDE DEF Bytes, B
    <3>3. ASSUME NEW s \in Seq(Bytes) PROVE s \in Seq(B)
      <4>1. \A i \in 1..Len(s) : s[i] \in B
        BY <3>1, ElementOfSeq
      <4> QED BY ONLY <4>1, <3>3
    <3> QED BY <3>2, <3>3
  <2>3. DOMAIN objects \subseteq 1..Segment + 2
    BY <2>1 DEF Inv, Tasks, Memory
  <2>4. \A o \in DOMAIN objects :
          /\ objects[o].kind \in Kind \cup {"audio_only"}
          /\ Len(objects[o].got) <= objects[o].size
    BY <2>1 DEF Inv, Tasks, Info, Phase, Kind
  <2>5. /\ pc \in {"start", "idle", "loop", "assertion"} /\ {stream, paused} \subseteq BOOLEAN
        /\ status \in {-1, OK, 404} /\ {header, metaint} \subseteq MetaInts \cup {-1, 0, Default}
        /\ {title, titles} \subseteq 0..2
        /\ written \in Seq(1..MaxAudio) /\ dropped \subseteq 1..MaxAudio
        /\ heard \subseteq Int \X BOOLEAN
    BY <2>1 DEF Inv, Shape, Pauses
  <2> HIDE DEF B
  <2>6. {read_buffer, net} \subseteq Seq(B)
    BY <2>2
  <2> QED BY <2>3, <2>4, <2>5, <2>6 DEF TypeOK, B
<1> QED BY <1>1, ShoutcastInvariance, ShoutcastPauses, PTL

(* No task object is used or deleted while another loop still needs it,    *)
(* and none is left over (Task::operator() and Processor of                *)
(* asio/processor.hh), however deep actions nest.                          *)
THEOREM ShoutcastTasksOwned == Spec => []TasksOwned
<1>1. Inv => TasksOwned
  BY DEF Inv, Tasks
<1> QED BY <1>1, ShoutcastInvariance, PTL

(* Every byte is taken for what the server meant by it, for every interval *)
(* of the metadata and every way the stream is cut.                        *)
THEOREM ShoutcastInSync == Spec => []InSync
<1>1. Inv => InSync
  BY ReadsFitting DEF InSync
<1> QED BY <1>1, ShoutcastInvariance, PTL

(* While the connection lasts the client reads the stream, except before   *)
(* it is made and after a status other than OK.                            *)
LEMMA Idle ==
  ASSUME Inv, pc = "idle", stream, status # 404
  PROVE  Reading /\ read_buffer = <<>> /\ read_buffer \o net = net
<1>1. Reading /\ read_buffer = <<>>
  BY DEF Inv, Course, Tasks, Reading
<1>2. read_buffer \o net = net
  <2>1. net \in Seq(Bytes)
    BY DEF Inv, Shape
  <2> HIDE DEF Bytes
  <2> QED BY <2>1, <1>1, ConcatEmptySeq
<1> QED BY <1>1, <1>2

LEMMA NoneWaitsInv ==
  ASSUME Inv
  PROVE  NoneWaits
<1> DEFINE m == metaint
           last(n) == n + ((-n) % m)
<1>1. SUFFICES ASSUME pc = "idle", stream, m > 0
               PROVE  ToSet(written) \cup dropped = {n \in 1..audio : Arrived(last(n))}
  BY DEF NoneWaits, ChunkLast
<1>2. status = OK
  BY <1>1 DEF Inv, Course
<1>3. Reading /\ read_buffer \o net = net
  BY <1>1, <1>2, Idle DEF OK
<1>4. PICK d \in Nat : Progress(d)
  BY <1>3 DEF Inv, Progressing
<1> DEFINE c == Place(d).audio
           g == Current.got
<1>5. /\ Multiple(d, m) /\ ToSet(written) \cup dropped = 1..d
      /\ Place(d) \in Position /\ Leads(net, Place(d), Source)
  BY <1>3, <1>4 DEF Progress
<1>6. m \in Nat \ {0} /\ audio \in Nat
  BY <1>1, Numbers
<1>7. c \in Nat /\ c - d \in 0..m - 1
  <2>1. task # 0 /\ Current \in Info
    BY <1>3 DEF Reading, Inv, Tasks, TasksOwned, Current
  <2>2. Len(g) \in Nat
    <3>1. g \in Seq(Int)
      BY <2>1 DEF Info
    <3> HIDE DEF g
    <3> QED BY <3>1, LenProperties
  <2>3. c = IF Current.kind \in Sound THEN d + Len(g) ELSE d
    BY DEF Place
  <2>4. Current.kind \in Sound => Len(g) < m
    BY <1>3 DEF Inv, Course, Sound
  <2>5. c \in Nat
    BY <1>5 DEF Position
  <2> HIDE DEF c, g, m
  <2> QED BY <2>2, <2>3, <2>4, <2>5, <1>6
<1>8. /\ c <= audio
      /\ \A n \in Nat : Arrived(n) <=> n <= c
  <2>1. Source \in Position /\ Source.audio = audio /\ net \in Seq(Bytes)
    BY SourceIsPosition DEF Inv, Shape, Source
  <2>2. ASSUME NEW n \in Nat
        PROVE  /\ c <= audio
               /\ (n <= audio /\ ~\E i \in DOMAIN net : net[i] = Byte("audio", n)) <=> n <= c
    BY <2>1, <1>5, LeadsAudio
  <2>3. 0 \in Nat
    OBVIOUS
  <2> QED BY <2>2, <2>3 DEF Arrived
<1> DEFINE r == c - d
<1>9. c = d + r /\ r \in 0..m - 1
  BY <1>7
<1> HIDE DEF c, m, r
<1>10. ASSUME NEW n \in 1..audio PROVE Arrived(last(n)) <=> n \in 1..d
  <2>1. n \in Nat /\ n + ((-n) % m) \in Nat
    BY <1>6
  <2>2. (n + ((-n) % m) <= d + r) <=> n <= d
    BY <2>1, <1>5, <1>6, <1>9, ChunkEnd DEF m
  <2>3. Arrived(last(n)) <=> n + ((-n) % m) <= c
    BY <2>1, <1>8
  <2> QED BY <2>1, <2>2, <2>3, <1>9, <1>6
<1>11. 1..d \subseteq 1..audio
  BY <1>6, <1>7, <1>8
<1> HIDE DEF last
<1> QED BY <1>5, <1>10, <1>11

(* Standard output has whole chunks of audio in their order; no chunk that *)
(* has arrived waits; and it is written if the client was not paused when  *)
(* the last byte of the chunk arrived, dropped if it was                   *)
(* (read_audio_data() and read_audio_data_only() of shoutcast.cc).         *)
THEOREM ShoutcastAudioInChunks == Spec => []AudioInChunks
<1>1. Inv /\ Pauses => AudioInChunks
  BY NoneWaitsInv DEF AudioInChunks, Inv, Output, Pauses
<1> QED BY <1>1, ShoutcastInvariance, ShoutcastPauses, PTL

(* When all has been read the title of the client is that of the server    *)
(* (read_metadata_data() of shoutcast.cc).                                 *)
THEOREM ShoutcastTitleCurrent == Spec => []TitleCurrent
<1>1. Inv => TitleCurrent
  <2>1. SUFFICES ASSUME Inv, pc = "idle", stream, status = OK, net = <<>>, server # "meta"
                 PROVE  title = titles
    BY DEF TitleCurrent
  <2>2. Reading /\ read_buffer \o net = <<>>
    BY <2>1, Idle DEF OK
  <2>3. PICK d \in Nat : Progress(d)
    BY <2>1, <2>2 DEF Inv, Progressing
  <2>4. Place(d) \in Position /\ Leads(<<>>, Place(d), Source)
    BY <2>2, <2>3 DEF Progress
  <2>5. Place(d) = Source
    <3>1. Source \in Position
      BY <2>1, SourceIsPosition DEF Inv
    <3> QED BY <3>1, <2>4, LeadsNowhere
  <2>6. Place(d).at = server /\ Place(d).title = titles
    BY <2>5 DEF Source
  <2>7. Current.kind # "meta"
    BY <2>1, <2>6 DEF Place
  <2> QED BY <2>6, <2>7 DEF Place
<1> QED BY <1>1, ShoutcastInvariance, PTL
=============================================================================
