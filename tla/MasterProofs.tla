---------------------------- MODULE MasterProofs ----------------------------
(***************************************************************************)
(* Theorems about the master, for every bound on its clock, alarms,        *)
(* sessions and players, and all that users and network may do.            *)
(***************************************************************************)
EXTENDS Master, SequenceTheorems, FiniteSetTheorems, TLAPS

AP == INSTANCE AlarmProofs

Mishap == {"lose", "reorder", "late", "stranger"}

(* The types of the master's own variables; a request names its session by *)
(* a number, which Heard says is one.                                      *)
Request == [task : A!Task, session : Nat, tp : A!Time]

Shape ==
  /\ connections \in [Session -> {"open", "closed", "null"}]
  /\ Session \subseteq 1..MaxSession + MaxPlayer
  /\ connection_counter \in 0..MaxSession + MaxPlayer
  /\ players \in [DOMAIN players -> BOOLEAN]
  /\ titles \in [DOMAIN players -> Seq(Request)]
  /\ asked \in [DOMAIN players -> SUBSET A!Task]
  /\ owner \in [1..counter -> DOMAIN players]
  /\ death \in Death /\ mishap \subseteq Mishap

(* Players are numbered without a gap, as none is erased.                  *)
Consecutive == \E n \in 0..MaxPlayer : DOMAIN players = 1..n

(* connection_id_gen() skips only numbers that are sessions already; a     *)
(* session above the counter, or one that is null, comes of the number of  *)
(* a player.                                                               *)
Numbering ==
  /\ ~crashed => 1..connection_counter \subseteq Session
  /\ \A s \in Session : s > connection_counter => s \in Player
  /\ \A s \in Session : connections[s] = "null" => s \in Player

(* No alarm is armed for later than a new request would be.                *)
InTime == \A t \in DOMAIN tasks : tasks[t] <= now + Wait

(* A request is of a session that exists, though it may have hung up.      *)
Heard ==
  \A p \in DOMAIN players : \A i \in DOMAIN titles[p] :
    /\ titles[p][i].session \in Session
    /\ connections[titles[p][i].session] # "null"

(* A request keeps the time its alarm was armed for.                       *)
TimesKept ==
  \A p \in DOMAIN players : \A i \in DOMAIN titles[p] :
    titles[p][i].tp = tasks[titles[p][i].task]

(* Outside of refresh() no task is left that was due when it last read the *)
(* clock.                                                                  *)
NoneDue ==
  /\ upto <= now
  /\ phase = "idle" => \A t \in DOMAIN tasks : upto < tasks[t]

(* If answers were lost at most, none is under way that no request waits   *)
(* for; if some were late at most, the answer to every request that waits  *)
(* is under way.                                                           *)
Expected == mishap \subseteq {"lose"} => \A p \in DOMAIN players : asked[p] \subseteq TasksOf(p)

Awaited == mishap \subseteq {"late"} => \A p \in DOMAIN players : TasksOf(p) \subseteq asked[p]

Inv ==
  /\ AP!IInv
  /\ Shape /\ Consecutive /\ Numbering /\ InTime /\ Heard
  /\ TimesKept /\ NoneDue /\ Expected /\ Awaited
  /\ TitlesMatchAlarms /\ NeverPopsEmpty /\ AnswersShift /\ UnexpectedIsStray
-----------------------------------------------------------------------------
LEMMA Bounds ==
  /\ MaxTime \in Nat /\ MaxTask \in Nat /\ MaxSession \in Nat /\ MaxPlayer \in Nat
  /\ Wait \in Nat \ {0}
BY MasterAssumption

(* What AlarmProofs knows of the alarm, in the words of this module.       *)
ArmedTasks == IF phase = "call" THEN DOMAIN tasks \ {element[2]} ELSE DOMAIN tasks

LEMMA AlarmFacts ==
  ASSUME AP!IInv
  PROVE  /\ A!TypeOK /\ A!MapsAgree
         /\ now \in 0..MaxTime /\ counter \in 0..MaxTask
         /\ tasks \in [DOMAIN tasks -> 0..MaxTime]
         /\ DOMAIN tasks \subseteq 1..counter
         /\ phase \in {"idle", "scan", "call"}
         /\ phase = "call" => element \in schedule
         /\ DOMAIN A!Armed = ArmedTasks
<1>1. A!TypeOK
  BY DEF AP!IInv, AP!TypeOK, A!TypeOK, AP!Time, A!Time, AP!Task, A!Task, AP!Phase, A!Phase
<1>2. A!MapsAgree
  BY DEF AP!IInv, AP!MapsAgree, A!MapsAgree
<1>3. DOMAIN tasks \subseteq 1..counter
  BY <1>1 DEF AP!IInv, AP!Numbered, A!TypeOK, A!Task
<1>4. DOMAIN A!Armed = ArmedTasks
  BY DEF A!Armed, A!Restrict, ArmedTasks
<1>5. phase = "call" => element \in schedule
  BY DEF AP!IInv, AP!IteratorValid
<1> QED
  BY <1>1, <1>2, <1>3, <1>4, <1>5 DEF A!TypeOK, A!Time, A!Phase

LEMMA FirstRequest ==
  ASSUME Shape, NEW p \in DOMAIN players, titles[p] # <<>>
  PROVE  /\ Head(titles[p]) = titles[p][1] /\ 1 \in DOMAIN titles[p]
         /\ Head(titles[p]) \in Request
         /\ Head(titles[p]).task \in A!Task /\ Head(titles[p]).session \in Nat
         /\ Head(titles[p]).task \in TasksOf(p)
<1>1. titles[p] \in Seq(Request)
  BY DEF Shape
<1> HIDE DEF Request
<1>2. Head(titles[p]) \in Request
  BY <1>1, HeadTailProperties
<1>3. Head(titles[p]) = titles[p][1] /\ 1 \in DOMAIN titles[p]
  BY <1>1
<1> QED BY <1>2, <1>3 DEF Request, TasksOf

(* The master uses the alarm as its specification allows.                  *)
LEMMA AlarmStep ==
  ASSUME Inv, [Next]_vars
  PROVE  [A!Next]_(A!alarmVars)
<1> USE DEF alarmVars, A!alarmVars
<1>1. CASE Accepted \/ Command \/ (\E s \in Session : HangUp(s) \/ Connect(s))
  BY <1>1 DEF Accepted, Command, HangUp, Connect
<1>2. ASSUME NEW s \in Session, NEW p \in DOMAIN players, Title(s, p) PROVE A!Next
  <2>1. A!At(now + Wait) /\ now + Wait <= MaxTime
    BY <1>2 DEF Title
  <2>2. now + Wait \in A!Time
    BY <2>1, AlarmFacts, Bounds DEF Inv, A!Time
  <2> QED BY <2>1, <2>2 DEF A!Next
<1>3. ASSUME NEW p \in DOMAIN players, NEW query, OnTitle(p, query)
      PROVE  A!Next \/ UNCHANGED A!alarmVars
  <2>1. CASE titles[p] = <<>>
    BY <1>3, <2>1 DEF OnTitle
  <2>2. CASE titles[p] # <<>>
    <3>1. A!Cancel(Head(titles[p]).task)
      BY <1>3, <2>2 DEF OnTitle, Cancelled
    <3>2. Head(titles[p]).task \in A!Task
      BY <2>2, FirstRequest DEF Inv
    <3> QED BY <3>1, <3>2 DEF A!Next
  <2> QED BY <2>1, <2>2
<1>4. CASE \E p \in DOMAIN players : \/ Stranger(p) \/ ReadFails(p)
                                     \/ (\E query \in asked[p] : Answer(p, query))
  BY <1>3, <1>4 DEF Stranger, ReadFails, Answer
<1>5. CASE RefreshStart \/ RefreshErase \/ RefreshEnd \/ Tick \/ \E e \in schedule : RefreshCall(e)
  BY <1>5 DEF RefreshStart, RefreshErase, RefreshEnd, Tick, RefreshCall, A!Next
<1>6. CASE Lost \/ Crashed \/ UNCHANGED vars
  BY <1>6 DEF Lost, Lose, Crashed, vars
<1> QED
  BY <1>1, <1>2, <1>4, <1>5, <1>6 DEF Next, Loop, Handlers

LEMMA AlarmInv ==
  ASSUME Inv, [Next]_vars
  PROVE  AP!IInv'
<1>1. MaxTime \in Nat /\ MaxTask \in Nat
  BY Bounds
<1>2. [A!Next]_(A!alarmVars) => [AP!Next]_(AP!alarmVars)
  BY DEF A!Next, AP!Next, A!alarmVars, AP!alarmVars, A!Time, AP!Time, A!Task, AP!Task,
         A!At, AP!At, A!Future, AP!Future, A!Fresh, AP!Fresh,
         A!ClientRuns, AP!ClientRuns, A!Cancel, AP!Cancel, A!MayCancel, AP!MayCancel,
         A!Unscheduled, AP!Unscheduled, A!Restrict, AP!Restrict,
         A!RefreshStart, AP!RefreshStart, A!RefreshCall, AP!RefreshCall,
         A!IsBegin, AP!IsBegin, A!Earlier, AP!Earlier,
         A!RefreshErase, AP!RefreshErase, A!RefreshEnd, AP!RefreshEnd, A!Tick, AP!Tick
<1>3. AP!IInv /\ [AP!Next]_(AP!alarmVars) => AP!IInv'
  BY <1>1, AP!StepInv
<1> QED BY <1>2, <1>3, AlarmStep DEF Inv
-----------------------------------------------------------------------------
(* connection_id_gen() finds a number, the next that is no session's, and  *)
(* it is within the bounds of the model.                                   *)
LEMMA FreeId ==
  ASSUME Shape, Numbering, ~crashed
  PROVE  /\ ConnectionId \in connection_counter + 1 .. connection_counter + MaxPlayer + 1
         /\ ConnectionId \notin Session
         /\ 1..ConnectionId - 1 \subseteq Session
<1> DEFINE cc == connection_counter
           S == {i \in cc + 1 .. cc + MaxPlayer + 1 : i \notin Session}
<1>1. cc \in Nat /\ MaxPlayer \in Nat
  BY Bounds DEF Shape
<1>2. S # {}
  <2> DEFINE top == (IF cc < MaxPlayer THEN MaxPlayer ELSE cc) + 1
  <2>1. top \in cc + 1 .. cc + MaxPlayer + 1
    BY <1>1
  <2>2. top \notin Session
    BY <1>1 DEF Numbering, Player
  <2> QED BY <2>1, <2>2
<1>3. S \in SUBSET Nat
  BY <1>1
<1>4. PICK m \in S : \A n \in S : m <= n
  BY <1>2, <1>3, AP!Least, MasterAssumption
<1>5. \A j \in cc + 1 .. m - 1 : j \in Session
  BY <1>1, <1>4
<1>6. ConnectionId \in S /\ \A j \in cc + 1 .. ConnectionId - 1 : j \in Session
  <2>1. \E i \in cc + 1 .. cc + MaxPlayer + 1 :
          i \notin Session /\ \A j \in cc + 1 .. i - 1 : j \in Session
    BY <1>4, <1>5
  <2> QED BY <2>1 DEF ConnectionId
<1> HIDE DEF ConnectionId
<1>7. 1..cc \subseteq Session
  BY DEF Numbering
<1>8. 1..ConnectionId - 1 \subseteq Session
  BY <1>1, <1>6, <1>7
<1> QED BY <1>6, <1>8

LEMMA IdBounded ==
  ASSUME Shape, Numbering, ~crashed,
         Cardinality({s \in Session : connections[s] # "null"}) < MaxSession
  PROVE  ConnectionId <= MaxSession + MaxPlayer
<1> DEFINE Real == {s \in Session : connections[s] # "null"}
           n == ConnectionId
<1>1. n \in Nat /\ n > 0 /\ 1..n - 1 \subseteq Session
  BY FreeId, Bounds DEF Shape
<1>2. IsFiniteSet(1..MaxSession + MaxPlayer) /\ Real \subseteq 1..MaxSession + MaxPlayer
  <2>1. 1 \in Int /\ MaxSession + MaxPlayer \in Int
    BY Bounds
  <2>2. IsFiniteSet(1..MaxSession + MaxPlayer)
    BY ONLY <2>1, FS_Interval
  <2> QED BY <2>2 DEF Shape
<1>3. IsFiniteSet(Real) /\ IsFiniteSet(Player) /\ Cardinality(Player) = MaxPlayer
  <2>1. IsFiniteSet(1..MaxPlayer) /\ Cardinality(1..MaxPlayer) = MaxPlayer
    <3>1. MaxPlayer \in Nat /\ MaxPlayer \in Int /\ 1 \in Int
      BY Bounds
    <3>2. /\ IsFiniteSet(1..MaxPlayer)
          /\ Cardinality(1..MaxPlayer) = IF 1 > MaxPlayer THEN 0 ELSE MaxPlayer - 1 + 1
      BY ONLY <3>1, FS_Interval
    <3> QED BY <3>1, <3>2
  <2>2. IsFiniteSet(Real)
    BY <1>2, FS_Subset
  <2> QED BY <2>1, <2>2 DEF Player
<1>4. IsFiniteSet(1..n - 1) /\ Cardinality(1..n - 1) = n - 1
  BY <1>1, FS_Interval
<1>5. 1..n - 1 \subseteq Real \cup Player
  BY <1>1 DEF Numbering
<1> HIDE DEF Real, n
<1>6. /\ IsFiniteSet(Real \cup Player)
      /\ Cardinality(Real \cup Player) = Cardinality(Real) + MaxPlayer - Cardinality(Real \cap Player)
  BY <1>3, FS_Union
<1>7. Cardinality(1..n - 1) <= Cardinality(Real \cup Player)
  BY <1>5, <1>6, FS_Subset
<1>8. IsFiniteSet(Real \cap Player)
  BY <1>3, FS_Subset
<1>9. Cardinality(Real) \in Nat /\ Cardinality(Real \cap Player) \in Nat
  BY <1>3, <1>8, FS_CardinalityType
<1>10. Cardinality(Real) < MaxSession
  BY DEF Real
<1>11. n <= MaxSession + MaxPlayer
  BY <1>1, <1>4, <1>6, <1>7, <1>9, <1>10, Bounds
<1> QED BY <1>11 DEF n
-----------------------------------------------------------------------------
(* The deques of the players: what is pushed, what is popped, and that     *)
(* they match the alarms after it.                                         *)
LEMMA QueueKept ==
  ASSUME AP!IInv, AP!IInv', TitlesMatchAlarms,
         DOMAIN players' = DOMAIN players, UNCHANGED <<titles, owner>>,
         ArmedTasks' = ArmedTasks, \A t \in ArmedTasks : tasks'[t] = tasks[t]
  PROVE  TitlesMatchAlarms'
<1>1. DOMAIN A!Armed = ArmedTasks /\ (DOMAIN A!Armed)' = ArmedTasks'
  BY DEF A!Armed, A!Restrict, ArmedTasks
<1>2. ASSUME NEW p \in DOMAIN players
      PROVE  /\ TasksOf(p)' = TasksOf(p)
             /\ TasksOf(p) = {t \in ArmedTasks : owner[t] = p}
             /\ \A i \in DOMAIN titles[p] : tasks'[titles[p][i].task] = tasks[titles[p][i].task]
  BY <1>1 DEF TitlesMatchAlarms, TasksOf
<1> QED BY <1>1, <1>2 DEF TitlesMatchAlarms

LEMMA QueueMade ==
  ASSUME AP!IInv, AP!IInv', Shape, TitlesMatchAlarms, NEW id, id \notin DOMAIN players,
         DOMAIN players' = DOMAIN players \cup {id}, titles' = With(titles, id, <<>>),
         UNCHANGED <<alarmVars, owner>>
  PROVE  TitlesMatchAlarms'
<1>1. /\ DOMAIN titles = DOMAIN players /\ titles'[id] = <<>>
      /\ \A p \in DOMAIN players : titles'[p] = titles[p]
  BY DEF Shape, With
<1>2. UNCHANGED A!Armed
  BY DEF alarmVars, A!Armed, A!Restrict
<1>3. DOMAIN A!Armed \subseteq 1..counter
  BY AlarmFacts DEF ArmedTasks
<1>4. \A t \in DOMAIN A!Armed : owner[t] # id
  BY <1>3 DEF Shape
<1>5. UNCHANGED <<tasks, owner>>
  BY DEF alarmVars
<1>6. ASSUME NEW p \in DOMAIN players'
      PROVE  /\ TasksOf(p)' = {t \in DOMAIN A!Armed : owner[t] = p}
             /\ \A i, j \in DOMAIN titles'[p] :
                  i < j => /\ titles'[p][i].task < titles'[p][j].task
                           /\ tasks[titles'[p][i].task] <= tasks[titles'[p][j].task]
  <2>1. CASE p = id
    BY <1>1, <1>4, <2>1 DEF TasksOf
  <2>2. CASE p # id
    BY <1>1, <2>2 DEF TasksOf, TitlesMatchAlarms
  <2> QED BY <2>1, <2>2
<1> QED BY <1>2, <1>5, <1>6 DEF TitlesMatchAlarms

LEMMA Pushed ==
  ASSUME Shape, NEW p \in DOMAIN players, NEW r \in Request,
         titles' = [titles EXCEPT ![p] = PushBack(@, r)]
  PROVE  /\ titles' \in [DOMAIN players -> Seq(Request)]
         /\ \A q \in DOMAIN players : q # p => titles'[q] = titles[q]
         /\ DOMAIN titles'[p] = DOMAIN titles[p] \cup {Len(titles[p]) + 1}
         /\ \A i \in DOMAIN titles[p] : titles'[p][i] = titles[p][i]
         /\ titles'[p][Len(titles[p]) + 1] = r
         /\ DOMAIN titles[p] = 1..Len(titles[p]) /\ Len(titles[p]) \in Nat
<1>1. titles \in [DOMAIN players -> Seq(Request)] /\ titles[p] \in Seq(Request)
  BY DEF Shape
<1> HIDE DEF Request
<1>2. titles'[p] = Append(titles[p], r) /\ \A q \in DOMAIN players : q # p => titles'[q] = titles[q]
  BY <1>1 DEF PushBack
<1>3. /\ titles'[p] \in Seq(Request) /\ Len(titles'[p]) = Len(titles[p]) + 1
      /\ \A i \in 1..Len(titles[p]) : titles'[p][i] = titles[p][i]
      /\ titles'[p][Len(titles[p]) + 1] = r
  <2> DEFINE q == titles[p]
  <2>1. q \in Seq(Request) /\ r \in Request
    BY <1>1
  <2> HIDE DEF q
  <2>2. /\ Append(q, r) \in Seq(Request) /\ Len(Append(q, r)) = Len(q) + 1
        /\ \A i \in 1..Len(q) : Append(q, r)[i] = q[i]
        /\ Append(q, r)[Len(q) + 1] = r
    BY <2>1, AppendProperties
  <2> QED BY <1>2, <2>2 DEF q
<1>4. /\ DOMAIN titles[p] = 1..Len(titles[p]) /\ DOMAIN titles'[p] = 1..Len(titles[p]) + 1
      /\ Len(titles[p]) \in Nat
  BY <1>1, <1>3
<1> QED BY <1>1, <1>2, <1>3, <1>4

LEMMA QueuePut ==
  ASSUME AP!IInv, Shape, InTime, TitlesMatchAlarms, phase = "idle",
         NEW s \in Session, NEW p \in DOMAIN players,
         A!At(now + Wait), UNCHANGED players,
         titles' = [titles EXCEPT ![p] = PushBack(@, [task |-> A!Fresh, session |-> s,
                                                   tp |-> now + Wait])],
         owner' = With(owner, A!Fresh, p), now + Wait <= MaxTime
  PROVE  TitlesMatchAlarms'
<1> DEFINE r == [task |-> A!Fresh, session |-> s, tp |-> now + Wait]
           n == Len(titles[p]) + 1
<1>1. /\ counter < MaxTask /\ phase' = phase
      /\ DOMAIN tasks' = DOMAIN tasks \cup {A!Fresh}
      /\ \A t \in DOMAIN tasks' : tasks'[t] = IF t = A!Fresh THEN now + Wait ELSE tasks[t]
  BY AlarmFacts, Bounds DEF A!At, A!Future
<1>2. /\ DOMAIN tasks \subseteq 1..counter /\ A!Fresh = counter + 1 /\ counter \in 0..MaxTask
      /\ \A t \in DOMAIN tasks : t < A!Fresh /\ tasks[t] <= now + Wait
  BY AlarmFacts DEF A!Fresh, InTime
<1>3. r \in Request
  <2>1. s \in Nat
    BY Bounds DEF Shape
  <2>2. A!Fresh \in A!Task
    BY <1>1, <1>2, Bounds DEF A!Task
  <2>3. now + Wait \in A!Time
    BY AlarmFacts, Bounds DEF A!Time
  <2> QED BY <2>1, <2>2, <2>3 DEF Request
<1> HIDE DEF r
<1>4. /\ \A q \in DOMAIN players : q # p => titles'[q] = titles[q]
      /\ DOMAIN titles'[p] = DOMAIN titles[p] \cup {n}
      /\ \A i \in DOMAIN titles[p] : titles'[p][i] = titles[p][i]
      /\ titles'[p][n] = r
      /\ \A i \in DOMAIN titles[p] : i < n
      /\ DOMAIN titles[p] \subseteq Nat /\ n \in Nat
  <2>1. titles' = [titles EXCEPT ![p] = PushBack(@, r)]
    BY DEF r
  <2>2. DOMAIN titles[p] = 1..Len(titles[p]) /\ Len(titles[p]) \in Nat
    BY <1>3, <2>1, Pushed
  <2>3. \A i \in DOMAIN titles[p] : i \in Nat /\ i < n
    BY <2>2
  <2>4. /\ \A q \in DOMAIN players : q # p => titles'[q] = titles[q]
        /\ DOMAIN titles'[p] = DOMAIN titles[p] \cup {n}
        /\ \A i \in DOMAIN titles[p] : titles'[p][i] = titles[p][i]
        /\ titles'[p][n] = r
    BY <1>3, <2>1, Pushed
  <2> QED BY <2>2, <2>3, <2>4
<1> HIDE DEF n
<1>5. /\ DOMAIN A!Armed = DOMAIN tasks
      /\ (DOMAIN A!Armed)' = DOMAIN tasks'
  BY <1>1 DEF A!Armed, A!Restrict
<1>6. owner'[A!Fresh] = p /\ \A t \in DOMAIN tasks : owner'[t] = owner[t]
  BY <1>2 DEF With, Shape
<1>7. \A q \in DOMAIN players : TasksOf(q) = {t \in DOMAIN tasks : owner[t] = q}
  BY <1>5 DEF TitlesMatchAlarms
<1>8. ASSUME NEW q \in DOMAIN players
      PROVE  TasksOf(q)' = {t \in DOMAIN tasks' : owner'[t] = q}
  <2>1. CASE q = p
    <3>1. TasksOf(p)' = TasksOf(p) \cup {A!Fresh}
      BY <1>4 DEF TasksOf, r
    <3> QED BY <1>1, <1>6, <1>7, <2>1, <3>1
  <2>2. CASE q # p
    <3>1. TasksOf(q)' = TasksOf(q)
      BY <1>4, <2>2 DEF TasksOf
    <3> QED BY <1>1, <1>6, <1>7, <2>2, <3>1
  <2> QED BY <2>1, <2>2
<1>9. ASSUME NEW q \in DOMAIN players, NEW i \in DOMAIN titles'[q], NEW j \in DOMAIN titles'[q],
             i < j
      PROVE  /\ titles'[q][i].task < titles'[q][j].task
             /\ tasks'[titles'[q][i].task] <= tasks'[titles'[q][j].task]
  <2>1. ASSUME NEW k \in DOMAIN titles[q]
        PROVE  /\ titles'[q][k] = titles[q][k]
               /\ titles[q][k].task \in DOMAIN tasks
               /\ tasks'[titles[q][k].task] = tasks[titles[q][k].task]
    <3>1. titles[q][k].task \in DOMAIN tasks
      BY <1>7 DEF TasksOf
    <3> QED BY <1>1, <1>2, <1>4, <3>1
  <2>2. CASE i \in DOMAIN titles[q] /\ j \in DOMAIN titles[q]
    BY <2>1, <2>2, <1>9 DEF TitlesMatchAlarms
  <2>3. CASE q = p /\ j = n /\ i \in DOMAIN titles[q]
    <3>1. titles'[q][j].task = A!Fresh /\ tasks'[A!Fresh] = now + Wait
      BY <1>1, <1>4, <2>3 DEF r
    <3> QED BY <1>2, <2>1, <2>3, <3>1
  <2>4. (i \in DOMAIN titles[q] /\ j \in DOMAIN titles[q]) \/ (q = p /\ j = n /\ i \in DOMAIN titles[q])
    BY <1>4, <1>9
  <2> QED BY <2>2, <2>3, <2>4
<1> QED BY <1>5, <1>8, <1>9 DEF TitlesMatchAlarms

LEMMA Popped ==
  ASSUME Shape, NEW p \in DOMAIN players, titles[p] # <<>>,
         titles' = [titles EXCEPT ![p] = Tail(@)]
  PROVE  /\ titles' \in [DOMAIN players -> Seq(Request)]
         /\ \A q \in DOMAIN players : q # p => titles'[q] = titles[q]
         /\ DOMAIN titles[p] = {1} \cup {i + 1 : i \in DOMAIN titles'[p]}
         /\ \A i \in DOMAIN titles'[p] : i \in Nat /\ titles'[p][i] = titles[p][i + 1]
         /\ Head(titles[p]) = titles[p][1]
         /\ DOMAIN titles'[p] \subseteq Nat \ {0}
<1>1. titles \in [DOMAIN players -> Seq(Request)] /\ titles[p] \in Seq(Request)
  BY DEF Shape
<1> HIDE DEF Request
<1>2. titles'[p] = Tail(titles[p]) /\ \A q \in DOMAIN players : q # p => titles'[q] = titles[q]
  BY <1>1
<1>3. /\ titles'[p] \in Seq(Request) /\ Len(titles'[p]) = Len(titles[p]) - 1
      /\ \A i \in 1..Len(titles'[p]) : titles'[p][i] = titles[p][i + 1]
  BY <1>1, <1>2, HeadTailProperties
<1>4. /\ DOMAIN titles[p] = 1..Len(titles[p]) /\ DOMAIN titles'[p] = 1..Len(titles[p]) - 1
      /\ Len(titles[p]) \in Nat \ {0} /\ Head(titles[p]) = titles[p][1]
  BY <1>1, <1>3
<1>5. \A i \in 2..Len(titles[p]) : i - 1 \in DOMAIN titles'[p] /\ i = (i - 1) + 1
  BY <1>4
<1>6. DOMAIN titles[p] = {1} \cup {i + 1 : i \in DOMAIN titles'[p]}
  <2>1. ASSUME NEW i \in DOMAIN titles[p]
        PROVE  i \in {1} \cup {k + 1 : k \in DOMAIN titles'[p]}
    <3>1. i = 1 \/ i \in 2..Len(titles[p])
      BY <1>4
    <3>2. CASE i \in 2..Len(titles[p])
      <4>1. i - 1 \in DOMAIN titles'[p] /\ i = (i - 1) + 1
        BY <1>5, <3>2
      <4> QED BY <4>1
    <3> QED BY <3>1, <3>2
  <2>2. ASSUME NEW i \in {1} \cup {k + 1 : k \in DOMAIN titles'[p]}
        PROVE  i \in DOMAIN titles[p]
    BY <1>4
  <2> QED BY <2>1, <2>2
<1> QED BY <1>1, <1>2, <1>3, <1>4, <1>6

LEMMA QueueDrop ==
  ASSUME AP!IInv, Shape, TitlesMatchAlarms, NEW p \in DOMAIN players, titles[p] # <<>>,
         titles' = [titles EXCEPT ![p] = Tail(@)], UNCHANGED <<players, owner>>,
         ArmedTasks' = ArmedTasks \ {Head(titles[p]).task},
         \A t \in ArmedTasks' : tasks'[t] = tasks[t]
  PROVE  /\ TitlesMatchAlarms'
         /\ TasksOf(p)' = TasksOf(p) \ {Head(titles[p]).task}
         /\ \A q \in DOMAIN players : q # p => TasksOf(q)' = TasksOf(q)
<1> DEFINE h == Head(titles[p]).task
<1>1. /\ \A q \in DOMAIN players : q # p => titles'[q] = titles[q]
      /\ DOMAIN titles[p] = {1} \cup {i + 1 : i \in DOMAIN titles'[p]}
      /\ \A i \in DOMAIN titles'[p] : i \in Nat /\ titles'[p][i] = titles[p][i + 1]
      /\ h = titles[p][1].task /\ DOMAIN titles'[p] \subseteq Nat \ {0}
  BY Popped
<1>2. /\ DOMAIN A!Armed = ArmedTasks
      /\ (DOMAIN A!Armed)' = ArmedTasks'
  BY DEF A!Armed, A!Restrict, ArmedTasks
<1>3. \A q \in DOMAIN players : TasksOf(q) = {t \in ArmedTasks : owner[t] = q}
  BY <1>2 DEF TitlesMatchAlarms
<1>4. \A i \in DOMAIN titles[p] : i # 1 => h < titles[p][i].task
  BY <1>1 DEF TitlesMatchAlarms
<1>5. h \in TasksOf(p) /\ owner[h] = p
  BY <1>1, <1>3 DEF TasksOf
<1>6. \A i \in DOMAIN titles[p] : titles[p][i].task \in Nat
  <2>1. titles[p] \in Seq(Request)
    BY DEF Shape
  <2> HIDE DEF Request
  <2>2. \A i \in DOMAIN titles[p] : titles[p][i] \in Request
    BY <2>1, ElementOfSeq
  <2> QED BY <2>2, Bounds DEF Request, A!Task
<1> HIDE DEF h
<1>7. TasksOf(p)' = TasksOf(p) \ {h}
  <2>1. TasksOf(p)' = {titles[p][i + 1].task : i \in DOMAIN titles'[p]}
    BY <1>1 DEF TasksOf
  <2>2. TasksOf(p) = {h} \cup {titles[p][i + 1].task : i \in DOMAIN titles'[p]}
    BY <1>1 DEF TasksOf
  <2>3. \A i \in DOMAIN titles'[p] : titles[p][i + 1].task # h
    <3>1. \A i \in DOMAIN titles'[p] : i + 1 \in DOMAIN titles[p] /\ i + 1 # 1
      BY <1>1
    <3>2. h \in Nat
      BY <1>1, <1>6
    <3> QED BY <1>4, <1>6, <3>1, <3>2
  <2> QED BY <2>1, <2>2, <2>3
<1>8. \A q \in DOMAIN players : q # p => TasksOf(q)' = TasksOf(q)
  BY <1>1 DEF TasksOf
<1>9. ASSUME NEW q \in DOMAIN players
      PROVE  TasksOf(q)' = {t \in ArmedTasks' : owner'[t] = q}
  BY <1>3, <1>5, <1>7, <1>8 DEF h
<1>10. ASSUME NEW q \in DOMAIN players, NEW i \in DOMAIN titles'[q], NEW j \in DOMAIN titles'[q],
             i < j
      PROVE  /\ titles'[q][i].task < titles'[q][j].task
             /\ tasks'[titles'[q][i].task] <= tasks'[titles'[q][j].task]
  <2>1. ASSUME NEW k \in DOMAIN titles'[q]
        PROVE  /\ titles'[q][k].task \in ArmedTasks'
               /\ tasks'[titles'[q][k].task] = tasks[titles'[q][k].task]
    <3>1. titles'[q][k].task \in TasksOf(q)'
      BY DEF TasksOf
    <3> QED BY <1>9, <3>1
  <2>2. CASE q = p
    <3>1. /\ i + 1 \in DOMAIN titles[p] /\ j + 1 \in DOMAIN titles[p] /\ i + 1 < j + 1
          /\ titles'[p][i] = titles[p][i + 1] /\ titles'[p][j] = titles[p][j + 1]
      BY <1>1, <1>10, <2>2
    <3> QED BY <2>1, <2>2, <3>1 DEF TitlesMatchAlarms
  <2>3. CASE q # p
    BY <1>1, <1>10, <2>1, <2>3 DEF TitlesMatchAlarms
  <2> QED BY <2>2, <2>3
<1>11. TitlesMatchAlarms'
  BY <1>2, <1>9, <1>10 DEF TitlesMatchAlarms
<1> QED BY <1>7, <1>8, <1>11 DEF h
-----------------------------------------------------------------------------
(* Which requests a step pushes or pops.  Quiet steps do neither.          *)
Quiet ==
  \/ Accepted \/ Command \/ (\E s \in Session : HangUp(s)) \/ Lost
  \/ (\E p \in DOMAIN players : ReadFails(p))
  \/ RefreshStart \/ RefreshErase \/ RefreshEnd \/ Tick \/ Crashed \/ UNCHANGED vars

Pops(p) ==
  /\ titles[p] # <<>>
  /\ titles' = [titles EXCEPT ![p] = Tail(@)]
  /\ UNCHANGED <<players, owner, connections>>
  /\ ArmedTasks' = ArmedTasks \ {Head(titles[p]).task}
  /\ \A t \in ArmedTasks' : tasks'[t] = tasks[t]
  /\ DOMAIN tasks' \subseteq DOMAIN tasks /\ \A t \in DOMAIN tasks' : tasks'[t] = tasks[t]
  /\ UNCHANGED <<now, counter>>

LEMMA QuietStep ==
  ASSUME Inv, Quiet
  PROVE  /\ UNCHANGED <<titles, owner, counter>> /\ DOMAIN players' = DOMAIN players
         /\ ArmedTasks' = ArmedTasks /\ \A t \in ArmedTasks : tasks'[t] = tasks[t]
         /\ DOMAIN tasks' \subseteq DOMAIN tasks /\ \A t \in DOMAIN tasks' : tasks'[t] = tasks[t]
         /\ now' \in Int /\ now <= now'
<1>t. now \in Int
  BY AlarmFacts DEF Inv
<1> USE DEF ArmedTasks
<1>1. CASE \/ Accepted \/ Command \/ (\E s \in Session : HangUp(s)) \/ Lost
           \/ (\E p \in DOMAIN players : ReadFails(p)) \/ Crashed \/ UNCHANGED vars
  <2>1. UNCHANGED <<alarmVars, titles, owner, players>>
    BY <1>1 DEF Accepted, Command, HangUp, Lost, Lose, ReadFails, Crashed, vars
  <2> QED BY <2>1, <1>t DEF alarmVars
<1>2. CASE RefreshStart \/ RefreshEnd
  BY <1>2, <1>t DEF RefreshStart, RefreshEnd, A!RefreshStart, A!RefreshEnd
<1>3. CASE RefreshErase
  BY <1>3, <1>t DEF RefreshErase, A!RefreshErase, A!Restrict
<1>4. CASE Tick
  <2>1. UNCHANGED <<tasks, phase, element, counter, titles, owner, players>> /\ now' = now + 1
    BY <1>4 DEF Tick, A!Tick
  <2> QED BY <2>1, <1>t
<1> QED BY <1>1, <1>2, <1>3, <1>4 DEF Quiet

(* on_title() pops the first request and cancels its alarm.                *)
LEMMA AnswerPops ==
  ASSUME Inv, NEW p \in DOMAIN players, NEW query, OnTitle(p, query), phase = "idle",
         titles[p] # <<>>, UNCHANGED <<players, owner, connections>>
  PROVE  Pops(p)
<1> DEFINE h == Head(titles[p]).task
<1>1. titles' = [titles EXCEPT ![p] = Tail(@)] /\ A!Cancel(h)
  BY DEF OnTitle, Cancelled
<1>2. h \in TasksOf(p)
  BY FirstRequest DEF Inv, TasksOf
<1>3. h \in DOMAIN tasks
  BY <1>2, AlarmFacts DEF Inv, TitlesMatchAlarms, ArmedTasks
<1> HIDE DEF h
<1>4. /\ DOMAIN tasks' = DOMAIN tasks \ {h} /\ \A t \in DOMAIN tasks' : tasks'[t] = tasks[t]
      /\ UNCHANGED <<now, counter, phase>>
  BY <1>1, <1>3 DEF A!Cancel, A!Restrict
<1> QED BY <1>1, <1>4 DEF Pops, ArmedTasks, h

(* The alarm that runs is the first of its player, whose first request     *)
(* on_alarm() pops: the requests of a player time out in the order they    *)
(* were made.                                                              *)
LEMMA AlarmPops ==
  ASSUME Inv, NEW e \in schedule, RefreshCall(e)
  PROVE  /\ owner[e[2]] \in DOMAIN players
         /\ Pops(owner[e[2]]) /\ Head(titles[owner[e[2]]]).task = e[2]
         /\ UNCHANGED death
<1> DEFINE p == owner[e[2]]
<1>1. /\ phase = "scan" /\ A!IsBegin(e) /\ element' = e /\ phase' = "call"
      /\ UNCHANGED <<now, tasks, schedule, counter>>
  BY DEF RefreshCall, A!RefreshCall
<1>2. /\ schedule = {<<tasks[t], t>> : t \in DOMAIN tasks}
      /\ DOMAIN tasks \subseteq 1..counter /\ tasks \in [DOMAIN tasks -> 0..MaxTime]
      /\ counter \in Nat
  BY AlarmFacts, Bounds DEF Inv, A!MapsAgree
<1>3. e[2] \in DOMAIN tasks /\ e = <<tasks[e[2]], e[2]>>
  BY <1>2
<1>4. p \in DOMAIN players
  BY <1>2, <1>3 DEF Inv, Shape
<1>5. DOMAIN A!Armed = DOMAIN tasks
  BY <1>1 DEF A!Armed, A!Restrict
<1>6. e[2] \in TasksOf(p)
  BY <1>3, <1>4, <1>5 DEF Inv, TitlesMatchAlarms
<1>7. PICK i \in DOMAIN titles[p] : titles[p][i].task = e[2]
  BY <1>6 DEF TasksOf
<1>8. titles[p] # <<>> /\ i \in Nat \ {0}
  BY <1>4, <1>7 DEF Inv, Shape
<1>9. Head(titles[p]) = titles[p][1] /\ 1 \in DOMAIN titles[p]
  BY <1>4, <1>8, FirstRequest DEF Inv
<1> DEFINE h == titles[p][1].task
<1>10. h = e[2]
  <2> SUFFICES ASSUME i # 1 PROVE FALSE
    BY <1>7
  <2>1. h < e[2] /\ tasks[h] <= tasks[e[2]]
    <3>1. 1 < i
      BY <1>8
    <3> QED BY <1>4, <1>7, <1>9, <3>1 DEF Inv, TitlesMatchAlarms
  <2>2. h \in DOMAIN tasks
    <3>1. h \in TasksOf(p)
      BY <1>9 DEF TasksOf
    <3> QED BY <1>4, <1>5, <3>1 DEF Inv, TitlesMatchAlarms
  <2> HIDE DEF h
  <2>3. h \in Nat /\ e[2] \in Nat /\ tasks[h] \in Nat /\ tasks[e[2]] \in Nat
    BY <1>2, <1>3, <2>2, Bounds
  <2>4. <<tasks[h], h>> \in schedule \ {e}
    BY <1>2, <1>3, <2>1, <2>2, <2>3
  <2>5. A!Earlier(e, <<tasks[h], h>>)
    BY <1>1, <2>4 DEF A!IsBegin
  <2> QED BY <1>3, <2>1, <2>3, <2>5 DEF A!Earlier
<1>11. /\ titles' = [titles EXCEPT ![p] = Tail(@)]
       /\ UNCHANGED <<players, owner, connections, death>>
  BY <1>8 DEF RefreshCall, AfterAlarm
<1>12. ArmedTasks' = ArmedTasks \ {e[2]} /\ ArmedTasks' \subseteq DOMAIN tasks
  BY <1>1 DEF ArmedTasks
<1> QED BY <1>1, <1>4, <1>8, <1>9, <1>10, <1>11, <1>12 DEF Pops

Same ==
  /\ UNCHANGED <<titles, owner, counter>> /\ DOMAIN players' = DOMAIN players
  /\ ArmedTasks' = ArmedTasks /\ \A t \in ArmedTasks : tasks'[t] = tasks[t]
  /\ DOMAIN tasks' \subseteq DOMAIN tasks /\ \A t \in DOMAIN tasks' : tasks'[t] = tasks[t]
  /\ now' \in Int /\ now <= now'

LEMMA Answered ==
  ASSUME Inv, NEW p \in DOMAIN players, NEW query, OnTitle(p, query), Batch,
         UNCHANGED <<players, owner, connections>>
  PROVE  Pops(p) \/ (titles[p] = <<>> /\ Same)
<1>1. CASE titles[p] = <<>>
  <2>1. UNCHANGED <<alarmVars, titles>>
    BY <1>1 DEF OnTitle
  <2>2. now \in Int
    BY AlarmFacts DEF Inv
  <2> QED BY <1>1, <2>1, <2>2 DEF Same, alarmVars, ArmedTasks
<1>2. CASE titles[p] # <<>>
  BY <1>2, AnswerPops DEF Batch
<1> QED BY <1>1, <1>2

LEMMA Kinds ==
  ASSUME Inv, [Next]_vars
  PROVE  \/ Same \/ (\E p \in DOMAIN players : Pops(p))
         \/ (\E s \in Session : Connect(s))
         \/ (\E s \in Session, p \in DOMAIN players : Title(s, p))
<1>1. CASE Quiet
  BY <1>1, QuietStep DEF Same
<1>2. CASE \E p \in DOMAIN players : \E query \in asked[p] : Answer(p, query)
  BY <1>2, Answered DEF Answer
<1>3. CASE \E p \in DOMAIN players : Stranger(p)
  BY <1>3, Answered DEF Stranger
<1>4. CASE \E e \in schedule : RefreshCall(e)
  BY <1>4, AlarmPops
<1> QED
  BY <1>1, <1>2, <1>3, <1>4 DEF Next, Loop, Handlers, Quiet

LEMMA MatchStep ==
  ASSUME Inv, [Next]_vars
  PROVE  TitlesMatchAlarms'
<1>a. AP!IInv'
  BY AlarmInv
<1>1. CASE Same
  BY <1>1, <1>a, QueueKept DEF Inv, Same
<1>2. ASSUME NEW p \in DOMAIN players, Pops(p) PROVE TitlesMatchAlarms'
  BY <1>2, QueueDrop DEF Inv, Pops
<1>3. ASSUME NEW s \in Session, Connect(s) PROVE TitlesMatchAlarms'
  <2> DEFINE id == Cardinality(DOMAIN players) + 1
  <2>1. /\ players' = With(players, id, FALSE) /\ titles' = With(titles, id, <<>>)
        /\ UNCHANGED <<alarmVars, owner>>
    BY <1>3 DEF Connect
  <2>2. id \notin DOMAIN players
    <3>1. PICK n \in 0..MaxPlayer : DOMAIN players = 1..n
      BY DEF Inv, Consecutive
    <3>2. Cardinality(1..n) = n /\ n \in Nat
      <4>1. n \in Nat /\ n \in Int /\ 1 \in Int
        BY Bounds
      <4>2. Cardinality(1..n) = IF 1 > n THEN 0 ELSE n - 1 + 1
        BY ONLY <4>1, FS_Interval
      <4> QED BY <4>1, <4>2
    <3> QED BY <3>1, <3>2
  <2> HIDE DEF id
  <2>3. DOMAIN players' = DOMAIN players \cup {id}
    BY <2>1 DEF With
  <2> QED BY <1>a, <2>1, <2>2, <2>3, QueueMade DEF Inv
<1>4. ASSUME NEW s \in Session, NEW p \in DOMAIN players, Title(s, p)
      PROVE  TitlesMatchAlarms'
  BY <1>4, QueuePut DEF Inv, Title, Batch
<1> QED BY <1>1, <1>2, <1>3, <1>4, Kinds

LEMMA InTimeStep ==
  ASSUME Inv, [Next]_vars
  PROVE  InTime'
<1>1. /\ now \in Nat /\ Wait \in Nat /\ counter \in Nat
      /\ \A t \in DOMAIN tasks : tasks[t] \in Nat /\ tasks[t] <= now + Wait
  BY AlarmFacts, Bounds DEF Inv, InTime
<1>2. CASE Same
  BY <1>1, <1>2 DEF Same, InTime
<1>3. CASE \E p \in DOMAIN players : Pops(p)
  BY <1>1, <1>3 DEF Pops, InTime
<1>4. CASE \E s \in Session : Connect(s)
  BY <1>1, <1>4 DEF Connect, alarmVars, InTime
<1>5. CASE \E s \in Session, p \in DOMAIN players : Title(s, p)
  <2>1. A!At(now + Wait)
    BY <1>5 DEF Title
  <2>2. /\ \A t \in DOMAIN tasks' : tasks'[t] = now + Wait \/ (t \in DOMAIN tasks /\ tasks'[t] = tasks[t])
        /\ now' = now
    BY <2>1 DEF A!At
  <2> QED BY <1>1, <2>2 DEF InTime
<1> QED BY <1>2, <1>3, <1>4, <1>5, Kinds

(* No session is ever forgotten, and none becomes null or real later.      *)
LEMMA SessionsStep ==
  ASSUME Inv, [Next]_vars
  PROVE  /\ Session \subseteq Session'
         /\ connections' \in [Session' -> {"open", "closed", "null"}]
         /\ \A s \in Session : (connections'[s] = "null") <=> (connections[s] = "null")
         /\ \A s \in Session : connections[s] = "closed" => connections'[s] = "closed"
<1> USE DEF Session
<1>t. connections \in [Session -> {"open", "closed", "null"}]
  BY DEF Inv, Shape
<1>1. CASE UNCHANGED connections
  BY <1>1, <1>t
<1>2. ASSUME NEW i, i \notin Session, NEW v \in {"open", "null"}, connections' = With(connections, i, v)
      PROVE  /\ Session \subseteq Session'
             /\ connections' \in [Session' -> {"open", "closed", "null"}]
             /\ \A s \in Session : connections'[s] = connections[s]
  BY <1>2, <1>t DEF With
<1>3. CASE Accepted
  <2>1. ~crashed /\ (UNCHANGED connections \/ connections' = With(connections, ConnectionId, "open"))
    BY <1>3 DEF Accepted, Batch
  <2>2. ConnectionId \notin Session
    BY <2>1, FreeId DEF Inv
  <2> QED BY <1>1, <1>2, <2>1, <2>2
<1>4. ASSUME NEW s \in Session, HangUp(s)
      PROVE  /\ Session \subseteq Session'
             /\ connections' \in [Session' -> {"open", "closed", "null"}]
             /\ \A r \in Session : (connections'[r] = "null") <=> (connections[r] = "null")
             /\ \A r \in Session : connections[r] = "closed" => connections'[r] = "closed"
  <2>1. /\ connections' = With(connections, s, "closed") \/ UNCHANGED connections
        /\ connections[s] = "open"
    BY <1>4 DEF HangUp, Open
  <2> QED BY <2>1, <1>t DEF With
<1>5. ASSUME NEW s \in Session, NEW p \in DOMAIN players, Title(s, p)
      PROVE  UNCHANGED connections \/ (p \notin Session /\ connections' = With(connections, p, "null"))
  BY <1>5 DEF Title, Guarded
<1>6. CASE \E s \in Session, p \in DOMAIN players : Title(s, p)
  BY <1>1, <1>2, <1>5, <1>6
<1>7. CASE Command \/ (\E s \in Session : Connect(s)) \/ Lost \/ Loop \/ Tick \/ Crashed \/ UNCHANGED vars
           \/ (\E p \in DOMAIN players : \/ Stranger(p) \/ ReadFails(p)
                                        \/ \E query \in asked[p] : Answer(p, query))
  <2>1. UNCHANGED connections
    BY <1>7 DEF Command, Connect, Lost, Lose, Loop, RefreshStart, RefreshErase, RefreshEnd,
                RefreshCall, Tick, Crashed, vars, Stranger, ReadFails, Answer
  <2> QED BY <1>1, <2>1
<1> QED BY <1>3, <1>4, <1>6, <1>7 DEF Next, Handlers

(* A dead process takes no step.                                           *)
LEMMA DeadStays ==
  ASSUME crashed, [Next]_vars
  PROVE  UNCHANGED vars
<1>1. CASE Loop
  BY <1>1 DEF Loop, RefreshStart, RefreshCall
<1>2. CASE Handlers
  BY <1>2 DEF Handlers, Batch, Accepted, Command, HangUp, Connect, Title, Answer, Stranger,
              ReadFails
<1>3. CASE Lost \/ Tick
  BY <1>3 DEF Lost, Lose, Tick
<1> QED BY <1>1, <1>2, <1>3 DEF Next, Crashed

(* A line to sessions that the code knows does not end the process, or it  *)
(* ends of a session that is closed or null.                               *)
LEMMA SendDeath ==
  ASSUME Shape, NEW S \in SUBSET Session
  PROVE  /\ SendsTo(S) \in {"none", "closed", "null"}
         /\ SendsTo(S) = "null" => \E s \in S : connections[s] = "null"
<1> DEFINE bad == {s \in S : connections[s] # "open"}
           first == CHOOSE s \in bad : \A t \in bad : s <= t
<1>1. CASE bad = {}
  BY <1>1 DEF SendsTo
<1>2. CASE bad # {}
  <2>1. bad \in SUBSET Nat
    BY Bounds DEF Shape
  <2>2. \E s \in bad : \A t \in bad : s <= t
    BY <1>2, <2>1, AP!Least, MasterAssumption
  <2>3. first \in bad
    BY <2>2
  <2>4. SendsTo(S) = connections[first]
    BY <1>2 DEF SendsTo
  <2> HIDE DEF first
  <2> QED BY <2>3, <2>4 DEF Shape
<1> QED BY <1>1, <1>2

(* on_title() sends to a session of a request, or to all of them.          *)
LEMMA TitleDeath ==
  ASSUME Inv, NEW p \in DOMAIN players, NEW query, OnTitle(p, query)
  PROVE  /\ death' \in {"none", "closed", "null"}
         /\ titles[p] # <<>> => death' # "null"
<1>1. CASE titles[p] = <<>>
  <2>1. death' = SendsTo(Session)
    BY <1>1 DEF OnTitle, Error
  <2> QED BY <1>1, <2>1, SendDeath DEF Inv
<1>2. CASE titles[p] # <<>>
  <2> DEFINE s == Head(titles[p]).session
  <2>1. death' = SendsTo({s})
    BY <1>2 DEF OnTitle
  <2>2. s \in Session /\ connections[s] # "null"
    BY <1>2, FirstRequest DEF Inv, Heard
  <2> HIDE DEF s
  <2> QED BY <2>1, <2>2, SendDeath DEF Inv
<1> QED BY <1>1, <1>2

(* What a step can die of: pop_front() of an empty deque is not among it,  *)
(* since the alarm that runs finds its request.                            *)
LEMMA DeathStep ==
  ASSUME Inv, [Next]_vars
  PROVE  death' \in {death} \cup (Death \ {"pop"})
<1> USE DEF Death
<1>1. CASE Accepted \/ Command \/ (\E s \in Session : HangUp(s) \/ Connect(s))
  BY <1>1 DEF Accepted, Command, SendTo, SendFails, Named, HangUp, Connect
<1>2. CASE \E s \in Session, p \in DOMAIN players : Title(s, p)
  BY <1>2 DEF Title, SendTo, SendFails
<1>3. CASE \E p \in DOMAIN players : \/ Stranger(p) \/ ReadFails(p)
                                     \/ \E query \in asked[p] : Answer(p, query)
  BY <1>3, TitleDeath DEF Stranger, ReadFails, Answer
<1>4. CASE \E e \in schedule : RefreshCall(e)
  BY <1>4, AlarmPops
<1>5. CASE Lost \/ RefreshStart \/ RefreshErase \/ RefreshEnd \/ Tick \/ Crashed \/ UNCHANGED vars
  BY <1>5 DEF Lost, Lose, RefreshStart, RefreshErase, RefreshEnd, Tick, Crashed, vars
<1> QED BY <1>1, <1>2, <1>3, <1>4, <1>5 DEF Next, Loop, Handlers

(* A mishap is never forgotten.                                            *)
LEMMA MishapStep ==
  ASSUME Inv, [Next]_vars
  PROVE  mishap \subseteq mishap' /\ mishap' \subseteq mishap \cup Mishap
<1> USE DEF Mishap
<1>1. CASE Accepted \/ Command \/ (\E s \in Session : HangUp(s) \/ Connect(s))
  BY <1>1 DEF Accepted, Command, HangUp, Connect
<1>2. CASE \E s \in Session, p \in DOMAIN players : Title(s, p)
  BY <1>2 DEF Title
<1>3. CASE \E p \in DOMAIN players : \/ Stranger(p) \/ ReadFails(p)
                                     \/ \E query \in asked[p] : Answer(p, query)
  BY <1>3 DEF Stranger, ReadFails, Answer, Happened
<1>4. CASE \E e \in schedule : RefreshCall(e)
  BY <1>4 DEF RefreshCall, Happened
<1>5. CASE Lost \/ RefreshStart \/ RefreshErase \/ RefreshEnd \/ Tick \/ Crashed \/ UNCHANGED vars
  BY <1>5 DEF Lost, Lose, Happened, RefreshStart, RefreshErase, RefreshEnd, Tick, Crashed, vars
<1> QED BY <1>1, <1>2, <1>3, <1>4, <1>5 DEF Next, Loop, Handlers

LEMMA ShapeStep ==
  ASSUME Inv, [Next]_vars
  PROVE  Shape'
<1> USE DEF Session
<1>a. /\ counter \in 0..MaxTask /\ (now \in Nat)
      /\ MaxTask \in Nat /\ MaxPlayer \in Nat /\ MaxSession \in Nat
  BY AlarmFacts, Bounds DEF Inv
<1>b. connections' \in [Session' -> {"open", "closed", "null"}]
  BY SessionsStep
<1>c. Shape /\ DOMAIN players \subseteq 1..MaxPlayer
  BY <1>a DEF Inv, Consecutive
<1>d. /\ connection_counter \in 0..MaxSession + MaxPlayer /\ Session \subseteq 1..MaxSession + MaxPlayer
      /\ players \in [DOMAIN players -> BOOLEAN] /\ titles \in [DOMAIN players -> Seq(Request)]
      /\ asked \in [DOMAIN players -> SUBSET A!Task] /\ owner \in [1..counter -> DOMAIN players]
      /\ death \in Death /\ mishap \subseteq Mishap
  BY <1>c DEF Shape
<1>m. death' \in Death /\ mishap' \subseteq Mishap
  BY <1>d, DeathStep, MishapStep DEF Death
<1> DEFINE Rest == /\ players' \in [DOMAIN players' -> BOOLEAN]
                   /\ titles' \in [DOMAIN players' -> Seq(Request)]
                   /\ asked' \in [DOMAIN players' -> SUBSET A!Task]
                   /\ owner' \in [1..counter' -> DOMAIN players']
           Ids == /\ connection_counter' \in 0..MaxSession + MaxPlayer
                  /\ Session' \subseteq 1..MaxSession + MaxPlayer
<1> HIDE DEF Request
<1>1. CASE Accepted
  <2>1. ConnectionId \in 1..MaxSession + MaxPlayer
    <3>1. ConnectionId \in connection_counter + 1 .. connection_counter + MaxPlayer + 1
      BY <1>1, FreeId DEF Inv, Accepted, Batch
    <3>2. ConnectionId <= MaxSession + MaxPlayer
      BY <1>1, IdBounded DEF Inv, Accepted, Batch
    <3> QED BY <3>1, <3>2, <1>a, <1>d
  <2>2. /\ connection_counter' \in {connection_counter, ConnectionId}
        /\ UNCHANGED connections \/ connections' = With(connections, ConnectionId, "open")
        /\ UNCHANGED <<counter, players, titles, owner, asked>>
    BY <1>1 DEF Accepted, alarmVars
  <2> HIDE DEF ConnectionId
  <2>3. Ids
    BY <2>1, <2>2, <1>a, <1>d DEF With
  <2>4. Rest
    BY <2>2, <1>d
  <2> QED BY <2>3, <2>4, <1>b, <1>m DEF Shape
<1>2. ASSUME NEW s \in Session, HangUp(s) PROVE Shape'
  <2>1. /\ UNCHANGED <<counter, connection_counter, players, titles, owner, asked>>
        /\ Session' = Session
    BY <1>2 DEF HangUp, With, alarmVars
  <2> QED BY <2>1, <1>b, <1>d, <1>m DEF Shape
<1>3. ASSUME NEW s \in Session, Connect(s) PROVE Shape'
  <2> DEFINE id == Cardinality(DOMAIN players) + 1
  <2>1. /\ players' = With(players, id, FALSE) /\ titles' = With(titles, id, <<>>)
        /\ asked' = With(asked, id, {})
        /\ UNCHANGED <<counter, connections, connection_counter, owner>>
    BY <1>3 DEF Connect, alarmVars
  <2> HIDE DEF id
  <2>2. /\ players' \in [DOMAIN players' -> BOOLEAN]
        /\ asked' \in [DOMAIN players' -> SUBSET A!Task]
        /\ owner' \in [1..counter' -> DOMAIN players']
    BY <2>1, <1>d DEF With
  <2>3. titles' \in [DOMAIN players' -> Seq(Request)]
    <3>1. <<>> \in Seq(Request)
      OBVIOUS
    <3> QED BY <2>1, <3>1, <1>d DEF With
  <2> QED BY <2>1, <2>2, <2>3, <1>b, <1>d, <1>m DEF Shape
<1>4. ASSUME NEW s \in Session, NEW p \in DOMAIN players, Title(s, p) PROVE Shape'
  <2>1. /\ A!At(now + Wait) /\ connections' = Guarded(p)
        /\ titles' = [titles EXCEPT ![p] = PushBack(@, [task |-> A!Fresh, session |-> s,
                                                      tp |-> now + Wait])]
        /\ owner' = With(owner, A!Fresh, p)
        /\ asked' = [asked EXCEPT ![p] = @ \cup {A!Fresh}]
        /\ now + Wait <= MaxTime
        /\ UNCHANGED <<connection_counter, players>>
    BY <1>4 DEF Title
  <2>2. counter' = counter + 1 /\ A!Fresh = counter + 1 /\ counter < MaxTask
    BY <2>1, <1>a, Bounds DEF A!At, A!Future, A!Fresh
  <2>3. A!Fresh \in A!Task
    BY <2>2, <1>a DEF A!Task
  <2>t. now + Wait \in A!Time
    BY <2>1, <1>a, Bounds DEF A!Time
  <2>4. [task |-> A!Fresh, session |-> s, tp |-> now + Wait] \in Request
    BY <2>3, <2>t, <1>a, <1>d DEF Request
  <2>5. titles' \in [DOMAIN players -> Seq(Request)]
    BY <2>1, <2>4, <1>c, Pushed
  <2>6. owner' \in [1..counter' -> DOMAIN players']
    BY <2>1, <2>2, <1>a, <1>d DEF With
  <2>7. asked' \in [DOMAIN players' -> SUBSET A!Task]
    BY <2>1, <2>3, <1>d
  <2>8. Ids
    BY <2>1, <1>a, <1>c, <1>d DEF Guarded, With
  <2> QED BY <2>1, <2>5, <2>6, <2>7, <2>8, <1>b, <1>d, <1>m DEF Shape
<1>5. ASSUME NEW p \in DOMAIN players, NEW query, OnTitle(p, query), Batch,
             UNCHANGED <<players, owner, connections>>
      PROVE  /\ titles' \in [DOMAIN players' -> Seq(Request)]
             /\ owner' \in [1..counter' -> DOMAIN players']
  <2>2. CASE Pops(p)
    BY <2>2, <1>c, <1>d, Popped DEF Pops
  <2>3. CASE Same
    BY <2>3, <1>d, <1>5 DEF Same
  <2> QED BY <1>5, <2>2, <2>3, Answered
<1>6. ASSUME NEW p \in DOMAIN players, Stranger(p) \/ \E query \in asked[p] : Answer(p, query)
      PROVE  Shape'
  <2>1. PICK query : OnTitle(p, query)
    BY <1>6 DEF Stranger, Answer
  <2>2. /\ Batch /\ UNCHANGED <<connections, connection_counter, players, owner>>
        /\ UNCHANGED asked \/ \E r : asked' = [asked EXCEPT ![p] = @ \ {r}]
    BY <1>6 DEF Stranger, Answer
  <2>3. asked' \in [DOMAIN players' -> SUBSET A!Task]
    <3>1. CASE UNCHANGED asked
      BY <2>2, <3>1, <1>d
    <3>2. ASSUME NEW r, asked' = [asked EXCEPT ![p] = @ \ {r}]
          PROVE  asked' \in [DOMAIN players' -> SUBSET A!Task]
      BY <2>2, <3>2, <1>d
    <3> QED BY <2>2, <3>1, <3>2
  <2> QED BY <2>1, <2>2, <2>3, <1>5, <1>b, <1>d, <1>m DEF Shape
<1>7. ASSUME NEW e \in schedule, RefreshCall(e) PROVE Shape'
  <2> DEFINE p == owner[e[2]]
  <2>1. p \in DOMAIN players /\ Pops(p)
    BY <1>7, AlarmPops
  <2>2. /\ UNCHANGED <<connection_counter, players, owner, connections>>
        /\ asked' \in {asked, [asked EXCEPT ![p] = @ \ {e[2]}]}
    BY <1>7, <2>1 DEF RefreshCall, Pops
  <2> HIDE DEF p
  <2>3. titles' \in [DOMAIN players' -> Seq(Request)] /\ counter' = counter
    BY <2>1, <1>c, Popped DEF Pops
  <2>4. asked' \in [DOMAIN players' -> SUBSET A!Task]
    BY <2>1, <2>2, <1>d
  <2> QED BY <2>1, <2>2, <2>3, <2>4, <1>b, <1>d, <1>m DEF Shape
<1>8. CASE Lost
  <2>1. PICK p \in DOMAIN players : \E query \in asked[p] : Lose(p, query)
    BY <1>8 DEF Lost
  <2>2. /\ UNCHANGED <<counter, connections, connection_counter, players, titles, owner>>
        /\ \E query : asked' = [asked EXCEPT ![p] = @ \ {query}]
    BY <2>1 DEF Lose, alarmVars
  <2>3. asked' \in [DOMAIN players' -> SUBSET A!Task]
    BY <2>2, <1>d
  <2> QED BY <2>2, <2>3, <1>b, <1>d, <1>m DEF Shape
<1>9. CASE Command \/ \E p \in DOMAIN players : ReadFails(p)
  <2>1. UNCHANGED <<counter, connections, connection_counter, players, titles, owner, asked>>
    BY <1>9 DEF Command, ReadFails, alarmVars
  <2> QED BY <2>1, <1>b, <1>d, <1>m DEF Shape
<1>10. CASE RefreshStart \/ RefreshErase \/ RefreshEnd \/ Tick \/ Crashed \/ UNCHANGED vars
  <2>1. /\ UNCHANGED <<counter, connections, connection_counter, titles, owner, asked>>
        /\ players' \in {players, [p \in DOMAIN players |-> TRUE]}
    BY <1>10 DEF RefreshStart, RefreshErase, RefreshEnd, Tick, Crashed, vars, alarmVars,
                 A!RefreshStart, A!RefreshErase, A!RefreshEnd, A!Tick
  <2> QED BY <2>1, <1>b, <1>d, <1>m DEF Shape
<1> QED
  BY <1>1, <1>2, <1>3, <1>4, <1>6, <1>7, <1>8, <1>9, <1>10 DEF Next, Loop, Handlers

LEMMA ConsecutiveStep ==
  ASSUME Inv, [Next]_vars
  PROVE  Consecutive'
<1>1. PICK n \in 0..MaxPlayer : DOMAIN players = 1..n
  BY DEF Inv, Consecutive
<1>2. CASE Same \/ (\E p \in DOMAIN players : Pops(p)) \/ (\E s \in Session, p \in DOMAIN players : Title(s, p))
  <2>1. DOMAIN players' = DOMAIN players
    BY <1>2 DEF Same, Pops, Title
  <2> QED BY <1>1, <2>1 DEF Consecutive
<1>3. CASE \E s \in Session : Connect(s)
  <2>1. /\ Cardinality(1..n) < MaxPlayer
        /\ players' = With(players, Cardinality(1..n) + 1, FALSE)
    BY <1>1, <1>3 DEF Connect
  <2>2. n \in Nat /\ n \in Int /\ 1 \in Int /\ MaxPlayer \in Nat
    BY Bounds
  <2>3. Cardinality(1..n) = IF 1 > n THEN 0 ELSE n - 1 + 1
    BY ONLY <2>2, FS_Interval
  <2>4. n < MaxPlayer /\ DOMAIN players' = 1..n + 1
    BY <1>1, <2>1, <2>2, <2>3 DEF With
  <2> QED BY <2>2, <2>4 DEF Consecutive
<1> QED BY <1>2, <1>3, Kinds

LEMMA NumberingStep ==
  ASSUME Inv, [Next]_vars
  PROVE  Numbering'
<1>a. Shape /\ Numbering /\ DOMAIN players \subseteq Player
  BY Bounds DEF Inv, Consecutive, Player
<1>1. CASE Accepted
  <2> DEFINE id == ConnectionId
  <2>1. /\ id \in connection_counter + 1 .. connection_counter + MaxPlayer + 1
        /\ id \notin Session /\ 1..id - 1 \subseteq Session
    BY <1>1, <1>a, FreeId DEF Accepted, Batch
  <2>2. /\ ~crashed
        /\ \/ connections' = With(connections, id, "open") /\ connection_counter' = id
           \/ UNCHANGED connections /\ crashed' /\ connection_counter' \in {connection_counter, id}
    BY <1>1 DEF Accepted, Batch, crashed
  <2> HIDE DEF id
  <2>3. connection_counter \in Nat /\ Session \subseteq Nat
    BY Bounds, <1>a DEF Shape
  <2>4. \A s \in Session' : s > connection_counter' => s \in Session /\ s > connection_counter
    BY <2>1, <2>2, <2>3 DEF With, Session
  <2>5. \A s \in Session' : s \in Session \/ connections'[s] = "open"
    BY <2>2 DEF With, Session
  <2>6. \A s \in Session : (connections'[s] = "null") <=> (connections[s] = "null")
    BY SessionsStep
  <2>7. ~crashed' => 1..connection_counter' \subseteq Session'
    BY <2>1, <2>2, <2>3 DEF With, Session
  <2> QED BY <2>2, <2>4, <2>5, <2>6, <2>7, <1>a DEF Numbering
<1>2. ASSUME UNCHANGED connection_counter, crashed => crashed', Session \subseteq Session',
             \A s \in Session' : s \in Session \/ s \in Player
      PROVE  Numbering'
  <2>1. \A s \in Session : (connections'[s] = "null") <=> (connections[s] = "null")
    BY SessionsStep
  <2> QED BY <1>2, <2>1, <1>a DEF Numbering
<1>3. CASE \E s \in Session, p \in DOMAIN players : Title(s, p)
  <2>1. PICK p \in DOMAIN players : connections' = Guarded(p)
    BY <1>3 DEF Title
  <2>2. UNCHANGED connection_counter /\ ~crashed
    BY <1>3 DEF Title, Batch
  <2>3. Session \subseteq Session' /\ \A s \in Session' : s \in Session \/ s \in Player
    BY <2>1, <1>a DEF Guarded, With, Session
  <2> QED BY <1>2, <2>2, <2>3
<1>4. CASE \E s \in Session : HangUp(s)
  <2>1. UNCHANGED connection_counter /\ ~crashed /\ Session' = Session
    BY <1>4 DEF HangUp, Batch, With, Session
  <2> QED BY <1>2, <2>1
<1>5. CASE Command \/ (\E s \in Session : Connect(s)) \/ Lost \/ Loop \/ Tick \/ Crashed \/ UNCHANGED vars
           \/ (\E p \in DOMAIN players : \/ Stranger(p) \/ ReadFails(p)
                                        \/ \E query \in asked[p] : Answer(p, query))
  <2>1. UNCHANGED <<connections, connection_counter>>
    BY <1>5 DEF Command, Connect, Lost, Lose, Loop, RefreshStart, RefreshErase, RefreshEnd,
                RefreshCall, Tick, Crashed, vars, Stranger, ReadFails, Answer
  <2>2. crashed => crashed'
    BY DeadStays DEF vars, crashed
  <2> QED BY <1>2, <2>1, <2>2 DEF Session
<1> QED BY <1>1, <1>3, <1>4, <1>5 DEF Next, Handlers

LEMMA HeardStep ==
  ASSUME Inv, [Next]_vars
  PROVE  Heard'
<1>1. ASSUME \A p \in DOMAIN players' : \A i \in DOMAIN titles'[p] :
               \/ p \in DOMAIN players /\ \E j \in DOMAIN titles[p] : titles'[p][i].session = titles[p][j].session
               \/ titles'[p][i].session \in Open
      PROVE  Heard'
  <2>1. /\ Session \subseteq Session'
        /\ \A s \in Session : (connections'[s] = "null") <=> (connections[s] = "null")
    BY SessionsStep
  <2> QED BY <1>1, <2>1 DEF Inv, Heard, Open
<1>2. CASE Same
  BY <1>1, <1>2 DEF Same
<1>3. ASSUME NEW p \in DOMAIN players, Pops(p) PROVE Heard'
  <2>1. /\ \A q \in DOMAIN players : q # p => titles'[q] = titles[q]
        /\ \A i \in DOMAIN titles'[p] : i + 1 \in DOMAIN titles[p] /\ titles'[p][i] = titles[p][i + 1]
    <3>1. /\ \A q \in DOMAIN players : q # p => titles'[q] = titles[q]
          /\ DOMAIN titles[p] = {1} \cup {i + 1 : i \in DOMAIN titles'[p]}
          /\ \A i \in DOMAIN titles'[p] : titles'[p][i] = titles[p][i + 1]
      BY <1>3, Popped DEF Inv, Pops
    <3> QED BY <3>1
  <2>2. \A q \in DOMAIN players : \A i \in DOMAIN titles'[q] :
           \E j \in DOMAIN titles[q] : titles'[q][i].session = titles[q][j].session
    BY <2>1
  <2> QED BY <1>1, <1>3, <2>2 DEF Pops
<1>4. CASE \E s \in Session : Connect(s)
  <2>1. PICK id : players' = With(players, id, FALSE) /\ titles' = With(titles, id, <<>>)
    BY <1>4 DEF Connect
  <2>2. titles'[id] = <<>> /\ DOMAIN titles = DOMAIN players /\ DOMAIN titles'[id] = {}
    BY <2>1 DEF With, Inv, Shape
  <2>3. \A p \in DOMAIN players' : p # id => p \in DOMAIN players /\ titles'[p] = titles[p]
    BY <2>1, <2>2 DEF With
  <2> QED BY <1>1, <2>2, <2>3
<1>5. ASSUME NEW s \in Session, NEW p \in DOMAIN players, Title(s, p) PROVE Heard'
  <2> DEFINE r == [task |-> A!Fresh, session |-> s, tp |-> now + Wait]
  <2>1. titles' = [titles EXCEPT ![p] = PushBack(@, r)] /\ UNCHANGED players /\ s \in Open
    BY <1>5 DEF Title
  <2>2. r \in Request
    <3>1. A!At(now + Wait)
      BY <1>5 DEF Title
    <3>2. A!Fresh \in A!Task
      BY <3>1, AlarmFacts, Bounds DEF Inv, A!At, A!Future, A!Fresh, A!Task
    <3>3. s \in Nat
      BY Bounds DEF Inv, Shape
    <3>4. now + Wait \in A!Time
      BY <1>5, AlarmFacts, Bounds DEF Inv, A!Time, Title
    <3> QED BY <3>2, <3>3, <3>4 DEF Request
  <2>3. r.session = s
    OBVIOUS
  <2> HIDE DEF r
  <2>4. /\ \A q \in DOMAIN players : q # p => titles'[q] = titles[q]
        /\ DOMAIN titles'[p] = DOMAIN titles[p] \cup {Len(titles[p]) + 1}
        /\ \A i \in DOMAIN titles[p] : titles'[p][i] = titles[p][i]
        /\ titles'[p][Len(titles[p]) + 1] = r
    BY <2>1, <2>2, Pushed DEF Inv
  <2> QED BY <1>1, <2>1, <2>3, <2>4
<1> QED BY <1>2, <1>3, <1>4, <1>5, Kinds

(* Requests keep the times of their alarms.                                *)
LEMMA TimesKeptStep ==
  ASSUME Inv, [Next]_vars
  PROVE  TimesKept'
<1>a. TitlesMatchAlarms /\ TitlesMatchAlarms' /\ TimesKept /\ Shape
  BY MatchStep DEF Inv
<1>b. ASSUME NEW p \in DOMAIN players, NEW i \in DOMAIN titles[p]
      PROVE  titles[p][i].task \in ArmedTasks
  BY <1>a, AlarmFacts DEF Inv, TitlesMatchAlarms, TasksOf
<1>1. CASE Same
  BY <1>1, <1>a, <1>b DEF Same, TimesKept
<1>2. ASSUME NEW p \in DOMAIN players, Pops(p) PROVE TimesKept'
  <2>1. /\ \A q \in DOMAIN players : q # p => titles'[q] = titles[q]
        /\ DOMAIN titles[p] = {1} \cup {i + 1 : i \in DOMAIN titles'[p]}
        /\ \A i \in DOMAIN titles'[p] : titles'[p][i] = titles[p][i + 1]
    BY <1>2, <1>a, Popped DEF Pops
  <2>2. ASSUME NEW q \in DOMAIN players, NEW i \in DOMAIN titles'[q]
        PROVE  \E j \in DOMAIN titles[q] : titles'[q][i] = titles[q][j]
    BY <2>1
  <2>3. ASSUME NEW q \in DOMAIN players, NEW i \in DOMAIN titles'[q]
        PROVE  tasks'[titles'[q][i].task] = tasks[titles'[q][i].task]
    <3>1. titles'[q][i].task \in ArmedTasks'
      <4>1. (DOMAIN A!Armed)' = ArmedTasks'
        BY DEF A!Armed, A!Restrict, ArmedTasks
      <4>2. DOMAIN players' = DOMAIN players
        BY <1>2 DEF Pops
      <4> QED BY <1>a, <4>1, <4>2 DEF TitlesMatchAlarms, TasksOf
    <3> QED BY <1>2, <3>1 DEF Pops
  <2>4. ASSUME NEW q \in DOMAIN players, NEW i \in DOMAIN titles'[q]
        PROVE  titles'[q][i].tp = tasks'[titles'[q][i].task]
    BY <1>a, <2>2, <2>3 DEF TimesKept
  <2> QED BY <1>2, <2>4 DEF Pops, TimesKept
<1>3. ASSUME NEW s \in Session, Connect(s) PROVE TimesKept'
  <2>1. PICK id : /\ players' = With(players, id, FALSE) /\ titles' = With(titles, id, <<>>)
                  /\ UNCHANGED tasks
    BY <1>3 DEF Connect, alarmVars
  <2>2. titles'[id] = <<>> /\ DOMAIN titles = DOMAIN players /\ DOMAIN titles'[id] = {}
    BY <2>1, <1>a DEF With, Shape
  <2>3. \A p \in DOMAIN players' : p # id => p \in DOMAIN players /\ titles'[p] = titles[p]
    BY <2>1, <2>2 DEF With
  <2>4. ASSUME NEW q \in DOMAIN players', NEW i \in DOMAIN titles'[q]
        PROVE  titles'[q][i].tp = tasks'[titles'[q][i].task]
    <3>1. q # id
      BY <2>2
    <3>2. q \in DOMAIN players /\ titles'[q] = titles[q] /\ tasks' = tasks
      BY <2>1, <2>3, <3>1
    <3> QED BY <3>2, <1>a DEF TimesKept
  <2> QED BY <2>4 DEF TimesKept
<1>4. ASSUME NEW s \in Session, NEW p \in DOMAIN players, Title(s, p) PROVE TimesKept'
  <2> DEFINE r == [task |-> A!Fresh, session |-> s, tp |-> now + Wait]
  <2>1. /\ titles' = [titles EXCEPT ![p] = PushBack(@, r)] /\ UNCHANGED players
        /\ A!At(now + Wait) /\ now + Wait <= MaxTime
    BY <1>4 DEF Title
  <2>2. /\ counter' = counter + 1 /\ counter < MaxTask /\ A!Fresh = counter + 1
        /\ tasks'[A!Fresh] = now + Wait
        /\ \A t \in DOMAIN tasks : t # A!Fresh => tasks'[t] = tasks[t]
    BY <2>1, AlarmFacts, Bounds DEF Inv, A!At, A!Future, A!Fresh
  <2>3. DOMAIN tasks \subseteq 1..counter /\ counter \in Nat /\ now \in 0..MaxTime
    BY AlarmFacts DEF Inv
  <2>4. r \in Request
    <3>1. A!Fresh \in A!Task
      BY <2>2, <2>3, Bounds DEF A!Task
    <3>2. s \in Nat
      BY Bounds DEF Inv, Shape
    <3>3. now + Wait \in A!Time
      BY <2>1, <2>3, Bounds DEF A!Time
    <3> QED BY <3>1, <3>2, <3>3 DEF Request
  <2>5. r.task = A!Fresh /\ r.tp = now + Wait
    OBVIOUS
  <2> HIDE DEF r
  <2>6. /\ \A q \in DOMAIN players : q # p => titles'[q] = titles[q]
        /\ DOMAIN titles'[p] = DOMAIN titles[p] \cup {Len(titles[p]) + 1}
        /\ \A i \in DOMAIN titles[p] : titles'[p][i] = titles[p][i]
        /\ titles'[p][Len(titles[p]) + 1] = r
    BY <2>1, <2>4, <1>a, Pushed
  <2>7. ASSUME NEW q \in DOMAIN players, NEW i \in DOMAIN titles[q]
        PROVE  tasks'[titles[q][i].task] = tasks[titles[q][i].task]
    <3>1. titles[q][i].task \in DOMAIN tasks
      BY <1>b DEF ArmedTasks
    <3>2. titles[q][i].task # A!Fresh
      BY <3>1, <2>2, <2>3
    <3> QED BY <3>1, <3>2, <2>2
  <2> QED BY <2>1, <2>2, <2>5, <2>6, <2>7, <1>a DEF TimesKept
<1> QED BY <1>1, <1>2, <1>3, <1>4, Kinds

(* After refresh() nothing is left that was due; what handlers arm is      *)
(* still to come.                                                          *)
LEMMA NoneDueStep ==
  ASSUME Inv, [Next]_vars
  PROVE  NoneDue'
<1>a. /\ now \in Nat /\ upto \in Nat /\ NoneDue
      /\ \A t \in DOMAIN tasks : tasks[t] \in Nat /\ <<tasks[t], t>> \in schedule
  BY AlarmFacts, Bounds DEF Inv, A!TypeOK, A!Time, A!MapsAgree
<1> USE DEF NoneDue
<1>1. CASE UNCHANGED A!alarmVars
  BY <1>1, <1>a DEF A!alarmVars
<1>2. ASSUME NEW time \in A!Time, A!At(time) PROVE NoneDue'
  BY <1>2, <1>a DEF A!At, A!Future, A!Time
<1>3. ASSUME NEW t \in A!Task, A!Cancel(t) PROVE NoneDue'
  BY <1>3, <1>a DEF A!Cancel, A!Restrict
<1>4. CASE A!RefreshStart \/ (\E e \in schedule : A!RefreshCall(e)) \/ A!RefreshErase
  BY <1>4, <1>a DEF A!RefreshStart, A!RefreshCall, A!RefreshErase
<1>5. CASE A!RefreshEnd
  BY <1>5, <1>a DEF A!RefreshEnd
<1>6. CASE A!Tick
  BY <1>6, <1>a DEF A!Tick
<1> QED BY <1>1, <1>2, <1>3, <1>4, <1>5, <1>6, AlarmStep DEF A!Next

(* The first request of a player is its oldest.                            *)
LEMMA FirstIsOldest ==
  ASSUME Inv, NEW p \in DOMAIN players, titles[p] # <<>>
  PROVE  /\ Head(titles[p]).task \in TasksOf(p)
         /\ \A t \in TasksOf(p) : Head(titles[p]).task <= t
<1>1. Head(titles[p]) = titles[p][1] /\ 1 \in DOMAIN titles[p] /\ Head(titles[p]).task \in TasksOf(p)
  BY FirstRequest DEF Inv
<1>2. ASSUME NEW i \in DOMAIN titles[p] PROVE titles[p][1].task <= titles[p][i].task
  <2>1. titles[p] \in Seq(Request)
    BY DEF Inv, Shape
  <2>2. titles[p][1].task \in Nat /\ titles[p][i].task \in Nat /\ i \in Nat \ {0}
    <3> HIDE DEF Request
    <3>1. titles[p][1] \in Request /\ titles[p][i] \in Request /\ i \in Nat \ {0}
      BY <1>1, <2>1, ElementOfSeq
    <3> QED BY <3>1, Bounds DEF Request, A!Task
  <2>3. 1 < i => titles[p][1].task < titles[p][i].task
    BY <1>1 DEF Inv, TitlesMatchAlarms
  <2> QED BY <2>2, <2>3
<1> QED BY <1>1, <1>2 DEF TasksOf

(* Of a player's requests and of its answers under way, a step takes the   *)
(* same or a mishap has let them differ.                                   *)
LEMMA AskedStep ==
  ASSUME Inv, [Next]_vars
  PROVE  Expected' /\ Awaited'
<1>a. Expected /\ Awaited /\ Shape /\ mishap \subseteq mishap'
  BY MishapStep DEF Inv
<1>n. \A p \in DOMAIN players : asked[p] \subseteq Nat
  BY <1>a, Bounds DEF Shape, A!Task
<1>2. CASE UNCHANGED <<titles, asked>> /\ DOMAIN players' = DOMAIN players
  BY <1>2, <1>a DEF Expected, Awaited, TasksOf
<1>3. CASE Accepted \/ Command \/ (\E s \in Session : HangUp(s)) \/ (\E p \in DOMAIN players : ReadFails(p))
           \/ RefreshStart \/ RefreshErase \/ RefreshEnd \/ Tick \/ Crashed \/ UNCHANGED vars
  BY <1>2, <1>3 DEF Accepted, Command, HangUp, ReadFails, RefreshStart, RefreshErase, RefreshEnd,
                    Tick, Crashed, vars
<1>4. CASE \E p \in DOMAIN players : Stranger(p)
  <2>1. "stranger" \in mishap'
    BY <1>4 DEF Stranger, Happened
  <2> QED BY <2>1 DEF Expected, Awaited
<1>5. ASSUME NEW s \in Session, Connect(s) PROVE Expected' /\ Awaited'
  <2>1. PICK id : /\ players' = With(players, id, FALSE) /\ titles' = With(titles, id, <<>>)
                  /\ asked' = With(asked, id, {})
    BY <1>5 DEF Connect
  <2>2. /\ titles'[id] = <<>> /\ DOMAIN titles'[id] = {} /\ asked'[id] = {}
        /\ \A p \in DOMAIN players' : p # id =>
             p \in DOMAIN players /\ titles'[p] = titles[p] /\ asked'[p] = asked[p]
    BY <2>1, <1>a DEF With, Shape
  <2>3. ASSUME NEW q \in DOMAIN players'
        PROVE  \/ TasksOf(q)' = {} /\ asked'[q] = {}
               \/ q \in DOMAIN players /\ TasksOf(q)' = TasksOf(q) /\ asked'[q] = asked[q]
    BY <2>2 DEF TasksOf
  <2> QED BY <2>3, <1>a DEF Expected, Awaited
<1>6. ASSUME NEW s \in Session, NEW p \in DOMAIN players, Title(s, p)
      PROVE  Expected' /\ Awaited'
  <2>1. /\ UNCHANGED players
        /\ asked' = [asked EXCEPT ![p] = @ \cup {A!Fresh}]
        /\ owner' = With(owner, A!Fresh, p) /\ A!At(now + Wait) /\ phase = "idle"
    BY <1>6 DEF Title, Batch
  <2>2. (DOMAIN A!Armed)' = DOMAIN A!Armed \cup {A!Fresh} /\ A!Fresh = counter + 1
    BY <2>1, AlarmFacts, Bounds DEF Inv, A!At, A!Future, A!Armed, A!Restrict, A!Fresh
  <2>3. DOMAIN A!Armed \subseteq 1..counter /\ counter \in Nat
    BY AlarmFacts DEF Inv, ArmedTasks
  <2>4. ASSUME NEW q \in DOMAIN players
        PROVE  TasksOf(q)' = TasksOf(q) \cup (IF q = p THEN {A!Fresh} ELSE {})
    <3>1. TasksOf(q)' = {t \in DOMAIN A!Armed \cup {A!Fresh} : owner'[t] = q}
      BY <2>1, <2>2, MatchStep DEF TitlesMatchAlarms
    <3>2. TasksOf(q) = {t \in DOMAIN A!Armed : owner[t] = q}
      BY DEF Inv, TitlesMatchAlarms
    <3>3. owner'[A!Fresh] = p /\ \A t \in DOMAIN A!Armed : owner'[t] = owner[t]
      BY <2>1, <2>2, <2>3, <1>a DEF With, Shape
    <3> QED BY <3>1, <3>2, <3>3
  <2>5. \A q \in DOMAIN players : asked'[q] = asked[q] \cup (IF q = p THEN {A!Fresh} ELSE {})
    BY <2>1, <1>a DEF Shape
  <2> QED BY <2>1, <2>4, <2>5, <1>a DEF Expected, Awaited
<1>7. ASSUME NEW p \in DOMAIN players, NEW query \in asked[p], Lose(p, query)
      PROVE  Expected' /\ Awaited'
  <2>1. /\ UNCHANGED <<players, titles>> /\ asked' = [asked EXCEPT ![p] = @ \ {query}]
        /\ query \in TasksOf(p) => "lose" \in mishap'
    BY <1>7 DEF Lose, Happened
  <2>2. /\ asked'[p] = asked[p] \ {query}
        /\ \A q \in DOMAIN players : q # p => asked'[q] = asked[q]
    BY <2>1, <1>a DEF Shape
  <2>3. \A q \in DOMAIN players : TasksOf(q)' = TasksOf(q)
    BY <2>1 DEF TasksOf
  <2> QED BY <2>1, <2>2, <2>3, <1>a DEF Expected, Awaited
<1>8. ASSUME NEW p \in DOMAIN players, NEW query \in asked[p], Answer(p, query)
      PROVE  Expected' /\ Awaited'
  <2>1. /\ OnTitle(p, query) /\ Batch /\ UNCHANGED <<players, owner, connections>>
        /\ asked' = [asked EXCEPT ![p] = @ \ {query}]
        /\ "reorder" \notin mishap' => ~\E r \in asked[p] : r < query
    BY <1>8 DEF Answer, Happened
  <2>2. /\ asked'[p] = asked[p] \ {query}
        /\ \A q \in DOMAIN players : q # p => asked'[q] = asked[q]
    BY <2>1, <1>a DEF Shape
  <2>3. CASE titles[p] = <<>>
    <3>1. TasksOf(p) = {} /\ UNCHANGED titles
      BY <2>1, <2>3 DEF TasksOf, OnTitle
    <3>2. \A q \in DOMAIN players : TasksOf(q)' = TasksOf(q)
      BY <3>1 DEF TasksOf
    <3> QED BY <2>1, <2>2, <3>1, <3>2, <1>8, <1>a DEF Expected, Awaited
  <2>4. CASE titles[p] # <<>>
    <3> DEFINE h == Head(titles[p]).task
    <3>1. Pops(p)
      BY <2>1, <2>4, Answered
    <3>2. /\ TasksOf(p)' = TasksOf(p) \ {h}
          /\ \A q \in DOMAIN players : q # p => TasksOf(q)' = TasksOf(q)
      BY <3>1, QueueDrop DEF Inv, Pops
    <3>3. h \in TasksOf(p) /\ \A t \in TasksOf(p) : h <= t
      BY <2>4, FirstIsOldest
    <3>4. h \in Nat /\ query \in Nat
      BY <2>4, <1>n, FirstRequest, Bounds DEF Inv, A!Task
    <3> HIDE DEF h
    <3>5. ASSUME mishap' \subseteq {"lose"} PROVE asked[p] \ {query} \subseteq TasksOf(p) \ {h}
      <4>1. asked[p] \subseteq TasksOf(p) /\ ~\E r \in asked[p] : r < query
        BY <3>5, <2>1, <1>a DEF Expected
      <4>2. h \in asked[p] => h = query
        BY <4>1, <3>3, <3>4, <1>8
      <4> QED BY <4>1, <4>2
    <3>6. ASSUME mishap' \subseteq {"late"} PROVE TasksOf(p) \ {h} \subseteq asked[p] \ {query}
      <4>1. TasksOf(p) \subseteq asked[p] /\ ~\E r \in asked[p] : r < query
        BY <3>6, <2>1, <1>a DEF Awaited
      <4>2. query \in TasksOf(p) => h = query
        BY <4>1, <3>3, <3>4
      <4> QED BY <4>1, <4>2
    <3> QED BY <2>1, <2>2, <3>2, <3>5, <3>6, <1>a DEF Expected, Awaited
  <2> QED BY <2>3, <2>4
<1>9. ASSUME NEW e \in schedule, RefreshCall(e) PROVE Expected' /\ Awaited'
  <2>0. PICK p \in DOMAIN players : p = owner[e[2]]
    BY <1>9, AlarmPops
  <2>1. /\ Pops(p) /\ Head(titles[p]).task = e[2]
    BY <1>9, <2>0, AlarmPops
  <2>2. \/ asked' = [asked EXCEPT ![p] = @ \ {e[2]}]
        \/ UNCHANGED asked /\ "late" \in mishap'
    BY <1>9, <2>0, <2>1 DEF RefreshCall, Pops, Happened
  <2>3. /\ TasksOf(p)' = TasksOf(p) \ {e[2]}
        /\ \A q \in DOMAIN players : q # p => TasksOf(q)' = TasksOf(q)
    BY <2>1, QueueDrop DEF Inv, Pops
  <2>4. CASE asked' = [asked EXCEPT ![p] = @ \ {e[2]}]
    <3>1. /\ asked'[p] = asked[p] \ {e[2]}
          /\ \A q \in DOMAIN players : q # p => asked'[q] = asked[q]
      BY <2>4, <1>a DEF Shape
    <3> QED BY <2>1, <2>3, <3>1, <1>a DEF Expected, Awaited, Pops
  <2>5. CASE UNCHANGED asked /\ "late" \in mishap'
    BY <2>1, <2>3, <2>5, <1>a DEF Expected, Awaited, Pops
  <2> QED BY <2>2, <2>4, <2>5
<1> QED
  BY <1>3, <1>4, <1>5, <1>6, <1>7, <1>8, <1>9 DEF Next, Loop, Handlers, Lost

(* What an answer is given to: the oldest request, which among what is     *)
(* awaited is the answer's own.                                            *)
LEMMA ShiftStep ==
  ASSUME Inv, [Next]_vars
  PROVE  AnswersShift'
<1>a. Expected /\ Awaited /\ Shape /\ mishap \subseteq mishap'
  BY MishapStep DEF Inv
<1>1. CASE said' = {}
  BY <1>1 DEF AnswersShift
<1>2. CASE \E s \in Session : Connect(s)
  BY <1>2 DEF Connect, Line, AnswersShift
<1>3. ASSUME NEW p \in DOMAIN players, Stranger(p) PROVE AnswersShift'
  BY <1>3 DEF Stranger, Happened, AnswersShift
<1>4. ASSUME NEW p \in DOMAIN players, NEW query \in asked[p], Answer(p, query)
      PROVE  AnswersShift'
  <2>1. /\ OnTitle(p, query)
        /\ "reorder" \notin mishap' => ~\E r \in asked[p] : r < query
    BY <1>4 DEF Answer, Happened
  <2>2. CASE titles[p] = <<>>
    <3>1. \A m \in said' : m.what = "ERROR"
      BY <2>1, <2>2 DEF OnTitle, Error, Line
    <3> QED BY <3>1 DEF AnswersShift
  <2>3. CASE titles[p] # <<>>
    <3> DEFINE h == Head(titles[p]).task
    <3>1. \A m \in said' : m.request = h /\ m.query = query
      BY <2>1, <2>3 DEF OnTitle, Line
    <3>2. h \in TasksOf(p) /\ \A t \in TasksOf(p) : h <= t
      BY <2>3, FirstIsOldest
    <3>3. h \in Nat /\ query \in Nat
      BY <2>3, <1>a, FirstRequest, Bounds DEF Shape, A!Task
    <3> HIDE DEF h
    <3>4. mishap' \subseteq {"lose"} => h <= query
      BY <3>2, <1>a DEF Expected
    <3>5. mishap' \subseteq {"late"} => query <= h
      <4> SUFFICES ASSUME mishap' \subseteq {"late"} PROVE query <= h
        OBVIOUS
      <4>1. h \in asked[p] /\ ~\E r \in asked[p] : r < query
        BY <2>1, <3>2, <1>a DEF Awaited
      <4> QED BY <4>1, <3>3
    <3> QED BY <3>1, <3>4, <3>5 DEF AnswersShift
  <2> QED BY <2>2, <2>3
<1>5. CASE Crashed \/ UNCHANGED vars
  BY <1>5 DEF Crashed, vars, Inv, AnswersShift
<1>6. CASE Accepted \/ Command \/ (\E s \in Session : HangUp(s)) \/ (\E p \in DOMAIN players : ReadFails(p))
           \/ Loop \/ Lost \/ Tick \/ (\E s \in Session, p \in DOMAIN players : Title(s, p))
  <2>1. said' = {}
    BY <1>6 DEF Accepted, Command, HangUp, ReadFails, Loop, RefreshStart, RefreshErase, RefreshEnd,
                RefreshCall, Lost, Lose, Tick, Title
  <2> QED BY <1>1, <2>1
<1> QED BY <1>2, <1>3, <1>4, <1>5, <1>6 DEF Next, Handlers

(* error() is called only for an answer that nobody awaits.                *)
LEMMA StrayStep ==
  ASSUME Inv, [Next]_vars
  PROVE  UnexpectedIsStray'
<1>a. /\ Expected /\ Shape /\ mishap \subseteq mishap'
      /\ death = "null" => ~(mishap \subseteq {"lose"})
  BY MishapStep DEF Inv, UnexpectedIsStray
<1>1. CASE said' = {} /\ (death' = "null" => death = "null")
  BY <1>1, <1>a DEF UnexpectedIsStray
<1>2. CASE \E s \in Session : Connect(s)
  BY <1>2, <1>a DEF Connect, Line, UnexpectedIsStray
<1>3. ASSUME NEW p \in DOMAIN players, Stranger(p) PROVE UnexpectedIsStray'
  BY <1>3 DEF Stranger, Happened, UnexpectedIsStray
<1>4. ASSUME NEW p \in DOMAIN players, NEW query \in asked[p], Answer(p, query)
      PROVE  UnexpectedIsStray'
  <2>1. OnTitle(p, query)
    BY <1>4 DEF Answer
  <2>2. CASE titles[p] = <<>>
    <3>1. TasksOf(p) = {}
      BY <2>2 DEF TasksOf
    <3>2. ~(mishap \subseteq {"lose"})
      BY <3>1, <1>4, <1>a DEF Expected
    <3> QED BY <3>2, <1>a DEF UnexpectedIsStray
  <2>3. CASE titles[p] # <<>>
    <3>1. \A m \in said' : m.what = "title"
      BY <2>1, <2>3 DEF OnTitle, Line
    <3>2. death' # "null"
      BY <2>1, <2>3, TitleDeath
    <3> QED BY <3>1, <3>2 DEF UnexpectedIsStray
  <2> QED BY <2>2, <2>3
<1>5. CASE Crashed \/ UNCHANGED vars
  <2>1. UNCHANGED <<said, mishap, death>>
    BY <1>5 DEF Crashed, vars
  <2> QED BY <2>1 DEF Inv, UnexpectedIsStray
<1>6. CASE Accepted \/ Command \/ (\E s \in Session : HangUp(s)) \/ (\E p \in DOMAIN players : ReadFails(p))
           \/ RefreshStart \/ RefreshErase \/ RefreshEnd
           \/ Lost \/ Tick \/ (\E s \in Session, p \in DOMAIN players : Title(s, p))
  BY <1>1, <1>6 DEF Accepted, Command, SendTo, SendFails, Named, HangUp, ReadFails, RefreshStart, RefreshErase,
                    RefreshEnd, Lost, Lose, Tick, Title
<1>7. ASSUME NEW e \in schedule, RefreshCall(e) PROVE UnexpectedIsStray'
  <2>1. said' = {}
    BY <1>7 DEF RefreshCall
  <2>2. UNCHANGED death
    BY <1>7, AlarmPops
  <2> QED BY <1>1, <2>1, <2>2
<1> QED BY <1>2, <1>3, <1>4, <1>5, <1>6, <1>7 DEF Next, Handlers, Loop

LEMMA InitInv == Init => Inv
<1> SUFFICES ASSUME Init PROVE Inv
  OBVIOUS
<1> USE DEF Init
<1>1. AP!IInv
  <2>1. A!Init => AP!Init
    BY DEF A!Init, AP!Init
  <2>2. MaxTime \in Nat /\ MaxTask \in Nat
    BY Bounds
  <2>3. AP!Init => AP!IInv
    BY <2>2, AP!InitInv
  <2> QED BY <2>1, <2>3
<1>2. /\ DOMAIN connections = {} /\ DOMAIN players = {} /\ DOMAIN titles = {}
      /\ DOMAIN asked = {} /\ DOMAIN owner = {} /\ DOMAIN tasks = {} /\ counter = 0
  BY DEF A!Init
<1>3. Shape
  <2>1. /\ \A S : <<>> \in [{} -> S]
        /\ DOMAIN connections = {} /\ 1..counter = {}
    BY <1>2
  <2>2. /\ connections \in [Session -> {"open", "closed", "null"}]
        /\ players \in [DOMAIN players -> BOOLEAN]
        /\ titles \in [DOMAIN players -> Seq(Request)]
        /\ asked \in [DOMAIN players -> SUBSET A!Task]
        /\ owner \in [1..counter -> DOMAIN players]
    BY <2>1, <1>2 DEF Session
  <2>3. connection_counter \in 0..MaxSession + MaxPlayer /\ Session \subseteq 1..MaxSession + MaxPlayer
    BY <2>1, Bounds DEF Session
  <2>4. death \in Death /\ mishap \subseteq Mishap
    BY DEF Death
  <2> HIDE DEF Init
  <2> QED BY <2>2, <2>3, <2>4 DEF Shape
<1>4. Consecutive /\ Numbering
  BY <1>2, Bounds DEF Consecutive, Numbering, Session
<1>5. InTime /\ Heard /\ TimesKept /\ Expected /\ Awaited /\ TitlesMatchAlarms
  BY <1>2 DEF InTime, Heard, TimesKept, Expected, Awaited, TitlesMatchAlarms
<1>6. NoneDue /\ NeverPopsEmpty /\ AnswersShift /\ UnexpectedIsStray
  BY <1>2 DEF A!Init, NoneDue, NeverPopsEmpty, AnswersShift, UnexpectedIsStray
<1> QED BY <1>1, <1>3, <1>4, <1>5, <1>6 DEF Inv

(* Inv is an inductive invariant of the master.                            *)
THEOREM MasterInvariance == Spec => []Inv
<1>1. Inv /\ [Next]_vars => NeverPopsEmpty'
  BY DeathStep DEF Inv, NeverPopsEmpty
<1>2. Inv /\ [Next]_vars => Inv'
  BY <1>1, AlarmInv, ShapeStep, ConsecutiveStep, NumberingStep, InTimeStep, HeardStep,
     TimesKeptStep, NoneDueStep, AskedStep, MatchStep, ShiftStep, StrayStep DEF Inv
<1> QED BY InitInv, <1>2, PTL DEF Spec
-----------------------------------------------------------------------------
(* The variables keep their types: in particular connection_id_gen()       *)
(* always finds a number, and every session a request names exists.        *)
THEOREM MasterTypeCorrect == Spec => []TypeOK
<1>1. Inv => TypeOK
  <2> SUFFICES ASSUME Inv PROVE TypeOK
    OBVIOUS
  <2>1. A!TypeOK
    BY AlarmFacts DEF Inv
  <2>2. DOMAIN players \subseteq Player
    BY Bounds DEF Inv, Consecutive, Player
  <2>3. titles \in [DOMAIN players -> Seq([task : A!Task, session : Session, tp : A!Time])]
    <3>1. titles \in [DOMAIN players -> Seq(Request)]
      BY DEF Inv, Shape
    <3>2. ASSUME NEW p \in DOMAIN players
          PROVE  titles[p] \in Seq([task : A!Task, session : Session, tp : A!Time])
      <4>1. titles[p] \in Seq(Request)
        BY <3>1
      <4>2. \A i \in 1..Len(titles[p]) : titles[p][i] \in Request
        <5> HIDE DEF Request
        <5> QED BY <4>1, ElementOfSeq
      <4>3. \A i \in 1..Len(titles[p]) : titles[p][i].session \in Session
        BY <4>1 DEF Inv, Heard
      <4>4. \A i \in 1..Len(titles[p]) : titles[p][i] \in [task : A!Task, session : Session, tp : A!Time]
        BY <4>2, <4>3 DEF Request
      <4> DEFINE T == [task : A!Task, session : Session, tp : A!Time]
                 q == titles[p]
      <4> HIDE DEF T, q, Request
      <4>5. q \in Seq(Request) /\ \A i \in 1..Len(q) : q[i] \in T
        BY <4>1, <4>4 DEF q, T
      <4>6. q \in Seq(T)
        BY ONLY <4>5
      <4> QED BY <4>6 DEF q, T
    <3> QED BY <3>1, <3>2
  <2> QED BY <2>1, <2>2, <2>3 DEF Inv, Shape, TypeOK, Mishap
<1> QED BY <1>1, MasterInvariance, PTL

(* The deque of every player and the alarms armed for it hold the same     *)
(* requests in the same order (get_title(), on_title() and on_alarm() of   *)
(* src/master.cc), whatever is lost, late, reordered or made up.           *)
THEOREM MasterTitlesMatchAlarms == Spec => []TitlesMatchAlarms
<1>1. Inv => TitlesMatchAlarms
  BY DEF Inv
<1> QED BY <1>1, MasterInvariance, PTL

(* on_alarm() never pops from an empty deque: however answers cancel the   *)
(* alarms of requests and stray datagrams take their place, the alarm that *)
(* runs is that of the first request.                                      *)
THEOREM MasterNeverPopsEmpty == Spec => []NeverPopsEmpty
<1>1. Inv => NeverPopsEmpty
  BY DEF Inv
<1> QED BY <1>1, MasterInvariance, PTL

(* No request outlives the first refresh() after its three seconds.        *)
THEOREM MasterDropsInTime == Spec => []DroppedInTime
<1>1. Inv => DroppedInTime
  <2> SUFFICES ASSUME Inv, phase = "idle", NEW p \in DOMAIN players, NEW i \in DOMAIN titles[p]
               PROVE  upto < titles[p][i].tp
    BY DEF DroppedInTime
  <2>1. titles[p][i].task \in DOMAIN tasks
    BY AlarmFacts DEF Inv, TitlesMatchAlarms, TasksOf, ArmedTasks
  <2> QED BY <2>1 DEF Inv, TimesKept, NoneDue
<1> QED BY <1>1, MasterInvariance, PTL

(* No alarm drops a request before its three seconds are over.             *)
THEOREM MasterNotTooSoon == Spec => NotTooSoon
<1>1. ASSUME Inv, NEW e \in schedule, RefreshCall(e)
      PROVE  LET q == titles[owner[e[2]]] IN q # <<>> => q[1].tp <= now
  <2> DEFINE p == owner[e[2]]
  <2>1. p \in DOMAIN players /\ Pops(p) /\ Head(titles[p]).task = e[2]
    BY <1>1, AlarmPops
  <2>2. Head(titles[p]) = titles[p][1] /\ 1 \in DOMAIN titles[p]
    BY <1>1, <2>1, FirstRequest DEF Inv, Pops
  <2>3. titles[p][1].tp = tasks[e[2]]
    BY <1>1, <2>1, <2>2 DEF Inv, TimesKept
  <2>4. e[1] = tasks[e[2]]
    BY <1>1, AlarmFacts DEF Inv, A!MapsAgree
  <2>5. e[1] <= upto /\ upto <= now
    BY <1>1 DEF RefreshCall, A!RefreshCall, Inv, NoneDue
  <2>6. e[1] \in Nat /\ upto \in Nat /\ now \in Nat
    BY <1>1, AlarmFacts, Bounds DEF Inv, A!TypeOK, A!Time
  <2> QED BY <2>3, <2>4, <2>5, <2>6
<1>2. Inv /\ [Next]_vars =>
        [\A e \in schedule :
           RefreshCall(e) => LET q == titles[owner[e[2]]] IN q # <<>> => q[1].tp <= now]_vars
  BY <1>1
<1> QED BY <1>2, MasterInvariance, PTL DEF Spec, NotTooSoon

(* Whatever players are silent and requests time out, on_title() gives a   *)
(* session the answer to its own request while the network is in order and *)
(* in time; lost answers move titles to earlier requests only, and late    *)
(* ones to later requests only.                                            *)
THEOREM MasterAnswersShift == Spec => []AnswersShift
<1>1. Inv => AnswersShift
  BY DEF Inv
<1> QED BY <1>1, MasterInvariance, PTL

(* While nothing is worse than lost, error() is never called.              *)
THEOREM MasterUnexpectedIsStray == Spec => []UnexpectedIsStray
<1>1. Inv => UnexpectedIsStray
  BY DEF Inv
<1> QED BY <1>1, MasterInvariance, PTL
=============================================================================
