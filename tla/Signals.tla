------------------------------ MODULE Signals ------------------------------
(***************************************************************************)
(* Signals and slots (src/asio/events.hh).  A Signal keeps pointers to its *)
(* slots and a Slot keeps pointers to its signals, so an object must tell  *)
(* the others when it dies.  The two classes are each other's mirror image *)
(* (remove() and both destructors), so here both are objects with `links'. *)
(*                                                                         *)
(* A destructor runs over its vector with iterators taken at the start,    *)
(* while every call of remove() erases an element of that vector.  What it *)
(* then reads is undefined behaviour; erase() of libstdc++ moves the later *)
(* elements down and leaves in place what is in the memory above.          *)
(***************************************************************************)
EXTENDS Integers, Sequences, SequencesExt

CONSTANTS
  Signal, Slot,
  MaxLinks,  \* how many objects one is linked with
  None

Object == Signal \cup Slot

ASSUME SignalsAssumption ==
  /\ MaxLinks \in Nat
  /\ Signal \cap Slot = {}
  /\ None \notin Object

VARIABLES
  links,   \* Signal::slots and Slot::signals
  alive,   \* the objects that have not been destroyed
  victim,  \* the object whose destructor runs
  memory,  \* what is in the memory of its vector
  at,      \* the position of the iterator in it
  failed   \* did the assertion of remove() fail?

destructor == <<victim, memory, at>>
signalsVars == <<links, alive, destructor, failed>>

SignalsInit ==
  /\ links = [x \in Object |-> <<>>]
  /\ alive = Object
  /\ victim = None /\ memory = <<>> /\ at = 1
  /\ failed = FALSE

Running == victim = None /\ ~failed
-----------------------------------------------------------------------------
(* Signal::add()                                                           *)
Add(signal, slot) ==
  /\ Running
  /\ {signal, slot} \subseteq alive
  /\ Len(links[signal]) < MaxLinks /\ Len(links[slot]) < MaxLinks
  /\ links' = [links EXCEPT ![signal] = Append(@, slot), ![slot] = Append(@, signal)]
  /\ UNCHANGED <<alive, destructor, failed>>

EraseAll(x, y) ==                                                \* mutant
  [links EXCEPT ![x] = SelectSeq(@, LAMBDA z : z # y), ![y] = SelectSeq(@, LAMBDA z : z # x)]

(* What remove() leaves of the vectors of both.                            *)
Erased(x, y) == [links EXCEPT ![x] = RemoveFirst(@, y), ![y] = RemoveFirst(@, x)]

Linked(x, y) == Contains(links[x], y) /\ Contains(links[y], x)

(* Signal::remove() by other code, of a slot it has added.                 *)
RemoveSlot(signal, slot) ==
  /\ Running
  /\ Linked(signal, slot)
  /\ links' = Erased(signal, slot)
  /\ UNCHANGED <<alive, destructor, failed>>

(* ~Signal() or ~Slot() begins.                                            *)
Destroy(x) ==
  /\ Running
  /\ x \in alive
  /\ victim' = x /\ memory' = links[x] /\ at' = 1
  /\ UNCHANGED <<links, alive, failed>>

(* One turn of its loop: remove() of what the iterator points at.          *)
Step ==
  /\ victim # None /\ ~failed
  /\ at <= Len(memory)
  /\ IF Linked(victim, memory[at])
       THEN /\ links' = Erased(victim, memory[at])
            /\ memory' = [i \in DOMAIN memory |->
                            IF i \in DOMAIN links'[victim] THEN links'[victim][i]
                                                           ELSE memory[i]]
            /\ at' = at + 1
            /\ UNCHANGED failed
       ELSE failed' = TRUE /\ UNCHANGED <<links, memory, at>>
  /\ UNCHANGED <<alive, victim>>

Destroyed ==
  /\ victim # None
  /\ at > Len(memory)
  /\ alive' = alive \ {victim}
  /\ links' = [links EXCEPT ![victim] = <<>>]
  /\ victim' = None /\ memory' = <<>> /\ at' = 1
  /\ UNCHANGED failed

SignalsNext ==
  \/ \E signal \in Signal, slot \in Slot : Add(signal, slot) \/ RemoveSlot(signal, slot)
  \/ \E x \in Object : Destroy(x)
  \/ Step \/ Destroyed

SignalsSpec == SignalsInit /\ [][SignalsNext]_signalsVars
-----------------------------------------------------------------------------
(* How often x points at y.                                                *)
Count(x, y) == Cardinality({i \in DOMAIN links[x] : links[x][i] = y})

NobodyDangles ==
  \A x \in alive :
    /\ ToSet(links[x]) \subseteq alive
    /\ \A y \in Object : Count(x, y) = Count(y, x)

(* Signals and slots always point at each other, as often, so that nobody  *)
(* is left with a pointer to an object that is gone; and what a destructor *)
(* reads above the end of its vector is the object it should be, while     *)
(* there are no more than two, as in both programs.  With three the        *)
(* assertion of remove() may fail.                                         *)
LinksMutual == NobodyDangles /\ (failed => Len(memory) >= 3)
=============================================================================
