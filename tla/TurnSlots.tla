----------------------------- MODULE TurnSlots -----------------------------
(***************************************************************************)
(* main/concurrency.ts, class TurnSlots: the slots one host hands to agent *)
(* loops.                                                                  *)
(*                                                                         *)
(* acquire() either counts a slot at once or parks a resolver in `waiting` *)
(* and returns when it is resolved; the closure it returns gives the slot  *)
(* back once.  Resolving a promise does not run the waiter: it resumes on  *)
(* a later microtask, and other callers may run in between.  So a ticket   *)
(* whose resolver has been called is "woken" until it resumes ("held").    *)
(*                                                                         *)
(* A ticket stands for a caller with one acquire() outstanding at a time;  *)
(* it may ask again once its closure has been called.                      *)
(***************************************************************************)
EXTENDS Naturals, Sequences, FiniteSets

CONSTANTS Ticket,  \* the callers of acquire
          Cap      \* the constructor's `cap`

\* The constructor throws on a cap below 1; a host has finitely many turns.
ASSUME SlotsAssumption == /\ Cap \in Nat \ {0}
                          /\ IsFiniteSet(Ticket)

VARIABLES held,     \* this.held
          waiting,  \* this.waiting, as the tickets whose resolvers it holds
          phase     \* where each ticket is in its call of acquire

slotVars == <<held, waiting, phase>>

Phases == {"new", "queued", "woken", "held", "released"}

Owners == {k \in Ticket : phase[k] \in {"woken", "held"}}

Init == /\ held = 0
        /\ waiting = <<>>
        /\ phase = [k \in Ticket |-> "new"]

----------------------------------------------------------------------------
\* The guard of acquire: queue if the host is full or anyone already waits.
MustQueue == held >= Cap \/ Len(waiting) > 0

\* acquire() when there is room: the slot is counted and the call returns.
TakeSlot(k) == /\ phase[k] \in {"new", "released"}
               /\ ~MustQueue
               /\ held' = held + 1
               /\ phase' = [phase EXCEPT ![k] = "held"]
               /\ UNCHANGED waiting

\* acquire() when there is none: its resolver joins the queue.
JoinQueue(k) == /\ phase[k] \in {"new", "released"}
                /\ MustQueue
                /\ waiting' = Append(waiting, k)
                /\ phase' = [phase EXCEPT ![k] = "queued"]
                /\ UNCHANGED held

\* The microtask on which an awaited acquire() returns.  Nothing is counted.
Resume(k) == /\ phase[k] = "woken"
             /\ phase' = [phase EXCEPT ![k] = "held"]
             /\ UNCHANGED <<held, waiting>>

\* Mutant: the slot is uncounted and the woken ticket is to count it again.
UncountAndWake(k) ==
  /\ held' = held - 1
  /\ waiting' = IF waiting = <<>> THEN waiting ELSE Tail(waiting)
  /\ phase' = [t \in Ticket |->
                 CASE t = k -> "released"
                   [] waiting # <<>> /\ t = Head(waiting) -> "woken"
                   [] OTHER -> phase[t]]

\* Mutant: the last to come is served first.
GiveToLast(k) ==
  \/ /\ waiting # <<>>
     /\ waiting' = SubSeq(waiting, 1, Len(waiting) - 1)
     /\ phase' = [phase EXCEPT ![k] = "released",
                              ![waiting[Len(waiting)]] = "woken"]
     /\ UNCHANGED held
  \/ /\ waiting = <<>>
     /\ held' = held - 1
     /\ phase' = [phase EXCEPT ![k] = "released"]
     /\ UNCHANGED waiting

\* What the closure does on its first call: hand the slot on, or uncount it.
GiveBack(k) ==
  \/ /\ waiting # <<>>
     /\ waiting' = Tail(waiting)
     /\ phase' = [phase EXCEPT ![k] = "released", ![Head(waiting)] = "woken"]
     /\ UNCHANGED held
  \/ /\ waiting = <<>>
     /\ held' = held - 1
     /\ phase' = [phase EXCEPT ![k] = "released"]
     /\ UNCHANGED waiting

\* Mutant: the closure has no `released` flag.
EveryCall(k) == phase[k] # "new"

\* The closure acts on its first call only.
FirstCall(k) == phase[k] = "held"

\* A call of the closure.  One exists from the moment the first acquire()
\* returned; calling it again, or while a new acquire() waits, does nothing.
Release(k) == /\ phase[k] # "new"
              /\ IF FirstCall(k) THEN GiveBack(k) ELSE UNCHANGED slotVars

----------------------------------------------------------------------------
Step(k) == TakeSlot(k) \/ JoinQueue(k) \/ Resume(k) \/ Release(k)

Next == \E k \in Ticket : Step(k)

SafeSpec == Init /\ [][Next]_slotVars

----------------------------------------------------------------------------
\* The counter never goes below zero, and only callers of acquire are queued.
TypeOK == /\ held \in Nat
          /\ waiting \in Seq(Ticket)
          /\ phase \in [Ticket -> Phases]

\* The queue holds the queued tickets, each once.
QueueIsQueued ==
  /\ \A i \in 1..Len(waiting) : phase[waiting[i]] = "queued"
  /\ \A k \in Ticket : phase[k] = "queued" =>
                         \E i \in 1..Len(waiting) : waiting[i] = k
  /\ \A i, j \in 1..Len(waiting) : waiting[i] = waiting[j] => i = j

\* The counter is the number of slots that somebody owns: none is lost by a
\* hand-over and none is handed out that does not exist.
HeldIsOwned == held = Cardinality(Owners)

\* "the host runs one over its cap" is what the hand-over exists to prevent.
WithinCap == held <= Cap

\* Nobody waits while a slot is free.
WaitingMeansFull == waiting # <<>> => held = Cap

\* acquire and its closure: no slot is lost or invented, the host never runs
\* over its cap, and a waiter waits only while the host is full.
SlotSafety == /\ QueueIsQueued
              /\ HeldIsOwned
              /\ WithinCap
              /\ WaitingMeansFull

\* FIFO, no overtaking, work-conserving: the promise of the class comment.
Semaphore == INSTANCE FifoSemaphore WITH holders <- Owners, line <- waiting

ImplementsSemaphore == Semaphore!Spec
=============================================================================
