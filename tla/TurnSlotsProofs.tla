-------------------------- MODULE TurnSlotsProofs --------------------------
(***************************************************************************)
(* What TurnSlots guarantees for every cap and every finite set of callers.*)
(*                                                                         *)
(* IInv joins the type invariant and SlotSafety: none of the four parts of *)
(* SlotSafety is inductive alone.  A hand-over keeps HeldIsOwned only      *)
(* because the head of the queue is not an owner yet (QueueIsQueued), and  *)
(* TakeSlot keeps WaitingMeansFull only because nobody is in line.         *)
(***************************************************************************)
EXTENDS TurnSlots, FiniteSetTheorems, TLAPS

IInv == TypeOK /\ SlotSafety

\* The owners are a finite set, and its size is a natural number.
LEMMA OwnersFinite ==
  ASSUME NEW S \in SUBSET Ticket
  PROVE  IsFiniteSet(S) /\ Cardinality(S) \in Nat
BY SlotsAssumption, FS_Subset, FS_CardinalityType

\* Initially nothing is held, and nobody waits.
LEMMA InitIInv == Init => IInv
<1> SUFFICES ASSUME Init PROVE IInv
  OBVIOUS
<1>1. TypeOK
  BY DEF Init, TypeOK, Phases
<1>2. Owners = {}
  BY DEF Init, Owners
<1>3. HeldIsOwned
  BY <1>2, FS_EmptySet DEF Init, HeldIsOwned
<1>4. QueueIsQueued /\ WithinCap /\ WaitingMeansFull
  BY SlotsAssumption DEF Init, QueueIsQueued, WithinCap, WaitingMeansFull
<1> QED
  BY <1>1, <1>3, <1>4 DEF IInv, SlotSafety

\* Taking a free slot.
LEMMA TakeSlotIInv ==
  ASSUME IInv, NEW k \in Ticket, TakeSlot(k)
  PROVE  IInv'
<1> USE DEF IInv, SlotSafety
<1>1. /\ held < Cap /\ waiting = <<>> /\ waiting' = <<>>
      /\ held' = held + 1 /\ k \notin Owners
  BY SlotsAssumption DEF TakeSlot, MustQueue, TypeOK, Owners
<1>2. TypeOK'
  BY DEF TakeSlot, TypeOK, Phases
<1>3. Owners' = Owners \cup {k}
  BY DEF TakeSlot, Owners, TypeOK
<1>4. Cardinality(Owners') = Cardinality(Owners) + 1
  <2>1. IsFiniteSet(Owners)
    BY OwnersFinite DEF Owners
  <2> QED
    BY <1>1, <1>3, <2>1, FS_AddElement
<1>5. HeldIsOwned'
  BY <1>1, <1>4 DEF HeldIsOwned
<1>6. QueueIsQueued'
  BY <1>1 DEF QueueIsQueued, TakeSlot, TypeOK
<1>7. WithinCap' /\ WaitingMeansFull'
  BY <1>1, SlotsAssumption DEF WithinCap, WaitingMeansFull, TypeOK
<1> QED
  BY <1>2, <1>5, <1>6, <1>7

\* Joining the queue.
LEMMA JoinQueueIInv ==
  ASSUME IInv, NEW k \in Ticket, JoinQueue(k)
  PROVE  IInv'
<1> USE DEF IInv, SlotSafety
<1>1. /\ waiting \in Seq(Ticket) /\ waiting' = Append(waiting, k)
      /\ held' = held /\ held \in Nat
  BY DEF JoinQueue, TypeOK
<1>2. TypeOK'
  BY DEF JoinQueue, TypeOK, Phases
<1>3. Owners' = Owners
  BY DEF JoinQueue, Owners, TypeOK
<1>4. held = Cap
  BY SlotsAssumption DEF JoinQueue, MustQueue, TypeOK, WithinCap,
     WaitingMeansFull
<1>5. QueueIsQueued'
  <2>1. \A i \in 1..Len(waiting) : waiting[i] # k
    BY DEF JoinQueue, QueueIsQueued
  <2>2. /\ Len(waiting') = Len(waiting) + 1
        /\ waiting'[Len(waiting) + 1] = k
        /\ \A i \in 1..Len(waiting) : waiting'[i] = waiting[i]
    BY <1>1
  <2>3. \A i \in 1..Len(waiting') : phase'[waiting'[i]] = "queued"
    BY <1>1, <2>1, <2>2 DEF JoinQueue, QueueIsQueued, TypeOK
  <2>4. ASSUME NEW t \in Ticket, phase'[t] = "queued"
        PROVE  \E i \in 1..Len(waiting') : waiting'[i] = t
    <3>1. CASE t = k
      BY <1>1, <2>2, <3>1
    <3>2. CASE t # k
      <4>1. phase[t] = "queued"
        BY <2>4, <3>2 DEF JoinQueue, TypeOK
      <4>2. PICK i \in 1..Len(waiting) : waiting[i] = t
        BY <4>1 DEF QueueIsQueued
      <4> QED
        BY <1>1, <2>2, <4>2
    <3> QED
      BY <3>1, <3>2
  <2>5. \A i, j \in 1..Len(waiting') : waiting'[i] = waiting'[j] => i = j
    BY <1>1, <2>1, <2>2 DEF QueueIsQueued
  <2> QED
    BY <2>3, <2>4, <2>5 DEF QueueIsQueued
<1> QED
  BY <1>1, <1>2, <1>3, <1>4, <1>5, SlotsAssumption
     DEF HeldIsOwned, WithinCap, WaitingMeansFull

\* The microtask of a woken ticket: it owned its slot already.
LEMMA ResumeIInv ==
  ASSUME IInv, NEW k \in Ticket, Resume(k)
  PROVE  IInv'
<1> USE DEF IInv, SlotSafety
<1>1. TypeOK'
  BY DEF Resume, TypeOK, Phases
<1>2. Owners' = Owners
  BY DEF Resume, Owners, TypeOK
<1>3. QueueIsQueued'
  BY DEF Resume, QueueIsQueued, TypeOK
<1> QED
  BY <1>1, <1>2, <1>3
     DEF Resume, HeldIsOwned, WithinCap, WaitingMeansFull

\* Handing a slot to the head of the queue, which joins the owners as the
\* releaser leaves them.
LEMMA HandOnIInv ==
  ASSUME IInv, NEW k \in Ticket, FirstCall(k), GiveBack(k), waiting # <<>>
  PROVE  IInv'
<1> USE DEF IInv, SlotSafety
<1> DEFINE h == Head(waiting)
<1>1. /\ waiting \in Seq(Ticket) /\ Len(waiting) \in Nat \ {0}
      /\ h \in Ticket /\ h = waiting[1] /\ 1 \in 1..Len(waiting)
      /\ waiting' = Tail(waiting) /\ held' = held
      /\ phase' = [phase EXCEPT ![k] = "released", ![h] = "woken"]
  BY DEF GiveBack, TypeOK
<1>2. phase[h] = "queued" /\ h # k /\ h \notin Owners /\ k \in Owners
  BY <1>1 DEF QueueIsQueued, FirstCall, Owners
<1>3. TypeOK'
  BY <1>1 DEF TypeOK, Phases
<1>4. Owners' = (Owners \ {k}) \cup {h}
  BY <1>1, <1>2 DEF Owners, TypeOK
<1>5. Cardinality(Owners') = Cardinality(Owners)
  <2>1. IsFiniteSet(Owners) /\ Cardinality(Owners) \in Nat
    BY OwnersFinite DEF Owners
  <2>2. /\ IsFiniteSet(Owners \ {k})
        /\ Cardinality(Owners \ {k}) = Cardinality(Owners) - 1
    BY <1>2, <2>1, FS_RemoveElement
  <2>3. Cardinality((Owners \ {k}) \cup {h}) = Cardinality(Owners \ {k}) + 1
    BY <1>2, <2>2, FS_AddElement
  <2> QED
    BY <1>4, <2>1, <2>2, <2>3
<1>6. QueueIsQueued'
  <2>1. /\ Len(waiting') = Len(waiting) - 1
        /\ \A i \in 1..Len(waiting') : /\ i + 1 \in 1..Len(waiting)
                                       /\ waiting'[i] = waiting[i + 1]
    BY <1>1
  <2>2. \A i \in 2..Len(waiting) : waiting[i] # h
    BY <1>1 DEF QueueIsQueued
  <2>3. \A i \in 1..Len(waiting') : phase'[waiting'[i]] = "queued"
    <3> SUFFICES ASSUME NEW i \in 1..Len(waiting')
                 PROVE  phase'[waiting'[i]] = "queued"
      OBVIOUS
    <3>1. /\ waiting'[i] = waiting[i + 1] /\ i + 1 \in 2..Len(waiting)
          /\ waiting[i + 1] \in Ticket /\ phase[waiting[i + 1]] = "queued"
      BY <1>1, <2>1 DEF QueueIsQueued
    <3>2. waiting[i + 1] # h /\ waiting[i + 1] # k
      BY <2>2, <3>1 DEF FirstCall
    <3> QED
      BY <1>1, <3>1, <3>2 DEF TypeOK
  <2>4. ASSUME NEW t \in Ticket, phase'[t] = "queued"
        PROVE  \E i \in 1..Len(waiting') : waiting'[i] = t
    <3>1. phase[t] = "queued" /\ t # h
      BY <1>1, <1>2, <2>4 DEF TypeOK
    <3>2. PICK i \in 1..Len(waiting) : waiting[i] = t
      BY <3>1 DEF QueueIsQueued
    <3>3. i - 1 \in 1..Len(waiting') /\ waiting'[i - 1] = t
      BY <1>1, <2>1, <3>1, <3>2
    <3> QED
      BY <3>3
  <2>5. \A i, j \in 1..Len(waiting') : waiting'[i] = waiting'[j] => i = j
    BY <1>1, <2>1 DEF QueueIsQueued
  <2> QED
    BY <2>3, <2>4, <2>5 DEF QueueIsQueued
<1> QED
  BY <1>1, <1>3, <1>5, <1>6 DEF HeldIsOwned, WithinCap, WaitingMeansFull

\* Giving back a slot nobody waits for.
LEMMA UncountIInv ==
  ASSUME IInv, NEW k \in Ticket, FirstCall(k), GiveBack(k), waiting = <<>>
  PROVE  IInv'
<1> USE DEF IInv, SlotSafety
<1>1. /\ waiting' = <<>> /\ held' = held - 1
      /\ phase' = [phase EXCEPT ![k] = "released"] /\ k \in Owners
  BY DEF GiveBack, FirstCall, Owners
<1>2. Owners' = Owners \ {k}
  BY <1>1 DEF Owners, TypeOK
<1>3. /\ Cardinality(Owners') = Cardinality(Owners) - 1
      /\ Cardinality(Owners') \in Nat
  <2>1. IsFiniteSet(Owners)
    BY OwnersFinite DEF Owners
  <2>2. Cardinality(Owners \ {k}) \in Nat
    BY OwnersFinite DEF Owners
  <2> QED
    BY <1>1, <1>2, <2>1, <2>2, FS_RemoveElement
<1>4. HeldIsOwned' /\ held' \in Nat
  BY <1>1, <1>3 DEF HeldIsOwned
<1>5. TypeOK'
  BY <1>1, <1>4 DEF TypeOK, Phases
<1>6. QueueIsQueued'
  BY <1>1 DEF QueueIsQueued, TypeOK
<1> QED
  BY <1>1, <1>4, <1>5, <1>6, SlotsAssumption
     DEF WithinCap, WaitingMeansFull, TypeOK

\* Every step of every caller keeps the invariant.
LEMMA StepIInv == IInv /\ [Next]_slotVars => IInv'
<1> SUFFICES ASSUME IInv, [Next]_slotVars PROVE IInv'
  OBVIOUS
<1>1. CASE UNCHANGED slotVars
  BY <1>1 DEF slotVars, IInv, TypeOK, SlotSafety, QueueIsQueued,
     HeldIsOwned, Owners, WithinCap, WaitingMeansFull
<1>2. ASSUME NEW k \in Ticket, Step(k) PROVE IInv'
  <2>1. CASE TakeSlot(k)
    BY <2>1, TakeSlotIInv
  <2>2. CASE JoinQueue(k)
    BY <2>2, JoinQueueIInv
  <2>3. CASE Resume(k)
    BY <2>3, ResumeIInv
  <2>4. CASE Release(k)
    <3>1. CASE FirstCall(k)
      BY <2>4, <3>1, HandOnIInv, UncountIInv DEF Release
    <3>2. CASE ~FirstCall(k)
      BY <1>1, <2>4, <3>2 DEF Release
    <3> QED
      BY <3>1, <3>2
  <2> QED
    BY <1>2, <2>1, <2>2, <2>3, <2>4 DEF Step
<1> QED
  BY <1>1, <1>2 DEF Next

\* The inductive invariant holds in every reachable state of a host.
THEOREM InvariantHolds == SafeSpec => []IInv
BY InitIInv, StepIInv, PTL DEF SafeSpec

\* The counter, the queue and the callers keep their types.
THEOREM TypeCorrect == SafeSpec => []TypeOK
<1>1. IInv => TypeOK
  BY DEF IInv
<1> QED
  BY <1>1, InvariantHolds, PTL

\* concurrency.ts never counts a slot nobody owns, never runs more than the
\* cap, and never lets a turn wait while a slot is free.
THEOREM SlotsAreSafe == SafeSpec => []SlotSafety
<1>1. IInv => SlotSafety
  BY DEF IInv
<1> QED
  BY <1>1, InvariantHolds, PTL

----------------------------------------------------------------------------
\* The instance counts as this module does.
LEMMA SameCount == \A S : Semaphore!Cardinality(S) = Cardinality(S)
BY Zenon DEF Semaphore!Cardinality, Cardinality

\* Each step of the class is a step of the semaphore it promises to be, or
\* (a resumption, a repeated release) one the semaphore does not see.
LEMMA StepImplements ==
  ASSUME IInv, NEW k \in Ticket, Step(k)
  PROVE  Semaphore!Next \/ UNCHANGED <<Owners, waiting>>
<1> USE DEF IInv, SlotSafety
<1>1. CASE TakeSlot(k)
  <2>1. waiting = <<>> /\ held < Cap /\ k \notin Owners
    BY <1>1, SlotsAssumption DEF TakeSlot, MustQueue, TypeOK, Owners
  <2>2. Owners' = Owners \cup {k} /\ waiting' = waiting
    BY <1>1 DEF TakeSlot, Owners, TypeOK
  <2>3. Semaphore!Admit(k)
    BY <2>1, <2>2, SameCount DEF Semaphore!Admit, HeldIsOwned
  <2> QED
    BY <2>3 DEF Semaphore!Next
<1>2. CASE JoinQueue(k)
  <2>1. k \notin Owners /\ Owners' = Owners /\ waiting' = Append(waiting, k)
    BY <1>2 DEF JoinQueue, Owners, TypeOK
  <2>2. k \notin Semaphore!InLine
    BY <1>2 DEF JoinQueue, QueueIsQueued, Semaphore!InLine
  <2>3. Cardinality(Owners) = Cap
    BY <1>2, SlotsAssumption DEF JoinQueue, MustQueue, TypeOK, WithinCap,
       WaitingMeansFull, HeldIsOwned
  <2>4. Semaphore!Wait(k)
    BY <2>1, <2>2, <2>3, SameCount DEF Semaphore!Wait
  <2> QED
    BY <2>4 DEF Semaphore!Next
<1>3. CASE Resume(k)
  BY <1>3 DEF Resume, Owners, TypeOK
<1>4. CASE Release(k)
  <2>1. CASE ~FirstCall(k)
    BY <1>4, <2>1 DEF Release, slotVars, Owners
  <2>2. CASE FirstCall(k) /\ waiting = <<>>
    <3>1. k \in Owners /\ Owners' = Owners \ {k} /\ waiting' = waiting
      BY <1>4, <2>2 DEF Release, FirstCall, GiveBack, Owners, TypeOK
    <3>2. Semaphore!Return(k)
      BY <2>2, <3>1 DEF Semaphore!Return
    <3> QED
      BY <3>2 DEF Semaphore!Next
  <2>3. CASE FirstCall(k) /\ waiting # <<>>
    <3> DEFINE h == Head(waiting)
    <3>1. /\ GiveBack(k) /\ waiting' = Tail(waiting) /\ k \in Owners
          /\ phase' = [phase EXCEPT ![k] = "released", ![h] = "woken"]
      BY <1>4, <2>3 DEF Release, FirstCall, GiveBack, Owners
    <3>2. h \in Ticket /\ h = waiting[1] /\ 1 \in 1..Len(waiting)
      BY <2>3 DEF TypeOK
    <3>3. phase[h] = "queued" /\ h # k
      BY <2>3, <3>2 DEF QueueIsQueued, FirstCall
    <3>4. Owners' = (Owners \ {k}) \cup {h}
      BY <3>1, <3>2, <3>3 DEF Owners, TypeOK
    <3>5. Semaphore!HandOver(k)
      BY <2>3, <3>1, <3>4 DEF Semaphore!HandOver
    <3> QED
      BY <3>5 DEF Semaphore!Next
  <2> QED
    BY <2>1, <2>2, <2>3
<1> QED
  BY <1>1, <1>2, <1>3, <1>4 DEF Step

\* concurrency.ts is a FIFO semaphore: it admits while there is room, never
\* lets a late turn overtake, and hands each returned slot to the head of
\* the line, for every cap and however often closures are called again.
THEOREM TurnSlotsImplementsSemaphore == SafeSpec => ImplementsSemaphore
<1>1. Init => Semaphore!Init
  BY DEF Init, Semaphore!Init, Owners
<1>2. IInv /\ [Next]_slotVars => [Semaphore!Next]_(Semaphore!semVars)
  <2> SUFFICES ASSUME IInv, [Next]_slotVars
               PROVE  [Semaphore!Next]_(Semaphore!semVars)
    OBVIOUS
  <2>1. CASE UNCHANGED slotVars
    BY <2>1 DEF slotVars, Owners, Semaphore!semVars
  <2>2. CASE Next
    BY <2>2, StepImplements DEF Next, Semaphore!semVars
  <2> QED
    BY <2>1, <2>2
<1> QED
  BY <1>1, <1>2, InvariantHolds, PTL
     DEF SafeSpec, ImplementsSemaphore, Semaphore!Spec
=============================================================================
